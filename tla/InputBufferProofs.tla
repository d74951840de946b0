------------------------- MODULE InputBufferProofs --------------------------
(***************************************************************************)
(* The wait blocks, and the reads of the input buffer, for every set of    *)
(* clients and keys and every size.  Blocks that are created and ended     *)
(* leave the two queues of each and the counts of the handles in           *)
(* agreement.  The two loops, of InputBuffer::Read and of                  *)
(* ReadCharacterInput, deliver what they take from the storage and the     *)
(* caches byte for byte, and leave the rest behind.  What the loops        *)
(* compute is shown by induction, for which the recursive functions of     *)
(* ConsoleInput are unfolded first.                                        *)
(***************************************************************************)
EXTENDS ConsoleInput, FiniteSetTheorems, SequenceTheorems, NaturalsInduction,
        WellFoundedInduction, TLAPS

-----------------------------------------------------------------------------
(* Induction and recursion. *)

\* Induction over the natural numbers, for a set instead of a predicate.
LEMMA NatSetInduction ==
    ASSUME NEW S, 0 \in S, \A n \in Nat : n \in S => n + 1 \in S
    PROVE  Nat \subseteq S
<1> DEFINE T == Nat \ S
           Less == {ss \in Nat \X Nat : ss[1] < ss[2]}
<1> SUFFICES ASSUME T # {} PROVE FALSE
  OBVIOUS
<1>1. IsWellFoundedOn(Less, Nat)
  BY NatLessThanWellFounded DEF OpToRel
<1>2. PICK n \in T : \A m \in T : <<m, n>> \notin Less
  <2> HIDE DEF Less
  <2> QED
    BY <1>1, WFMin, Zenon
<1>3. n \in Nat /\ n \notin S /\ n # 0 /\ n - 1 \in Nat /\ n = (n - 1) + 1
  BY <1>2
<1>4. <<n - 1, n>> \in Less
  BY <1>3
<1>5. n - 1 \in S
  BY <1>2, <1>3, <1>4
<1> QED
  BY <1>3, <1>5

\* The same up to a bound.
LEMMA UpTo ==
    ASSUME NEW n \in Nat, NEW S, 0 \in S, \A k \in 0 .. n : k < n /\ k \in S => k + 1 \in S
    PROVE  \A k \in 0 .. n : k \in S
<1> DEFINE T == {k \in Nat : k <= n => k \in S}
<1>1. 0 \in T
  OBVIOUS
<1>2. \A k \in Nat : k \in T => k + 1 \in T
  OBVIOUS
<1> HIDE DEF T
<1>3. Nat \subseteq T
  BY <1>1, <1>2, NatSetInduction
<1> QED
  BY <1>3 DEF T

\* g steps from a base through values in V.
Unfolds(g, n, V, base, step) ==
    /\ g \in [0 .. n -> V]
    /\ \A k \in 0 .. n : g[k] = IF k = 0 THEN base ELSE step[<<k, g[k - 1]>>]

\* Stepping from a base through V always has such a function.
LEMMA Recursion ==
    ASSUME NEW n \in Nat, NEW V, NEW base \in V, NEW step \in [(1 .. n) \X V -> V]
    PROVE  \E g : Unfolds(g, n, V, base, step)
<1> DEFINE St(k, v) == step[<<k, v>>]
           Is(g, m) ==
             /\ g \in [0 .. m -> V]
             /\ \A k \in 0 .. m : g[k] = IF k = 0 THEN base ELSE St(k, g[k - 1])
           S == {m \in Nat : \E g : Is(g, m)}
<1>0. \A k \in 1 .. n, v \in V : St(k, v) \in V
  OBVIOUS
<1>1. 0 \in S
  <2>1. Is([k \in 0 .. 0 |-> base], 0)
    OBVIOUS
  <2> HIDE DEF Is
  <2> QED
    BY <2>1
<1>2. ASSUME NEW m \in 0 .. n, m < n, m \in S PROVE m + 1 \in S
  <2>1. PICK g : Is(g, m)
    BY <1>2
  <2> DEFINE h == [k \in 0 .. m + 1 |-> IF k = m + 1 THEN St(m + 1, g[m]) ELSE g[k]]
  <2> HIDE DEF St
  <2>2. St(m + 1, g[m]) \in V
    <3>1. m + 1 \in 1 .. n /\ g[m] \in V
      BY <1>2, <2>1
    <3> QED
      BY <1>0, <3>1
  <2>3. h \in [0 .. m + 1 -> V]
    BY <2>1, <2>2
  <2>4. \A k \in 0 .. m + 1 : h[k] = IF k = 0 THEN base ELSE St(k, h[k - 1])
    BY <2>1
  <2>5. Is(h, m + 1)
    BY <2>3, <2>4
  <2> HIDE DEF Is, h
  <2> QED
    BY <2>5
<1>3. n \in S
  <2> HIDE DEF S
  <2>1. \A k \in 0 .. n : k \in S
    BY <1>1, <1>2, UpTo
  <2> QED
    BY <2>1
<1> QED
  BY <1>3 DEF Unfolds

-----------------------------------------------------------------------------
(* Sequences. *)

\* What Without has kept after each element.
LEMMA WithoutSteps ==
    ASSUME NEW C, NEW q \in Seq(C), NEW S
    PROVE  \E kept :
             /\ kept[0] = <<>>
             /\ \A k \in 1 .. Len(q) :
                  kept[k] = IF q[k] \in S THEN kept[k - 1] ELSE Append(kept[k - 1], q[k])
             /\ Without(q, S) = kept[Len(q)]
<1> DEFINE n == Len(q)
           Step(k, v) == IF q[k] \in S THEN v ELSE Append(v, q[k])
           Is(f) == f = [k \in 0 .. n |-> IF k = 0 THEN <<>> ELSE Step(k, f[k - 1])]
           step == [x \in (1 .. n) \X Seq(C) |-> Step(x[1], x[2])]
           f == CHOOSE f : Is(f)
<1>1. n \in Nat /\ \A k \in 1 .. n : q[k] \in C
  BY LenProperties, ElementOfSeq
<1>2. Without(q, S) = f[n]
  BY DEF Without
<1>3. \A k \in 1 .. n, v \in Seq(C) : Step(k, v) \in Seq(C)
  BY <1>1, AppendProperties
<1> HIDE DEF n, Step
<1>4. step \in [(1 .. n) \X Seq(C) -> Seq(C)] /\ <<>> \in Seq(C)
  BY <1>3, EmptySeq
<1>5. \A k \in 1 .. n, v \in Seq(C) : step[<<k, v>>] = Step(k, v)
  OBVIOUS
<1> HIDE DEF step
<1>6. PICK g : Unfolds(g, n, Seq(C), <<>>, step)
  BY <1>1, <1>4, Recursion, Zenon
<1>7. Is(g)
  <2>1. \A k \in 0 .. n : k # 0 => k \in 1 .. n /\ g[k - 1] \in Seq(C)
    BY <1>1, <1>6 DEF Unfolds
  <2>2. \A k \in 0 .. n : g[k] = IF k = 0 THEN <<>> ELSE Step(k, g[k - 1])
    BY <1>5, <1>6, <2>1 DEF Unfolds
  <2> QED
    BY <1>6, <2>2 DEF Unfolds
<1>8. Is(f)
  <2> HIDE DEF Is
  <2> QED
    BY <1>7
<1> HIDE DEF f
<1>9. f[0] = <<>> /\ \A k \in 1 .. n : f[k] = Step(k, f[k - 1])
  BY <1>1, <1>8
<1> QED
  BY <1>2, <1>9 DEF Step, n

\* An element more.
LEMMA AppendFacts ==
    ASSUME NEW C, NEW q \in Seq(C), NEW x \in C
    PROVE  /\ Append(q, x) \in Seq(C) /\ Append(q, x) # <<>>
           /\ Range(Append(q, x)) = Range(q) \cup {x}
           /\ IsInjective(q) /\ x \notin Range(q) => IsInjective(Append(q, x))
<1> DEFINE n == Len(q)
           a == Append(q, x)
<1>1. /\ n \in Nat /\ DOMAIN q = 1 .. n /\ a \in Seq(C) /\ a # <<>> /\ DOMAIN a = 1 .. n + 1
      /\ \A i \in 1 .. n : a[i] = q[i]
      /\ a[n + 1] = x
  BY AppendProperties, LenProperties
<1> HIDE DEF n, a
<1>2. \A i \in DOMAIN a : (i \in DOMAIN q /\ a[i] = q[i]) \/ (i = n + 1 /\ a[i] = x)
  BY <1>1
<1>3. \A i \in DOMAIN q : i \in DOMAIN a /\ a[i] = q[i]
  BY <1>1
<1>4. n + 1 \in DOMAIN a
  BY <1>1
<1>5. Range(a) = Range(q) \cup {x}
  BY <1>1, <1>2, <1>3, <1>4 DEF Range
<1>6. IsInjective(q) /\ x \notin Range(q) => IsInjective(a)
  BY <1>1, <1>2, <1>3 DEF Range, IsInjective
<1> QED
  BY <1>1, <1>5, <1>6 DEF a

\* A queue without some clients.
LEMMA WithoutFacts ==
    ASSUME NEW C, NEW q \in Seq(C), NEW S
    PROVE  /\ Without(q, S) \in Seq(C)
           /\ Range(Without(q, S)) = Range(q) \ S
           /\ IsInjective(q) => IsInjective(Without(q, S))
<1> DEFINE n == Len(q)
<1>1. n \in Nat /\ DOMAIN q = 1 .. n /\ \A k \in 1 .. n : q[k] \in C
  BY LenProperties, ElementOfSeq
<1>2. PICK kept :
        /\ kept[0] = <<>>
        /\ \A k \in 1 .. n : kept[k] = IF q[k] \in S THEN kept[k - 1] ELSE Append(kept[k - 1], q[k])
        /\ Without(q, S) = kept[n]
  BY WithoutSteps
<1> HIDE DEF n
<1> DEFINE First(k) == {q[i] : i \in 1 .. k} \ S
           Good == {k \in 0 .. n : /\ kept[k] \in Seq(C) /\ Range(kept[k]) = First(k)
                                   /\ IsInjective(q) => IsInjective(kept[k])}
<1>3. 0 \in Good
  <2>1. kept[0] = <<>> /\ DOMAIN <<>> = {}
    BY <1>2
  <2>2. First(0) = {} /\ Range(<<>>) = {} /\ IsInjective(<<>>)
    BY <2>1 DEF Range, IsInjective
  <2>3. kept[0] \in Seq(C) /\ 0 \in 0 .. n
    BY <1>1, <2>1, EmptySeq
  <2> HIDE DEF First
  <2> QED
    BY <2>1, <2>2, <2>3
<1>4. ASSUME NEW k \in 0 .. n, k < n, k \in Good PROVE k + 1 \in Good
  <2>1. /\ k + 1 \in 1 .. n /\ k + 1 \in 0 .. n /\ (k + 1) - 1 = k /\ q[k + 1] \in C
        /\ k + 1 \in DOMAIN q
    BY <1>1, <1>4
  <2>2. kept[k + 1] = IF q[k + 1] \in S THEN kept[k] ELSE Append(kept[k], q[k + 1])
    BY <1>2, <2>1
  <2>3. First(k + 1) = First(k) \cup ({q[k + 1]} \ S)
    <3>1. \A i \in 1 .. k + 1 : i \in 1 .. k \/ i = k + 1
      BY <1>1
    <3>2. \A i \in 1 .. k : i \in 1 .. k + 1
      BY <1>1
    <3> QED
      BY <2>1, <3>1, <3>2, k + 1 \in 1 .. k + 1
  <2>4. IsInjective(q) => q[k + 1] \notin First(k)
    <3>1. \A i \in 1 .. k : i # k + 1 /\ i \in DOMAIN q
      BY <1>1
    <3> QED
      BY <1>1, <2>1, <3>1 DEF IsInjective
  <2> HIDE DEF First
  <2>5. kept[k] \in Seq(C) /\ Range(kept[k]) = First(k) /\ (IsInjective(q) => IsInjective(kept[k]))
    BY <1>4
  <2>6. CASE q[k + 1] \in S
    BY <2>1, <2>2, <2>3, <2>5, <2>6
  <2>7. CASE q[k + 1] \notin S
    <3>1. kept[k + 1] = Append(kept[k], q[k + 1])
      BY <2>2, <2>7
    <3>2. /\ kept[k + 1] \in Seq(C)
          /\ Range(kept[k + 1]) = First(k) \cup {q[k + 1]}
          /\ IsInjective(q) => IsInjective(kept[k + 1])
      BY <2>1, <2>4, <2>5, <3>1, AppendFacts
    <3> QED
      BY <2>1, <2>3, <2>7, <3>2
  <2> QED
    BY <2>6, <2>7
<1>5. n \in Good
  <2> HIDE DEF Good
  <2>1. \A k \in 0 .. n : k \in Good
    BY <1>1, <1>3, <1>4, UpTo
  <2> QED
    BY <1>1, <2>1
<1>6. First(n) = Range(q) \ S
  BY <1>1 DEF Range
<1> QED
  BY <1>2, <1>5, <1>6

-----------------------------------------------------------------------------
(* States. *)

Events ==
    [type : {"key", "mouse"}, key : Keys \cup {"none", "c", "break"}, down : BOOLEAN,
     rep : Nat \ {0}]
Records == [event : Events, byte : 0 .. 2]
ReadRequests ==
    [kind : {"direct", "raw"}, handle : Handles, unicode : BOOLEAN, amount : Amounts,
     peek : BOOLEAN, wait : BOOLEAN]
Requests == {r \in ReadRequests : ~r.peek} \cup {NoRequest, [kind |-> "write"]}

States ==
    [storage : Seq(Events), text : Seq(Records), events : Seq(Records), mode : Modes,
     hInputEvent : BOOLEAN, line : BOOLEAN, vt : BOOLEAN,
     flags : SUBSET {"suspended", "selecting"},
     inputQueue : Seq(Clients), outputQueue : Seq(Clients),
     processQueue : [Processes -> Seq(Clients)],
     request : [Clients -> Requests], readCount : [Handles -> Int],
     connected : SUBSET Processes, open : SUBSET Handles, owed : [Units -> Int]]

\* The reads that wait through a handle.
Through(s, h) == {c \in Clients : Reads(s, c) /\ s.request[c].handle = h}

\* The wait blocks: every call without a reply has one, in the two queues it
\* belongs to.
Waits(s) ==
    /\ \A p \in Processes :
         /\ IsInjective(s.processQueue[p])
         /\ Range(s.processQueue[p]) = {c \in Clients : ProcessOf(c) = p /\ s.request[c] # NoRequest}
    /\ IsInjective(s.inputQueue) /\ IsInjective(s.outputQueue)
    /\ Range(s.inputQueue) = {c \in Clients : Reads(s, c)}
    /\ Range(s.outputQueue) = {c \in Clients : s.request[c].kind = "write"}
    /\ \A h \in Handles : s.readCount[h] = Cardinality(Through(s, h))

\* Nobody waits through a closed handle, for a dead process, or without a reason.
Attached(s) ==
    \A c \in Clients : Reads(s, c) => s.request[c].handle \in s.open /\ ProcessOf(c) \in s.connected
Blocked(s) == s.outputQueue # <<>> => s.flags # {}

\* The waits are left alone.
SameWaits(s, t) ==
    /\ t.flags = s.flags /\ t.inputQueue = s.inputQueue /\ t.outputQueue = s.outputQueue
    /\ t.processQueue = s.processQueue /\ t.request = s.request /\ t.readCount = s.readCount
    /\ t.connected = s.connected /\ t.open = s.open

\* What is said of the waits depends on the waits only.
LEMMA WaitsFrame ==
    ASSUME NEW s, NEW t, SameWaits(s, t)
    PROVE  /\ Waits(s) => Waits(t)
           /\ Attached(s) => Attached(t)
           /\ Blocked(s) => Blocked(t)
           /\ \A c \in Clients : Reads(t, c) <=> Reads(s, c)
<1>1. \A c \in Clients : Reads(t, c) <=> Reads(s, c)
  BY DEF SameWaits, Reads
<1>2. \A h \in Handles : Through(t, h) = Through(s, h)
  BY <1>1 DEF SameWaits, Through
<1> QED
  BY <1>1, <1>2 DEF SameWaits, Waits, Attached, Blocked

\* The requests that are stored, told apart by their kind; no peek is stored.
LEMMA RequestFacts ==
    /\ NoRequest \in Requests /\ [kind |-> "write"] \in Requests
    /\ \A r \in ReadRequests : ~r.peek => r \in Requests
    /\ \A r \in Requests : /\ r \in ReadRequests <=> r.kind \in {"direct", "raw"}
                           /\ r \in ReadRequests => ~r.peek
                           /\ r = NoRequest <=> r.kind = "none"
                           /\ r.kind \in {"none", "direct", "raw", "write"}
    /\ [kind |-> "write"].kind = "write" /\ NoRequest.kind = "none"
<1>1. NoRequest.kind = "none" /\ [kind |-> "write"].kind = "write"
  BY DEF NoRequest
<1>2. \A r \in ReadRequests : r.kind \in {"direct", "raw"}
  BY DEF ReadRequests
<1> QED
  BY <1>1, <1>2 DEF Requests

-----------------------------------------------------------------------------
(* Wait blocks. *)

\* There are finitely many clients, each of one process.
LEMMA ClientFacts ==
    /\ IsFiniteSet(Clients)
    /\ \A c \in Clients : ProcessOf(c) \in Processes
<1>1. IsFiniteSet(Processes) /\ IsFiniteSet(Threads)
  BY InputAssumption
<1>2. IsFiniteSet(Clients)
  BY <1>1, FS_Product DEF Clients
<1> QED
  BY <1>2 DEF Clients, ProcessOf

\* The input buffer is left alone.
SameBuffer(s, t) ==
    /\ t.storage = s.storage /\ t.text = s.text /\ t.events = s.events /\ t.mode = s.mode
    /\ t.hInputEvent = s.hInputEvent /\ t.line = s.line /\ t.vt = s.vt /\ t.owed = s.owed

\* The fields that Complete changes, one by one.
LEMMA CompleteFields ==
    ASSUME NEW s \in States, NEW cs \in SUBSET Clients, NEW t, t = Complete(s, cs)
    PROVE  /\ t \in States /\ SameBuffer(s, t)
           /\ t.flags = s.flags /\ t.connected = s.connected /\ t.open = s.open
           /\ t.request = [c \in Clients |-> IF c \in cs THEN NoRequest ELSE s.request[c]]
           /\ t.inputQueue = Without(s.inputQueue, cs)
           /\ t.outputQueue = Without(s.outputQueue, cs)
           /\ t.processQueue = [p \in Processes |-> Without(s.processQueue[p], cs)]
           /\ \A h \in Handles : t.readCount[h] = s.readCount[h] - Cardinality(Through(s, h) \cap cs)
<1> DEFINE rq == [c \in Clients |-> IF c \in cs THEN NoRequest ELSE s.request[c]]
           iq == Without(s.inputQueue, cs)
           oq == Without(s.outputQueue, cs)
           pq == [p \in Processes |-> Without(s.processQueue[p], cs)]
           ended(h) == {c \in cs : Reads(s, c) /\ s.request[c].handle = h}
           rc == [h \in Handles |-> s.readCount[h] - Cardinality(ended(h))]
<1>1. /\ s.inputQueue \in Seq(Clients) /\ s.outputQueue \in Seq(Clients)
      /\ s.processQueue \in [Processes -> Seq(Clients)] /\ s.request \in [Clients -> Requests]
      /\ s.readCount \in [Handles -> Int]
  BY DEF States
<1>2. t = [s EXCEPT !.request = rq, !.inputQueue = iq, !.outputQueue = oq,
                    !.processQueue = pq, !.readCount = rc]
  BY DEF Complete
<1>3. \A h \in Handles : ended(h) = Through(s, h) \cap cs
  BY DEF Through
<1>4. \A h \in Handles : Cardinality(ended(h)) \in Nat
  <2> SUFFICES ASSUME NEW h \in Handles PROVE Cardinality(ended(h)) \in Nat
    OBVIOUS
  <2>1. IsFiniteSet(ended(h))
    BY ClientFacts, FS_Subset
  <2> QED
    BY <2>1, FS_CardinalityType
<1> HIDE DEF ended
<1>5. rc \in [Handles -> Int]
  BY <1>1, <1>4
<1>6. rq \in [Clients -> Requests]
  BY <1>1, RequestFacts
<1>7. iq \in Seq(Clients) /\ oq \in Seq(Clients)
  BY <1>1, WithoutFacts
<1>8. pq \in [Processes -> Seq(Clients)]
  BY <1>1, WithoutFacts
<1>9. \A h \in Handles : rc[h] = s.readCount[h] - Cardinality(Through(s, h) \cap cs)
  BY <1>3
<1> HIDE DEF rq, iq, oq, pq, rc
<1>10. t \in States
  BY <1>2, <1>5, <1>6, <1>7, <1>8 DEF States
<1>11. /\ t.request = rq /\ t.inputQueue = iq /\ t.outputQueue = oq
       /\ t.processQueue = pq /\ t.readCount = rc
  BY <1>2 DEF States
<1>12. SameBuffer(s, t) /\ t.flags = s.flags /\ t.connected = s.connected /\ t.open = s.open
  BY <1>2 DEF States, SameBuffer
<1> QED
  BY <1>9, <1>10, <1>11, <1>12 DEF rq, iq, oq, pq

\* Ending some calls leaves the others in their queues, and counts them.
LEMMA CompleteFacts ==
    ASSUME NEW s \in States, Waits(s), NEW cs \in SUBSET Clients, NEW t, t = Complete(s, cs)
    PROVE  /\ t \in States /\ Waits(t) /\ SameBuffer(s, t)
           /\ t.flags = s.flags /\ t.connected = s.connected /\ t.open = s.open
           /\ \A c \in Clients : t.request[c] = IF c \in cs THEN NoRequest ELSE s.request[c]
           /\ \A c \in Clients : Reads(t, c) <=> Reads(s, c) /\ c \notin cs
           /\ Attached(s) => Attached(t)
           /\ Range(t.outputQueue) = Range(s.outputQueue) \ cs
<1>1. /\ t \in States /\ SameBuffer(s, t)
      /\ t.flags = s.flags /\ t.connected = s.connected /\ t.open = s.open
      /\ t.request = [c \in Clients |-> IF c \in cs THEN NoRequest ELSE s.request[c]]
      /\ t.inputQueue = Without(s.inputQueue, cs)
      /\ t.outputQueue = Without(s.outputQueue, cs)
      /\ t.processQueue = [p \in Processes |-> Without(s.processQueue[p], cs)]
      /\ \A h \in Handles : t.readCount[h] = s.readCount[h] - Cardinality(Through(s, h) \cap cs)
  BY CompleteFields
<1>2. /\ s.inputQueue \in Seq(Clients) /\ s.outputQueue \in Seq(Clients)
      /\ s.processQueue \in [Processes -> Seq(Clients)] /\ s.request \in [Clients -> Requests]
      /\ s.readCount \in [Handles -> Int]
  BY DEF States
<1>3. \A c \in Clients : t.request[c] = IF c \in cs THEN NoRequest ELSE s.request[c]
  BY <1>1
<1>4. \A c \in Clients : Reads(t, c) <=> Reads(s, c) /\ c \notin cs
  BY <1>3, RequestFacts DEF Reads
<1>5. ASSUME NEW p \in Processes
      PROVE  /\ IsInjective(t.processQueue[p])
             /\ Range(t.processQueue[p]) = {c \in Clients : ProcessOf(c) = p /\ t.request[c] # NoRequest}
  <2>1. /\ t.processQueue[p] = Without(s.processQueue[p], cs)
        /\ s.processQueue[p] \in Seq(Clients) /\ IsInjective(s.processQueue[p])
        /\ Range(s.processQueue[p]) = {c \in Clients : ProcessOf(c) = p /\ s.request[c] # NoRequest}
    BY <1>1, <1>2 DEF Waits
  <2>2. IsInjective(t.processQueue[p]) /\ Range(t.processQueue[p]) = Range(s.processQueue[p]) \ cs
    BY <2>1, WithoutFacts
  <2> QED
    BY <1>3, <2>1, <2>2
<1>6. /\ IsInjective(t.inputQueue) /\ IsInjective(t.outputQueue)
      /\ Range(t.inputQueue) = Range(s.inputQueue) \ cs
      /\ Range(t.outputQueue) = Range(s.outputQueue) \ cs
  BY <1>1, <1>2, WithoutFacts DEF Waits
<1>7. Range(t.inputQueue) = {c \in Clients : Reads(t, c)}
  BY <1>4, <1>6 DEF Waits
<1>8. Range(t.outputQueue) = {c \in Clients : t.request[c].kind = "write"}
  BY <1>3, <1>6, RequestFacts DEF Waits
<1>9. ASSUME NEW h \in Handles PROVE t.readCount[h] = Cardinality(Through(t, h))
  <2>1. Through(t, h) = Through(s, h) \ cs
    BY <1>3, <1>4 DEF Through
  <2>2. IsFiniteSet(Through(s, h))
    BY ClientFacts, FS_Subset DEF Through
  <2>3. Cardinality(Through(s, h) \ cs) = Cardinality(Through(s, h)) - Cardinality(Through(s, h) \cap cs)
    BY <2>2, FS_Difference
  <2> QED
    BY <1>1, <2>1, <2>3 DEF Waits
<1>10. Waits(t)
  BY <1>5, <1>6, <1>7, <1>8, <1>9 DEF Waits
<1>11. Attached(s) => Attached(t)
  BY <1>1, <1>3, <1>4 DEF Attached
<1> QED
  BY <1>1, <1>3, <1>4, <1>6, <1>10, <1>11

Waiting(s, c, r, t) ==
    /\ t \in States /\ SameBuffer(s, t)
    /\ t.flags = s.flags /\ t.connected = s.connected /\ t.open = s.open
    /\ t.request = [s.request EXCEPT ![c] = r]
    /\ t.inputQueue = IF r.kind = "write" THEN s.inputQueue ELSE Append(s.inputQueue, c)
    /\ t.outputQueue = IF r.kind = "write" THEN Append(s.outputQueue, c) ELSE s.outputQueue
    /\ t.processQueue = [s.processQueue EXCEPT ![ProcessOf(c)] = Append(@, c)]
    /\ t.readCount = IF r.kind = "write" THEN s.readCount
                     ELSE [s.readCount EXCEPT ![r.handle] = @ + 1]

\* The fields that CreateWait changes, one by one.
LEMMA CreateWaitFields ==
    ASSUME NEW s \in States, NEW c \in Clients, NEW r \in Requests, r # NoRequest, NEW t,
           t = CreateWait(s, c, r)
    PROVE  Waiting(s, c, r, t)
<1> DEFINE p == ProcessOf(c)
           rq == [s.request EXCEPT ![c] = r]
           pq == [s.processQueue EXCEPT ![p] = Append(@, c)]
           iq == Append(s.inputQueue, c)
           oq == Append(s.outputQueue, c)
           rc == [s.readCount EXCEPT ![r.handle] = @ + 1]
           u == [s EXCEPT !.request = rq, !.processQueue = pq]
<1>1. /\ s.inputQueue \in Seq(Clients) /\ s.outputQueue \in Seq(Clients)
      /\ s.processQueue \in [Processes -> Seq(Clients)] /\ s.request \in [Clients -> Requests]
      /\ s.readCount \in [Handles -> Int] /\ p \in Processes
  BY ClientFacts DEF States
<1>2. t = IF r.kind = "write"
          THEN [u EXCEPT !.outputQueue = Append(@, c)]
          ELSE [u EXCEPT !.inputQueue = Append(@, c),
                         !.readCount = rc]
  BY DEF CreateWait
<1>3. rq \in [Clients -> Requests]
  BY <1>1
<1>4. r.kind # "write" => rc \in [Handles -> Int]
  <2>1. r.kind # "write" => r \in ReadRequests
    BY RequestFacts
  <2>2. r.kind # "write" => r.handle \in Handles
    BY <2>1 DEF ReadRequests
  <2> QED
    BY <1>1, <2>2
<1>5. iq \in Seq(Clients) /\ oq \in Seq(Clients)
  BY <1>1, AppendProperties
<1>6. pq \in [Processes -> Seq(Clients)]
  <2>1. Append(s.processQueue[p], c) \in Seq(Clients)
    BY <1>1, AppendProperties
  <2> HIDE DEF p
  <2> QED
    BY <1>1, <2>1
<1> HIDE DEF rq, pq, p
<1>7. /\ u \in States /\ u.inputQueue = s.inputQueue /\ u.outputQueue = s.outputQueue
      /\ u.readCount = s.readCount /\ u.request = rq /\ u.processQueue = pq
      /\ u.flags = s.flags /\ u.connected = s.connected /\ u.open = s.open
  BY <1>3, <1>6 DEF States
<1>8. SameBuffer(s, u)
  BY DEF States, SameBuffer
<1> HIDE DEF u
<1>9. CASE r.kind = "write"
  <2>1. t = [u EXCEPT !.outputQueue = oq]
    BY <1>2, <1>7, <1>9
  <2> HIDE DEF oq
  <2>2. t \in States /\ t.outputQueue = oq /\ t.inputQueue = u.inputQueue
        /\ t.readCount = u.readCount /\ t.request = u.request /\ t.processQueue = u.processQueue
        /\ t.flags = u.flags /\ t.connected = u.connected /\ t.open = u.open
    BY <1>5, <1>7, <2>1 DEF States
  <2>3. SameBuffer(u, t)
    BY <1>7, <2>1 DEF States, SameBuffer
  <2> QED
    BY <1>7, <1>8, <1>9, <2>2, <2>3
       DEF Waiting, SameBuffer, rq, oq, pq, p
<1>10. CASE r.kind # "write"
  <2>1. t = [u EXCEPT !.inputQueue = iq, !.readCount = rc]
    BY <1>2, <1>7, <1>10
  <2> HIDE DEF iq, rc
  <2>2. t \in States /\ t.outputQueue = u.outputQueue /\ t.inputQueue = iq
        /\ t.readCount = rc /\ t.request = u.request /\ t.processQueue = u.processQueue
        /\ t.flags = u.flags /\ t.connected = u.connected /\ t.open = u.open
    BY <1>4, <1>5, <1>7, <1>10, <2>1 DEF States
  <2>3. SameBuffer(u, t)
    BY <1>7, <2>1 DEF States, SameBuffer
  <2> QED
    BY <1>7, <1>8, <1>10, <2>2, <2>3
       DEF Waiting, SameBuffer, rq, iq, pq, rc, p
<1> QED
  BY <1>9, <1>10

\* A call that waits is added to its two queues, and counted.
LEMMA CreateWaitFacts ==
    ASSUME NEW s \in States, Waits(s), NEW c \in Clients, s.request[c] = NoRequest,
           NEW r \in Requests, r # NoRequest, NEW t, t = CreateWait(s, c, r)
    PROVE  /\ t \in States /\ Waits(t) /\ SameBuffer(s, t)
           /\ t.flags = s.flags /\ t.connected = s.connected /\ t.open = s.open
           /\ r.kind # "write" => t.outputQueue = s.outputQueue
           /\ Attached(s) /\ (r.kind # "write" => r.handle \in s.open /\ ProcessOf(c) \in s.connected)
                => Attached(t)
<1>1. /\ t \in States /\ SameBuffer(s, t)
      /\ t.flags = s.flags /\ t.connected = s.connected /\ t.open = s.open
      /\ t.request = [s.request EXCEPT ![c] = r]
      /\ t.inputQueue = IF r.kind = "write" THEN s.inputQueue ELSE Append(s.inputQueue, c)
      /\ t.outputQueue = IF r.kind = "write" THEN Append(s.outputQueue, c) ELSE s.outputQueue
      /\ t.processQueue = [s.processQueue EXCEPT ![ProcessOf(c)] = Append(@, c)]
      /\ t.readCount = IF r.kind = "write" THEN s.readCount
                       ELSE [s.readCount EXCEPT ![r.handle] = @ + 1]
  <2>1. Waiting(s, c, r, t)
    BY CreateWaitFields
  <2> QED
    BY <2>1 DEF Waiting
<1>2. /\ s.inputQueue \in Seq(Clients) /\ s.outputQueue \in Seq(Clients)
      /\ s.processQueue \in [Processes -> Seq(Clients)] /\ s.request \in [Clients -> Requests]
      /\ s.readCount \in [Handles -> Int]
  BY DEF States
<1>3. \A d \in Clients : t.request[d] = IF d = c THEN r ELSE s.request[d]
  BY <1>1, <1>2
<1>4. /\ r.kind \in {"direct", "raw", "write"} /\ ~Reads(s, c) /\ s.request[c].kind = "none"
      /\ r.kind # "write" => r \in ReadRequests
  BY RequestFacts DEF Reads
<1>5. \A d \in Clients : Reads(t, d) <=> Reads(s, d) \/ (d = c /\ r.kind # "write")
  BY <1>3, <1>4 DEF Reads
<1>6. ASSUME NEW p \in Processes
      PROVE  /\ IsInjective(t.processQueue[p])
             /\ Range(t.processQueue[p]) = {d \in Clients : ProcessOf(d) = p /\ t.request[d] # NoRequest}
  <2>1. /\ s.processQueue[p] \in Seq(Clients) /\ IsInjective(s.processQueue[p])
        /\ Range(s.processQueue[p]) = {d \in Clients : ProcessOf(d) = p /\ s.request[d] # NoRequest}
        /\ c \notin Range(s.processQueue[p])
    BY <1>2 DEF Waits
  <2>2. CASE p = ProcessOf(c)
    <3>1. t.processQueue[p] = Append(s.processQueue[p], c)
      BY <1>1, <1>2, <2>2
    <3>2. /\ IsInjective(t.processQueue[p])
          /\ Range(t.processQueue[p]) = Range(s.processQueue[p]) \cup {c}
      BY <2>1, <3>1, AppendFacts
    <3> QED
      BY <1>3, <2>1, <2>2, <3>2
  <2>3. CASE p # ProcessOf(c)
    <3>1. t.processQueue[p] = s.processQueue[p]
      BY <1>1, <1>2, <2>3
    <3> QED
      BY <1>3, <2>1, <2>3, <3>1
  <2> QED
    BY <2>2, <2>3
<1>7. IsInjective(t.inputQueue) /\ Range(t.inputQueue) = {d \in Clients : Reads(t, d)}
  <2>1. /\ IsInjective(s.inputQueue) /\ Range(s.inputQueue) = {d \in Clients : Reads(s, d)}
        /\ c \notin Range(s.inputQueue)
    BY <1>4 DEF Waits
  <2>2. CASE r.kind = "write"
    BY <1>1, <1>5, <2>1, <2>2
  <2>3. CASE r.kind # "write"
    <3>1. t.inputQueue = Append(s.inputQueue, c)
      BY <1>1, <2>3
    <3>2. IsInjective(t.inputQueue) /\ Range(t.inputQueue) = Range(s.inputQueue) \cup {c}
      BY <1>2, <2>1, <3>1, AppendFacts
    <3> QED
      BY <1>5, <2>1, <2>3, <3>2
  <2> QED
    BY <2>2, <2>3
<1>8. /\ IsInjective(t.outputQueue)
      /\ Range(t.outputQueue) = {d \in Clients : t.request[d].kind = "write"}
  <2>1. /\ IsInjective(s.outputQueue)
        /\ Range(s.outputQueue) = {d \in Clients : s.request[d].kind = "write"}
        /\ c \notin Range(s.outputQueue)
    BY <1>4 DEF Waits
  <2>2. CASE r.kind = "write"
    <3>1. t.outputQueue = Append(s.outputQueue, c)
      BY <1>1, <2>2
    <3>2. IsInjective(t.outputQueue) /\ Range(t.outputQueue) = Range(s.outputQueue) \cup {c}
      BY <1>2, <2>1, <3>1, AppendFacts
    <3> QED
      BY <1>3, <2>1, <2>2, <3>2
  <2>3. CASE r.kind # "write"
    BY <1>1, <1>3, <1>4, <2>1, <2>3
  <2> QED
    BY <2>2, <2>3
<1>9. ASSUME NEW h \in Handles PROVE t.readCount[h] = Cardinality(Through(t, h))
  <2>1. IsFiniteSet(Through(s, h)) /\ c \notin Through(s, h)
    BY <1>4, ClientFacts, FS_Subset DEF Through
  <2>2. s.readCount[h] = Cardinality(Through(s, h))
    BY DEF Waits
  <2>3. CASE r.kind # "write" /\ r.handle = h
    <3>1. Through(t, h) = Through(s, h) \cup {c}
      BY <1>3, <1>5, <2>3 DEF Through
    <3>2. Cardinality(Through(s, h) \cup {c}) = Cardinality(Through(s, h)) + 1
      BY <2>1, FS_AddElement
    <3>3. t.readCount[h] = s.readCount[h] + 1
      BY <1>1, <1>2, <2>3
    <3> QED
      BY <2>2, <3>1, <3>2, <3>3
  <2>4. CASE ~(r.kind # "write" /\ r.handle = h)
    <3>1. Through(t, h) = Through(s, h)
      BY <1>3, <1>4, <1>5, <2>4 DEF Through
    <3>2. t.readCount[h] = s.readCount[h]
      BY <1>1, <1>2, <2>4
    <3> QED
      BY <2>2, <3>1, <3>2
  <2> QED
    BY <2>3, <2>4
<1>10. Waits(t)
  BY <1>6, <1>7, <1>8, <1>9 DEF Waits
<1>11. Attached(s) /\ (r.kind # "write" => r.handle \in s.open /\ ProcessOf(c) \in s.connected)
         => Attached(t)
  <2> SUFFICES ASSUME Attached(s), r.kind # "write" => r.handle \in s.open /\ ProcessOf(c) \in s.connected,
                      NEW d \in Clients, Reads(t, d)
               PROVE  t.request[d].handle \in t.open /\ ProcessOf(d) \in t.connected
    BY DEF Attached
  <2>1. CASE d = c
    BY <1>1, <1>3, <1>4, <1>5, <2>1
  <2>2. CASE d # c
    BY <1>1, <1>3, <1>5, <2>2 DEF Attached
  <2> QED
    BY <2>1, <2>2
<1> QED
  BY <1>1, <1>10, <1>11

-----------------------------------------------------------------------------
(* Counting. *)

\* Induction over the length of a sequence.
LEMMA SeqSetInduction ==
    ASSUME NEW C, NEW T, <<>> \in T, \A q \in Seq(C), x \in C : q \in T => Append(q, x) \in T
    PROVE  Seq(C) \subseteq T
<1> DEFINE S == {n \in Nat : \A q \in Seq(C) : Len(q) = n => q \in T}
<1>1. 0 \in S
  <2> SUFFICES ASSUME NEW q \in Seq(C), Len(q) = 0 PROVE q \in T
    OBVIOUS
  <2>1. q = <<>>
    BY EmptySeq
  <2> QED
    BY <2>1
<1>2. ASSUME NEW n \in Nat, n \in S PROVE n + 1 \in S
  <2> SUFFICES ASSUME NEW q \in Seq(C), Len(q) = n + 1 PROVE q \in T
    OBVIOUS
  <2>1. q # <<>>
    BY EmptySeq
  <2>2. PICK p \in Seq(C), x \in C : q = Append(p, x)
    BY <2>1, SequenceEmptyOrAppend
  <2>3. Len(p) = n
    <3>1. Len(q) = Len(p) + 1 /\ Len(p) \in Nat
      BY <2>2, AppendProperties, LenProperties
    <3> QED
      BY <3>1
  <2>4. p \in T
    BY <1>2, <2>3
  <2> QED
    BY <2>2, <2>4
<1> HIDE DEF S
<1>3. Nat \subseteq S
  BY <1>1, <1>2, NatSetInduction
<1> QED
  BY <1>3, LenProperties DEF S

\* A key has one byte or two.
LEMMA UnitFacts ==
    /\ \A u \in Units : u[1] \in Keys /\ u[2] \in 1 .. 2 /\ u[2] <= Size(u[1])
    /\ \A k : Size(k) \in {1, 2}
  BY DEF Units, Size

\* A record holds a natural number of copies of a byte.
LEMMA CopiesType ==
    ASSUME NEW p \in Records, NEW u \in Units
    PROVE  Copies(p, u) \in Nat
  BY DEF Records, Events, Copies

\* The sums of Count.
LEMMA CountSteps ==
    ASSUME NEW ps \in Seq(Records), NEW u \in Units
    PROVE  \E sum :
             /\ sum \in [0 .. Len(ps) -> Nat]
             /\ sum[0] = 0
             /\ \A k \in 1 .. Len(ps) : sum[k] = sum[k - 1] + Copies(ps[k], u)
             /\ Count(ps)[u] = sum[Len(ps)]
<1> DEFINE n == Len(ps)
           C(k) == Copies(ps[k], u)
           Is(f) == f = [k \in 0 .. n |-> IF k = 0 THEN 0 ELSE f[k - 1] + C(k)]
           step == [x \in (1 .. n) \X Nat |-> x[2] + C(x[1])]
           f == CHOOSE f : Is(f)
<1>1. n \in Nat /\ \A k \in 1 .. n : ps[k] \in Records
  BY LenProperties, ElementOfSeq
<1>2. Count(ps)[u] = f[n]
  BY DEF Count
<1>3. \A k \in 1 .. n : C(k) \in Nat
  BY <1>1, CopiesType
<1> HIDE DEF n, C
<1>4. step \in [(1 .. n) \X Nat -> Nat]
  BY <1>3
<1>5. \A k \in 1 .. n, v \in Nat : step[<<k, v>>] = v + C(k)
  OBVIOUS
<1> HIDE DEF step
<1>6. PICK g : Unfolds(g, n, Nat, 0, step)
  BY <1>1, <1>4, Recursion, Zenon
<1>7. Is(g)
  <2>1. \A k \in 0 .. n : k # 0 => k \in 1 .. n /\ g[k - 1] \in Nat
    BY <1>1, <1>6 DEF Unfolds
  <2>2. \A k \in 0 .. n : g[k] = IF k = 0 THEN 0 ELSE g[k - 1] + C(k)
    BY <1>5, <1>6, <2>1 DEF Unfolds
  <2> QED
    BY <1>6, <2>2 DEF Unfolds
<1>8. Is(f)
  <2> HIDE DEF Is
  <2> QED
    BY <1>7
<1> HIDE DEF f
<1>9. f[0] = 0 /\ \A k \in 1 .. n : f[k] = f[k - 1] + C(k)
  BY <1>1, <1>8
<1>10. f \in [0 .. n -> Nat]
  <2> DEFINE Good == {k \in 0 .. n : f[k] \in Nat}
  <2>1. 0 \in Good
    BY <1>1, <1>9
  <2>2. ASSUME NEW k \in 0 .. n, k < n, k \in Good PROVE k + 1 \in Good
    <3>1. k + 1 \in 1 .. n /\ (k + 1) - 1 = k /\ k + 1 \in 0 .. n
      BY <1>1, <2>2
    <3>2. f[k + 1] = f[k] + C(k + 1)
      BY <1>9, <3>1
    <3> QED
      BY <1>3, <2>2, <3>1, <3>2
  <2> HIDE DEF Good
  <2>3. \A k \in 0 .. n : k \in Good
    BY <1>1, <2>1, <2>2, UpTo
  <2>4. \A k \in 0 .. n : f[k] \in Nat
    BY <2>3 DEF Good
  <2> QED
    BY <1>8, <2>4
<1> QED
  BY <1>2, <1>9, <1>10 DEF C, n

\* No records hold nothing.
LEMMA CountEmpty ==
    ASSUME NEW u \in Units
    PROVE  Count(<<>>)[u] = 0
<1>1. <<>> \in Seq(Records) /\ Len(<<>>) = 0
  BY EmptySeq
<1> QED
  BY <1>1, CountSteps

\* A record adds its copies.
LEMMA CountAppend ==
    ASSUME NEW ps \in Seq(Records), NEW p \in Records, NEW u \in Units
    PROVE  Count(Append(ps, p))[u] = Count(ps)[u] + Copies(p, u)
<1> DEFINE n == Len(ps)
           qs == Append(ps, p)
<1>1. /\ n \in Nat /\ qs \in Seq(Records) /\ Len(qs) = n + 1
      /\ \A i \in 1 .. n : qs[i] = ps[i]
      /\ qs[n + 1] = p
  BY LenProperties, AppendProperties
<1>2. PICK f : /\ f \in [0 .. n -> Nat] /\ f[0] = 0
               /\ \A k \in 1 .. n : f[k] = f[k - 1] + Copies(ps[k], u)
               /\ Count(ps)[u] = f[n]
  BY CountSteps
<1> HIDE DEF qs
<1>3. PICK g : /\ g \in [0 .. Len(qs) -> Nat] /\ g[0] = 0
               /\ \A k \in 1 .. Len(qs) : g[k] = g[k - 1] + Copies(qs[k], u)
               /\ Count(qs)[u] = g[Len(qs)]
  BY <1>1, CountSteps
<1> HIDE DEF n
<1> DEFINE Good == {k \in 0 .. n : g[k] = f[k]}
<1>4. 0 \in Good
  BY <1>1, <1>2, <1>3
<1>5. ASSUME NEW k \in 0 .. n, k < n, k \in Good PROVE k + 1 \in Good
  <2>1. k + 1 \in 1 .. n /\ (k + 1) - 1 = k /\ k + 1 \in 0 .. n /\ k + 1 \in 1 .. n + 1
    BY <1>1, <1>5
  <2>2. f[k + 1] = f[k] + Copies(ps[k + 1], u)
    BY <1>2, <2>1
  <2>3. g[k + 1] = g[k] + Copies(qs[k + 1], u)
    BY <1>1, <1>3, <2>1
  <2> QED
    BY <1>1, <1>5, <2>1, <2>2, <2>3
<1>6. n \in Good
  <2> HIDE DEF Good
  <2>1. \A k \in 0 .. n : k \in Good
    BY <1>1, <1>4, <1>5, UpTo
  <2> QED
    BY <1>1, <2>1
<1>7. n + 1 \in 1 .. n + 1 /\ (n + 1) - 1 = n
  BY <1>1
<1>8. g[n + 1] = g[n] + Copies(p, u)
  BY <1>1, <1>3, <1>7
<1> QED
  BY <1>1, <1>2, <1>3, <1>6, <1>8 DEF qs

\* What Count gives is a number of copies for each byte of each key.
LEMMA CountType ==
    ASSUME NEW ps \in Seq(Records)
    PROVE  Count(ps) \in [Units -> Nat]
<1>1. \A u \in Units : Count(ps)[u] \in Nat
  <2> SUFFICES ASSUME NEW u \in Units PROVE Count(ps)[u] \in Nat
    OBVIOUS
  <2>1. PICK f : f \in [0 .. Len(ps) -> Nat] /\ Count(ps)[u] = f[Len(ps)]
    BY CountSteps
  <2> QED
    BY <2>1, LenProperties
<1>2. Count(ps) = [u \in Units |-> Count(ps)[u]]
  BY DEF Count
<1> QED
  BY <1>1, <1>2

\* One record holds its copies.
LEMMA CountOne ==
    ASSUME NEW p \in Records, NEW u \in Units
    PROVE  Count(<<p>>)[u] = Copies(p, u)
<1>1. <<>> \in Seq(Records) /\ Append(<<>>, p) = <<p>>
  BY EmptySeq
<1>2. Count(Append(<<>>, p))[u] = Count(<<>>)[u] + Copies(p, u)
  BY <1>1, CountAppend
<1> QED
  BY <1>1, <1>2, CountEmpty, CopiesType

\* Sequences count the sum of their parts.
LEMMA CountConcat ==
    ASSUME NEW ps \in Seq(Records), NEW qs \in Seq(Records), NEW u \in Units
    PROVE  Count(ps \o qs)[u] = Count(ps)[u] + Count(qs)[u]
<1> DEFINE T == {q \in Seq(Records) : Count(ps \o q)[u] = Count(ps)[u] + Count(q)[u]}
<1>1. <<>> \in T
  <2>1. <<>> \in Seq(Records) /\ ps \o <<>> = ps
    BY EmptySeq, ConcatEmptySeq
  <2>2. Count(ps)[u] \in Nat
    BY CountType
  <2> QED
    BY <2>1, <2>2, CountEmpty
<1>2. ASSUME NEW q \in Seq(Records), NEW x \in Records, q \in T PROVE Append(q, x) \in T
  <2>1. ps \o q \in Seq(Records) /\ Append(q, x) \in Seq(Records) /\ <<x>> \in Seq(Records)
    BY ConcatProperties, AppendProperties
  <2>2. ps \o Append(q, x) = Append(ps \o q, x)
    BY <2>1, AppendIsConcat, ConcatAssociative
  <2>3. /\ Count(Append(ps \o q, x))[u] = Count(ps \o q)[u] + Copies(x, u)
        /\ Count(Append(q, x))[u] = Count(q)[u] + Copies(x, u)
    BY <2>1, CountAppend
  <2>4. Count(ps)[u] \in Nat /\ Count(q)[u] \in Nat /\ Copies(x, u) \in Nat
    BY CountType, CopiesType
  <2>5. Count(ps \o q)[u] = Count(ps)[u] + Count(q)[u]
    BY <1>2
  <2>6. Count(ps \o Append(q, x))[u] = Count(ps)[u] + Count(Append(q, x))[u]
    <3> DEFINE a == Count(ps \o q)[u]
               b == Count(Append(ps \o q, x))[u]
               c == Count(Append(q, x))[u]
               d == Count(q)[u]
    <3>1. b = a + Copies(x, u) /\ c = d + Copies(x, u) /\ a = Count(ps)[u] + d /\ d \in Nat
      BY <2>3, <2>4, <2>5, Zenon
    <3> HIDE DEF a, b, c, d
    <3>2. b = Count(ps)[u] + c
      BY <2>4, <3>1
    <3> QED
      BY <2>2, <3>2, Zenon DEF b, c
  <2> QED
    BY <2>1, <2>6, Zenon
<1> HIDE DEF T
<1>3. Seq(Records) \subseteq T
  BY <1>1, <1>2, SeqSetInduction
<1> QED
  BY <1>3 DEF T

\* A sequence cut in two.
LEMMA CountSplit ==
    ASSUME NEW ps \in Seq(Records), NEW n \in 0 .. Len(ps), NEW u \in Units
    PROVE  /\ SubSeq(ps, 1, n) \in Seq(Records) /\ SubSeq(ps, n + 1, Len(ps)) \in Seq(Records)
           /\ Count(ps)[u] = Count(SubSeq(ps, 1, n))[u] + Count(SubSeq(ps, n + 1, Len(ps)))[u]
<1>1. Len(ps) \in Nat /\ \A i \in 1 .. Len(ps) : ps[i] \in Records
  BY LenProperties, ElementOfSeq
<1>2. SubSeq(ps, 1, n) \in Seq(Records)
  <2>1. \A i \in 1 .. n : ps[i] \in Records
    BY <1>1
  <2> QED
    BY <1>1, <2>1, SubSeqProperties
<1>3. SubSeq(ps, n + 1, Len(ps)) \in Seq(Records)
  <2>1. \A i \in n + 1 .. Len(ps) : ps[i] \in Records
    BY <1>1
  <2> QED
    BY <1>1, <2>1, SubSeqProperties
<1>4. SubSeq(ps, 1, n) \o SubSeq(ps, n + 1, Len(ps)) = SubSeq(ps, 1, Len(ps))
  <2>1. 1 \in 1 .. Len(ps) + 1 /\ n \in 1 - 1 .. Len(ps) /\ Len(ps) \in n .. Len(ps)
    BY <1>1
  <2> QED
    BY <2>1, ConcatAdjacentSubSeq
<1>5. SubSeq(ps, 1, Len(ps)) = ps
  BY SubSeqFull
<1> DEFINE a == SubSeq(ps, 1, n)
           b == SubSeq(ps, n + 1, Len(ps))
<1> HIDE DEF a, b
<1>6. a \in Seq(Records) /\ b \in Seq(Records) /\ a \o b = ps
  BY <1>2, <1>3, <1>4, <1>5, Zenon DEF a, b
<1>7. Count(a \o b)[u] = Count(a)[u] + Count(b)[u]
  BY <1>6, CountConcat
<1> QED
  BY <1>6, <1>7, Zenon DEF a, b

\* The presses of a key that one event stands for, and those in the storage.
Pressed(e, u) == IF IsDown(e) /\ e.key = u[1] THEN e.rep ELSE 0
Stored(q, u) == Count(Whole(q))[u]

\* Whole makes one record of each event.
LEMMA WholeFacts ==
    ASSUME NEW q \in Seq(Events)
    PROVE  /\ Whole(q) \in Seq(Records) /\ Len(Whole(q)) = Len(q)
           /\ \A i \in 1 .. Len(q) : Whole(q)[i] = [event |-> q[i], byte |-> 0]
<1>1. Len(q) \in Nat /\ DOMAIN q = 1 .. Len(q) /\ \A i \in 1 .. Len(q) : q[i] \in Events
  BY LenProperties, ElementOfSeq
<1>2. \A i \in 1 .. Len(q) : [event |-> q[i], byte |-> 0] \in Records
  BY <1>1 DEF Records
<1>3. Whole(q) = [i \in 1 .. Len(q) |-> [event |-> q[i], byte |-> 0]]
  BY <1>1 DEF Whole
<1>4. Whole(q) \in [1 .. Len(q) -> Records]
  BY <1>2, <1>3
<1>5. Whole(q) \in Seq(Records)
  BY <1>1, <1>4, SeqDef
<1>6. Len(Whole(q)) = Len(q)
  <2>1. DOMAIN Whole(q) = 1 .. Len(q) /\ DOMAIN Whole(q) = 1 .. Len(Whole(q)) /\ Len(Whole(q)) \in Nat
    BY <1>3, <1>5, LenProperties
  <2> QED
    BY <1>1, <2>1
<1> QED
  BY <1>3, <1>5, <1>6

\* An empty storage holds nothing.
LEMMA StoredEmpty ==
    ASSUME NEW u \in Units
    PROVE  Stored(<<>>, u) = 0
<1>1. Whole(<<>>) = <<>>
  BY DEF Whole
<1> QED
  BY <1>1, CountEmpty DEF Stored

\* The presses in the storage are a natural number.
LEMMA StoredType ==
    ASSUME NEW q \in Seq(Events), NEW u \in Units
    PROVE  Stored(q, u) \in Nat
  BY WholeFacts, CountType DEF Stored

\* The presses of one event are the copies of its whole record.
LEMMA PressedFacts ==
    ASSUME NEW e \in Events, NEW u \in Units
    PROVE  /\ Pressed(e, u) \in Nat
           /\ [event |-> e, byte |-> 0] \in Records
           /\ Copies([event |-> e, byte |-> 0], u) = Pressed(e, u)
  BY DEF Events, Records, Copies, Pressed

\* Two parts of the storage add up.
LEMMA StoredConcat ==
    ASSUME NEW p \in Seq(Events), NEW q \in Seq(Events), NEW u \in Units
    PROVE  Stored(p \o q, u) = Stored(p, u) + Stored(q, u)
<1> DEFINE a == Whole(p)
           b == Whole(q)
           c == Whole(p \o q)
<1>1. /\ p \o q \in Seq(Events) /\ Len(p \o q) = Len(p) + Len(q) /\ Len(p) \in Nat /\ Len(q) \in Nat
      /\ \A i \in 1 .. Len(p) + Len(q) : (p \o q)[i] = IF i <= Len(p) THEN p[i] ELSE q[i - Len(p)]
  BY ConcatProperties, LenProperties
<1>2. /\ a \in Seq(Records) /\ Len(a) = Len(p)
      /\ \A i \in 1 .. Len(p) : a[i] = [event |-> p[i], byte |-> 0]
  BY WholeFacts
<1>3. /\ b \in Seq(Records) /\ Len(b) = Len(q)
      /\ \A i \in 1 .. Len(q) : b[i] = [event |-> q[i], byte |-> 0]
  BY WholeFacts
<1>4. /\ c \in Seq(Records) /\ Len(c) = Len(p) + Len(q)
      /\ \A i \in 1 .. Len(p) + Len(q) : c[i] = [event |-> (p \o q)[i], byte |-> 0]
  BY <1>1, WholeFacts
<1> HIDE DEF a, b, c
<1>5. /\ a \o b \in Seq(Records) /\ Len(a \o b) = Len(p) + Len(q)
      /\ \A i \in 1 .. Len(p) + Len(q) : (a \o b)[i] = IF i <= Len(p) THEN a[i] ELSE b[i - Len(p)]
  <2>1. a \in Seq(Records) /\ b \in Seq(Records)
    BY <1>2, <1>3
  <2>2. /\ a \o b \in Seq(Records) /\ Len(a \o b) = Len(a) + Len(b)
        /\ \A i \in 1 .. Len(a) + Len(b) : (a \o b)[i] = IF i <= Len(a) THEN a[i] ELSE b[i - Len(a)]
    BY <2>1, ConcatProperties
  <2>3. Len(a) = Len(p) /\ Len(b) = Len(q)
    BY <1>2, <1>3
  <2> QED
    BY <2>2, <2>3
<1>6. ASSUME NEW i \in 1 .. Len(c) PROVE c[i] = (a \o b)[i]
  <2>1. i \in 1 .. Len(p) + Len(q)
    BY <1>4
  <2>2. CASE i <= Len(p)
    <3>1. i \in 1 .. Len(p) /\ (p \o q)[i] = p[i] /\ (a \o b)[i] = a[i]
      BY <1>1, <1>5, <2>1, <2>2
    <3> QED
      BY <1>2, <1>4, <2>1, <3>1
  <2>3. CASE ~(i <= Len(p))
    <3>1. i - Len(p) \in 1 .. Len(q) /\ (p \o q)[i] = q[i - Len(p)] /\ (a \o b)[i] = b[i - Len(p)]
      BY <1>1, <1>5, <2>1, <2>3
    <3> QED
      BY <1>3, <1>4, <2>1, <3>1
  <2> QED
    BY <2>2, <2>3
<1>7. c = a \o b
  BY <1>4, <1>5, <1>6, SeqEqual
<1> QED
  BY <1>2, <1>3, <1>7, CountConcat DEF Stored, a, b, c

\* One event stores its presses.
LEMMA StoredOne ==
    ASSUME NEW e \in Events, NEW u \in Units
    PROVE  Stored(<<e>>, u) = Pressed(e, u)
<1>1. Whole(<<e>>) = <<[event |-> e, byte |-> 0]>>
  BY DEF Whole
<1> QED
  BY <1>1, PressedFacts, CountOne DEF Stored

\* An event appended adds its presses.
LEMMA StoredAppend ==
    ASSUME NEW q \in Seq(Events), NEW e \in Events, NEW u \in Units
    PROVE  Stored(Append(q, e), u) = Stored(q, u) + Pressed(e, u)
<1>1. Append(q, e) = q \o <<e>> /\ <<e>> \in Seq(Events)
  BY AppendIsConcat
<1> QED
  BY <1>1, StoredConcat, StoredOne

\* The storage cut in two.
LEMMA StoredSplit ==
    ASSUME NEW q \in Seq(Events), NEW n \in 0 .. Len(q), NEW u \in Units
    PROVE  /\ SubSeq(q, 1, n) \in Seq(Events) /\ SubSeq(q, n + 1, Len(q)) \in Seq(Events)
           /\ Stored(q, u) = Stored(SubSeq(q, 1, n), u) + Stored(SubSeq(q, n + 1, Len(q)), u)
<1>1. Len(q) \in Nat /\ \A i \in 1 .. Len(q) : q[i] \in Events
  BY LenProperties, ElementOfSeq
<1>2. SubSeq(q, 1, n) \in Seq(Events)
  <2>1. \A i \in 1 .. n : q[i] \in Events
    BY <1>1
  <2> QED
    BY <1>1, <2>1, SubSeqProperties
<1>3. SubSeq(q, n + 1, Len(q)) \in Seq(Events)
  <2>1. \A i \in n + 1 .. Len(q) : q[i] \in Events
    BY <1>1
  <2> QED
    BY <1>1, <2>1, SubSeqProperties
<1>4. SubSeq(q, 1, n) \o SubSeq(q, n + 1, Len(q)) = SubSeq(q, 1, Len(q))
  <2>1. 1 \in 1 .. Len(q) + 1 /\ n \in 1 - 1 .. Len(q) /\ Len(q) \in n .. Len(q)
    BY <1>1
  <2> QED
    BY <2>1, ConcatAdjacentSubSeq
<1>5. SubSeq(q, 1, Len(q)) = q
  BY SubSeqFull
<1> DEFINE a == SubSeq(q, 1, n)
           b == SubSeq(q, n + 1, Len(q))
<1> HIDE DEF a, b
<1>6. a \in Seq(Events) /\ b \in Seq(Events) /\ a \o b = q
  BY <1>2, <1>3, <1>4, <1>5, Zenon DEF a, b
<1>7. Stored(a \o b, u) = Stored(a, u) + Stored(b, u)
  BY <1>6, StoredConcat
<1> QED
  BY <1>6, <1>7, Zenon DEF a, b

\* One event more of the storage.
LEMMA StoredNext ==
    ASSUME NEW q \in Seq(Events), NEW n \in 0 .. Len(q), n < Len(q), NEW u \in Units
    PROVE  Stored(SubSeq(q, 1, n + 1), u) = Stored(SubSeq(q, 1, n), u) + Pressed(q[n + 1], u)
<1>1. Len(q) \in Nat /\ n + 1 \in 1 .. Len(q) /\ (n + 1) - 1 = n /\ q[n + 1] \in Events
  BY LenProperties, ElementOfSeq
<1>2. 1 \in 1 .. Len(q) /\ n + 1 \in 1 .. Len(q)
  BY <1>1
<1>3. SubSeq(q, 1, n + 1) = SubSeq(q, 1, (n + 1) - 1) \o <<q[n + 1]>>
  BY <1>2, SubSeqRecursiveSecond
<1>4. SubSeq(q, 1, n) \in Seq(Events) /\ <<q[n + 1]>> \in Seq(Events)
  BY <1>1, StoredSplit
<1> DEFINE a == SubSeq(q, 1, n)
<1> HIDE DEF a
<1>5. SubSeq(q, 1, n + 1) = a \o <<q[n + 1]>>
  BY <1>1, <1>3 DEF a
<1>6. Stored(a \o <<q[n + 1]>>, u) = Stored(a, u) + Stored(<<q[n + 1]>>, u)
  BY <1>4, StoredConcat DEF a
<1>7. Stored(<<q[n + 1]>>, u) = Pressed(q[n + 1], u)
  BY <1>1, StoredOne
<1> QED
  BY <1>5, <1>6, <1>7, Zenon DEF a

\* The bytes of a key make up the key.
LEMMA PiecesFacts ==
    ASSUME NEW e \in Events, NEW unicode \in BOOLEAN
    PROVE  /\ Pieces(e, unicode) \in Seq(Records)
           /\ unicode => Len(Pieces(e, unicode)) = 1
           /\ \A u \in Units : Count(Pieces(e, unicode))[u] = Pressed(e, u)
<1> DEFINE rec(j) == [event |-> e, byte |-> j]
<1>1. \A j \in 0 .. 2 : rec(j) \in Records
  BY DEF Records
<1>2. CASE unicode \/ e.type # "key"
  <2>1. Pieces(e, unicode) = <<rec(0)>> /\ rec(0) \in Records
    BY <1>1, <1>2 DEF Pieces
  <2>2. \A u \in Units : Count(<<rec(0)>>)[u] = Pressed(e, u)
    BY CountOne, PressedFacts
  <2> HIDE DEF rec
  <2> QED
    BY <2>1, <2>2
<1>3. CASE ~(unicode \/ e.type # "key")
  <2>1. Pieces(e, unicode) = [j \in 1 .. Size(e.key) |-> rec(j)]
    BY <1>3 DEF Pieces
  <2>2. /\ rec(1) \in Records /\ rec(2) \in Records
        /\ \A u \in Units : /\ Copies(rec(1), u) \in Nat /\ Copies(rec(2), u) \in Nat
                            /\ Copies(rec(1), u) = IF u[2] = 1 THEN Pressed(e, u) ELSE 0
                            /\ Copies(rec(2), u) = IF u[2] = 2 THEN Pressed(e, u) ELSE 0
    <3>1. rec(1) \in Records /\ rec(2) \in Records
      BY <1>1
    <3>2. ASSUME NEW u \in Units
          PROVE  /\ Copies(rec(1), u) = IF u[2] = 1 THEN Pressed(e, u) ELSE 0
                 /\ Copies(rec(2), u) = IF u[2] = 2 THEN Pressed(e, u) ELSE 0
      BY UnitFacts DEF Copies, Pressed
    <3> HIDE DEF rec
    <3> QED
      BY <3>1, <3>2, CopiesType
  <2> HIDE DEF rec
  <2>3. CASE Size(e.key) = 1
    <3>1. Pieces(e, unicode) = <<rec(1)>>
      BY <2>1, <2>3
    <3>2. \A u \in Units : Count(<<rec(1)>>)[u] = Copies(rec(1), u)
      BY <2>2, CountOne
    <3>3. \A u \in Units : Copies(rec(1), u) = Pressed(e, u)
      BY <2>2, <2>3, UnitFacts DEF Pressed
    <3> QED
      BY <1>3, <2>2, <3>1, <3>2, <3>3
  <2>4. CASE Size(e.key) = 2
    <3>1. Pieces(e, unicode) = <<rec(1), rec(2)>>
      BY <2>1, <2>4
    <3>2. /\ <<rec(1)>> \in Seq(Records) /\ <<rec(1), rec(2)>> \in Seq(Records)
          /\ Append(<<rec(1)>>, rec(2)) = <<rec(1), rec(2)>>
      <4>1. rec(1) \in Records /\ rec(2) \in Records
        BY <2>2
      <4>2. <<rec(1)>> \in Seq(Records)
        BY <4>1
      <4> DEFINE a == Append(<<rec(1)>>, rec(2))
                 b == <<rec(1), rec(2)>>
      <4>3. a \in Seq(Records) /\ Len(a) = 2 /\ a[1] = rec(1) /\ a[2] = rec(2)
        BY <4>1, <4>2, AppendProperties
      <4>4. b \in Seq(Records) /\ Len(b) = 2 /\ b[1] = rec(1) /\ b[2] = rec(2)
        BY <4>1
      <4> HIDE DEF a, b
      <4>5. \A i \in 1 .. Len(a) : a[i] = b[i]
        BY <4>3, <4>4
      <4>6. a = b
        BY <4>3, <4>4, <4>5, SeqEqual
      <4> QED
        BY <4>2, <4>4, <4>6, Zenon DEF a, b
    <3>3. \A u \in Units : Count(Append(<<rec(1)>>, rec(2)))[u] = Count(<<rec(1)>>)[u] + Copies(rec(2), u)
      BY <2>2, <3>2, CountAppend
    <3>4. \A u \in Units : Count(<<rec(1)>>)[u] = Copies(rec(1), u)
      BY <2>2, CountOne
    <3>5. \A u \in Units : Copies(rec(1), u) + Copies(rec(2), u) = Pressed(e, u)
      BY <2>2, UnitFacts, PressedFacts
    <3> QED
      BY <1>3, <3>1, <3>2, <3>3, <3>4, <3>5
  <2> QED
    BY <2>3, <2>4, UnitFacts
<1> QED
  BY <1>2, <1>3

\* The bytes of n presses.
Typed(e, unicode, n, b) ==
    /\ b \in Seq(Records)
    /\ unicode => Len(b) = n
    /\ \A u \in Units : Count(b)[u] = IF IsDown(e) /\ e.key = u[1] THEN n ELSE 0

\* Presses yields every byte of the key n times.
LEMMA PressesFacts ==
    ASSUME NEW e \in Events, NEW unicode \in BOOLEAN, NEW n \in Nat
    PROVE  Typed(e, unicode, n, Presses(e, unicode, n))
<1> DEFINE b == Pieces([e EXCEPT !.rep = 1], unicode)
           Add(v) == v \o b
           Is(f) == f = [k \in 0 .. n |-> IF k = 0 THEN <<>> ELSE Add(f[k - 1])]
           step == [x \in (1 .. n) \X Seq(Records) |-> Add(x[2])]
           f == CHOOSE f : Is(f)
<1>1. Presses(e, unicode, n) = f[n]
  BY DEF Presses
<1>2. /\ b \in Seq(Records) /\ (unicode => Len(b) = 1)
      /\ \A u \in Units : Count(b)[u] = IF IsDown(e) /\ e.key = u[1] THEN 1 ELSE 0
  <2> DEFINE e1 == [e EXCEPT !.rep = 1]
  <2>1. /\ e1 \in Events
        /\ \A u \in Units : Pressed(e1, u) = IF IsDown(e) /\ e.key = u[1] THEN 1 ELSE 0
    BY DEF Events, Pressed, IsDown
  <2> HIDE DEF e1
  <2>2. /\ Pieces(e1, unicode) \in Seq(Records) /\ (unicode => Len(Pieces(e1, unicode)) = 1)
        /\ \A u \in Units : Count(Pieces(e1, unicode))[u] = Pressed(e1, u)
    BY <2>1, PiecesFacts
  <2> QED
    BY <2>1, <2>2 DEF e1
<1> HIDE DEF b
<1>3. \A v \in Seq(Records) : Add(v) \in Seq(Records)
  BY <1>2, ConcatProperties
<1> HIDE DEF Add
<1>4. step \in [(1 .. n) \X Seq(Records) -> Seq(Records)] /\ <<>> \in Seq(Records)
  BY <1>3, EmptySeq
<1>5. \A k \in 1 .. n, v \in Seq(Records) : step[<<k, v>>] = Add(v)
  OBVIOUS
<1> HIDE DEF step
<1>6. PICK g : Unfolds(g, n, Seq(Records), <<>>, step)
  BY <1>4, Recursion, Zenon
<1>7. Is(g)
  <2>1. \A k \in 0 .. n : k # 0 => k \in 1 .. n /\ g[k - 1] \in Seq(Records)
    BY <1>6 DEF Unfolds
  <2>2. \A k \in 0 .. n : g[k] = IF k = 0 THEN <<>> ELSE Add(g[k - 1])
    BY <1>5, <1>6, <2>1 DEF Unfolds
  <2> QED
    BY <1>6, <2>2 DEF Unfolds
<1>8. Is(f)
  <2> HIDE DEF Is
  <2> QED
    BY <1>7
<1> HIDE DEF f
<1>9. f[0] = <<>> /\ \A k \in 1 .. n : f[k] = Add(f[k - 1])
  BY <1>8
<1> DEFINE Good == {k \in 0 .. n : Typed(e, unicode, k, f[k])}
<1>10. 0 \in Good
  <2>1. <<>> \in Seq(Records) /\ Len(<<>>) = 0
    BY EmptySeq
  <2>2. Typed(e, unicode, 0, <<>>)
    BY <2>1, CountEmpty DEF Typed
  <2> QED
    BY <1>9, <2>2
<1>11. ASSUME NEW k \in 0 .. n, k < n, k \in Good PROVE k + 1 \in Good
  <2>1. k + 1 \in 1 .. n /\ (k + 1) - 1 = k /\ k + 1 \in 0 .. n
    BY <1>11
  <2>2. f[k + 1] = f[k] \o b
    BY <1>9, <2>1 DEF Add
  <2>3. /\ f[k] \in Seq(Records) /\ (unicode => Len(f[k]) = k)
        /\ \A u \in Units : Count(f[k])[u] = IF IsDown(e) /\ e.key = u[1] THEN k ELSE 0
    BY <1>11 DEF Typed
  <2>4. f[k + 1] \in Seq(Records) /\ Len(f[k + 1]) = Len(f[k]) + Len(b)
    BY <1>2, <2>2, <2>3, ConcatProperties
  <2>5. unicode => Len(f[k + 1]) = k + 1
    BY <1>2, <2>3, <2>4
  <2>6. ASSUME NEW u \in Units
        PROVE  Count(f[k + 1])[u] = IF IsDown(e) /\ e.key = u[1] THEN k + 1 ELSE 0
    <3>1. Count(f[k] \o b)[u] = Count(f[k])[u] + Count(b)[u]
      BY <1>2, <2>3, CountConcat
    <3> QED
      BY <1>2, <2>2, <2>3, <3>1
  <2> QED
    BY <2>1, <2>4, <2>5, <2>6 DEF Typed
<1>12. n \in Good
  <2> HIDE DEF Good
  <2>1. \A k \in 0 .. n : k \in Good
    BY <1>10, <1>11, UpTo
  <2> QED
    BY <2>1
<1> QED
  BY <1>1, <1>12

\* Events that are no presses of keys can go.
LEMMA StoredWithout ==
    ASSUME NEW q \in Seq(Events), NEW S, \A e \in S : ~IsDown(e), NEW u \in Units
    PROVE  Stored(Without(q, S), u) = Stored(q, u)
<1> DEFINE n == Len(q)
<1>1. n \in Nat /\ DOMAIN q = 1 .. n /\ \A k \in 1 .. n : q[k] \in Events
  BY LenProperties, ElementOfSeq
<1>2. PICK kept :
        /\ kept[0] = <<>>
        /\ \A k \in 1 .. n : kept[k] = IF q[k] \in S THEN kept[k - 1] ELSE Append(kept[k - 1], q[k])
        /\ Without(q, S) = kept[n]
  BY WithoutSteps
<1> HIDE DEF n
<1> DEFINE Good == {k \in 0 .. n : /\ kept[k] \in Seq(Events)
                                   /\ Stored(kept[k], u) = Stored(SubSeq(q, 1, k), u)}
<1>3. 0 \in Good
  <2>1. <<>> \in Seq(Events) /\ SubSeq(q, 1, 0) = <<>>
    BY EmptySeq, SubSeqEmpty
  <2>2. kept[0] = <<>> /\ 0 \in 0 .. n
    BY <1>1, <1>2
  <2> QED
    BY <2>1, <2>2, Zenon
<1>4. ASSUME NEW k \in 0 .. n, k < n, k \in Good PROVE k + 1 \in Good
  <2>1. /\ k + 1 \in 1 .. n /\ (k + 1) - 1 = k /\ k + 1 \in 0 .. n /\ q[k + 1] \in Events
    BY <1>1, <1>4
  <2>2. kept[k + 1] = IF q[k + 1] \in S THEN kept[k] ELSE Append(kept[k], q[k + 1])
    BY <1>2, <2>1
  <2>3. Stored(SubSeq(q, 1, k + 1), u) = Stored(SubSeq(q, 1, k), u) + Pressed(q[k + 1], u)
    BY <1>4, StoredNext DEF n
  <2>4. /\ kept[k] \in Seq(Events) /\ Stored(kept[k], u) = Stored(SubSeq(q, 1, k), u)
        /\ Stored(kept[k], u) \in Nat
    BY <1>4, StoredType
  <2>5. CASE q[k + 1] \in S
    <3>1. Pressed(q[k + 1], u) = 0
      BY <2>5 DEF Pressed
    <3> QED
      BY <2>1, <2>2, <2>3, <2>4, <2>5, <3>1
  <2>6. CASE q[k + 1] \notin S
    <3>1. kept[k + 1] = Append(kept[k], q[k + 1])
      BY <2>2, <2>6
    <3>2. kept[k + 1] \in Seq(Events)
      BY <2>1, <2>4, <3>1, AppendProperties
    <3>3. Stored(kept[k + 1], u) = Stored(kept[k], u) + Pressed(q[k + 1], u)
      BY <2>1, <2>4, <3>1, StoredAppend
    <3> QED
      BY <2>1, <2>3, <2>4, <3>2, <3>3
  <2> QED
    BY <2>5, <2>6
<1>5. n \in Good
  <2> HIDE DEF Good
  <2>1. \A k \in 0 .. n : k \in Good
    BY <1>1, <1>3, <1>4, UpTo
  <2> QED
    BY <1>1, <2>1
<1>6. SubSeq(q, 1, n) = q
  BY SubSeqFull DEF n
<1> QED
  BY <1>2, <1>5, <1>6

\* The last event of the storage replaced.
LEMMA StoredLast ==
    ASSUME NEW q \in Seq(Events), q # <<>>, NEW e \in Events, NEW u \in Units
    PROVE  LET p == [q EXCEPT ![Len(q)] = e]
           IN  /\ p \in Seq(Events) /\ p # <<>> /\ q[Len(q)] \in Events
               /\ Stored(p, u) + Pressed(q[Len(q)], u) = Stored(q, u) + Pressed(e, u)
<1> DEFINE n == Len(q)
           p == [q EXCEPT ![n] = e]
<1>1. n \in Nat /\ n \in 1 .. n /\ q[n] \in Events
  BY EmptySeq, LenProperties, ElementOfSeq
<1>2. /\ p \in Seq(Events) /\ Len(p) = n
      /\ \A j \in 1 .. n : p[j] = IF j = n THEN e ELSE q[j]
  BY <1>1, ExceptSeq
<1> HIDE DEF p
<1>3. PICK a \in Seq(Events), x \in Events : q = Append(a, x)
  BY SequenceEmptyOrAppend
<1>4. n = Len(a) + 1 /\ Len(a) \in Nat /\ q[n] = x /\ \A i \in 1 .. Len(a) : q[i] = a[i]
  BY <1>3, AppendProperties, LenProperties
<1> HIDE DEF n
<1>5. p = Append(a, e)
  <2>1. /\ Append(a, e) \in Seq(Events) /\ Len(Append(a, e)) = Len(a) + 1
        /\ \A i \in 1 .. Len(a) : Append(a, e)[i] = a[i]
        /\ Append(a, e)[Len(a) + 1] = e
    BY AppendProperties
  <2> DEFINE b == Append(a, e)
  <2> HIDE DEF b
  <2>2. /\ b \in Seq(Events) /\ Len(b) = n /\ b[n] = e
        /\ \A i \in 1 .. Len(a) : b[i] = a[i]
    BY <1>4, <2>1 DEF b
  <2>3. \A i \in 1 .. n : p[i] = b[i]
    BY <1>2, <1>4, <2>2
  <2>4. p = b
    BY <1>2, <2>2, <2>3, SeqEqual
  <2> QED
    BY <2>4 DEF b
<1>6. Stored(p, u) = Stored(a, u) + Pressed(e, u) /\ Stored(q, u) = Stored(a, u) + Pressed(x, u)
  BY <1>3, <1>5, StoredAppend
<1>7. Stored(a, u) \in Nat /\ Pressed(e, u) \in Nat /\ Pressed(x, u) \in Nat
  BY StoredType, PressedFacts
<1>8. p # <<>>
  BY <1>5, AppendProperties
<1>9. Stored(p, u) + Pressed(q[n], u) = Stored(q, u) + Pressed(e, u)
  BY <1>4, <1>6, <1>7
<1> QED
  BY <1>1, <1>2, <1>8, <1>9 DEF p, n

-----------------------------------------------------------------------------
(* Reading. *)

\* The parameters of a read.
LEMMA AmountFacts ==
    ASSUME NEW r \in ReadRequests
    PROVE  /\ r.amount \in Nat /\ r.amount > 0 /\ r.unicode \in BOOLEAN /\ r.peek \in BOOLEAN
           /\ r.kind \in {"direct", "raw"}
<1>1. r.amount \in Amounts
  BY DEF ReadRequests
<1>2. r.amount \in Nat /\ r.amount > 0
  <2>1. Amounts \subseteq Nat \ {0}
    BY InputAssumption, Zenon
  <2>2. r.amount \in Nat /\ r.amount # 0
    BY <1>1, <2>1
  <2> QED
    BY <2>2
<1> QED
  BY <1>2 DEF ReadRequests

\* What the loop of Read has, after k events of the storage: so many of them
\* are in what it gives.
EventsRead(m, r, k, b) ==
    /\ b.out \in Seq(Records) /\ b.n \in 0 .. k
    /\ r.unicode /\ m.events = <<>> => Len(b.out) <= r.amount
    /\ \A u \in Units : Count(b.out)[u] = Count(SubSeq(m.events, 1, Least(r.amount, Len(m.events))))[u]
                                            + Stored(SubSeq(m.storage, 1, b.n), u)
    /\ Len(b.out) < r.amount => b.n = k

\* The loop of InputBuffer::Read takes what it uses from the cache and the front
\* of the storage, whole.
LEMMA ReadEventsFacts ==
    ASSUME NEW m \in States, NEW r \in ReadRequests
    PROVE  EventsRead(m, r, Len(m.storage), ReadEvents(m, r))
<1> DEFINE n == Len(m.storage)
           V == [out : Seq(Records), n : Nat]
           first == SubSeq(m.events, 1, Least(r.amount, Len(m.events)))
           base == [out |-> first, n |-> 0]
           Step(k, b) == IF Len(b.out) < r.amount
                         THEN [out |-> b.out \o Pieces(m.storage[k], r.unicode), n |-> b.n + 1]
                         ELSE b
           Is(f) == f = [k \in 0 .. n |-> IF k = 0 THEN base ELSE Step(k, f[k - 1])]
           step == [x \in (1 .. n) \X V |-> Step(x[1], x[2])]
           f == CHOOSE f : Is(f)
<1>1. /\ m.storage \in Seq(Events) /\ m.events \in Seq(Records) /\ n \in Nat
      /\ \A k \in 1 .. n : m.storage[k] \in Events
  BY LenProperties, ElementOfSeq DEF States
<1>2. ReadEvents(m, r) = f[n]
  BY DEF ReadEvents
<1>3. first \in Seq(Records) /\ (m.events = <<>> => Len(first) = 0)
  <2>1. Len(m.events) \in Nat /\ (m.events = <<>> => Len(m.events) = 0)
    BY <1>1, LenProperties, EmptySeq
  <2>2. Least(r.amount, Len(m.events)) \in 0 .. Len(m.events)
    <3>1. r.amount \in Nat
      BY AmountFacts
    <3> QED
      BY <2>1, <3>1 DEF Least
  <2>3. \A i \in 1 .. Least(r.amount, Len(m.events)) : m.events[i] \in Records
    BY <1>1, <2>1, <2>2, ElementOfSeq
  <2>4. /\ first \in Seq(Records)
        /\ Len(first) = IF 1 <= Least(r.amount, Len(m.events))
                        THEN Least(r.amount, Len(m.events)) - 1 + 1 ELSE 0
    BY <2>2, <2>3, SubSeqProperties
  <2> QED
    BY <2>1, <2>2, <2>4
<1> HIDE DEF n, first
<1>4. \A k \in 1 .. n, b \in V : Step(k, b) \in V
  <2> SUFFICES ASSUME NEW k \in 1 .. n, NEW b \in V PROVE Step(k, b) \in V
    OBVIOUS
  <2>1. Pieces(m.storage[k], r.unicode) \in Seq(Records)
    BY <1>1, AmountFacts, PiecesFacts
  <2>2. b.out \o Pieces(m.storage[k], r.unicode) \in Seq(Records)
    BY <2>1, ConcatProperties
  <2> DEFINE o == b.out \o Pieces(m.storage[k], r.unicode)
  <2> HIDE DEF o
  <2>3. [out |-> o, n |-> b.n + 1] \in V
    BY <2>2 DEF o
  <2> QED
    BY <2>3 DEF o
<1>5. base \in V
  BY <1>3
<1> HIDE DEF Step, V, base
<1>6. step \in [(1 .. n) \X V -> V]
  BY <1>4
<1>7. \A k \in 1 .. n, v \in V : step[<<k, v>>] = Step(k, v)
  OBVIOUS
<1> HIDE DEF step
<1>8. PICK g : Unfolds(g, n, V, base, step)
  BY <1>1, <1>5, <1>6, Recursion, Zenon
<1>9. Is(g)
  <2>1. \A k \in 0 .. n : k # 0 => k \in 1 .. n /\ g[k - 1] \in V
    BY <1>1, <1>8 DEF Unfolds
  <2>2. \A k \in 0 .. n : g[k] = IF k = 0 THEN base ELSE Step(k, g[k - 1])
    BY <1>7, <1>8, <2>1 DEF Unfolds
  <2> QED
    BY <1>8, <2>2 DEF Unfolds
<1>10. Is(f)
  <2> HIDE DEF Is
  <2> QED
    BY <1>9
<1> HIDE DEF f
<1>11. f[0] = base /\ \A k \in 1 .. n : f[k] = Step(k, f[k - 1])
  BY <1>1, <1>10
<1> DEFINE Good == {k \in 0 .. n : EventsRead(m, r, k, f[k])}
<1>12. 0 \in Good
  <2>1. f[0].out = first /\ f[0].n = 0 /\ 0 \in 0 .. n
    BY <1>1, <1>11 DEF base
  <2>2. \A u \in Units : Stored(SubSeq(m.storage, 1, 0), u) = 0
    <3>1. SubSeq(m.storage, 1, 0) = <<>>
      BY SubSeqEmpty
    <3> QED
      BY <3>1, StoredEmpty
  <2>3. \A u \in Units : Count(first)[u] = Count(first)[u] + Stored(SubSeq(m.storage, 1, 0), u)
    <3> SUFFICES ASSUME NEW u \in Units
                 PROVE  Count(first)[u] = Count(first)[u] + Stored(SubSeq(m.storage, 1, 0), u)
      OBVIOUS
    <3>1. Count(first)[u] \in Nat /\ Stored(SubSeq(m.storage, 1, 0), u) = 0
      BY <1>3, <2>2, CountType
    <3> QED
      BY <3>1
  <2>4. m.events = <<>> => Len(first) <= r.amount
    BY <1>3, AmountFacts
  <2>5. EventsRead(m, r, 0, f[0])
    BY <1>3, <2>1, <2>3, <2>4 DEF EventsRead, first
  <2> QED
    BY <2>1, <2>5
<1>13. ASSUME NEW k \in 0 .. n, k < n, k \in Good PROVE k + 1 \in Good
  <2>1. /\ k + 1 \in 1 .. n /\ (k + 1) - 1 = k /\ k + 1 \in 0 .. n /\ m.storage[k + 1] \in Events
    BY <1>1, <1>13
  <2>2. f[k + 1] = Step(k + 1, f[k])
    BY <1>11, <2>1
  <2> DEFINE b == f[k]
  <2>3. /\ b.out \in Seq(Records) /\ b.n \in 0 .. k
        /\ r.unicode /\ m.events = <<>> => Len(b.out) <= r.amount
        /\ \A u \in Units : Count(b.out)[u] = Count(first)[u] + Stored(SubSeq(m.storage, 1, b.n), u)
        /\ Len(b.out) < r.amount => b.n = k
    BY <1>13 DEF EventsRead, first
  <2>4. CASE ~(Len(b.out) < r.amount)
    <3>1. f[k + 1] = b
      BY <2>2, <2>4 DEF Step
    <3>2. b.n \in 0 .. k + 1
      BY <2>3
    <3>3. EventsRead(m, r, k + 1, b)
      BY <2>3, <2>4, <3>2 DEF EventsRead, first
    <3> QED
      BY <2>1, <3>1, <3>3
  <2>5. CASE Len(b.out) < r.amount
    <3> DEFINE ps == Pieces(m.storage[k + 1], r.unicode)
               o == b.out \o ps
    <3>1. /\ ps \in Seq(Records) /\ (r.unicode => Len(ps) = 1)
          /\ \A u \in Units : Count(ps)[u] = Pressed(m.storage[k + 1], u)
      BY <2>1, AmountFacts, PiecesFacts
    <3> HIDE DEF ps
    <3>2. o \in Seq(Records) /\ Len(o) = Len(b.out) + Len(ps) /\ Len(b.out) \in Nat /\ b.n = k
      BY <2>3, <2>5, <3>1, ConcatProperties, LenProperties
    <3>3. \A u \in Units : Count(o)[u] = Count(b.out)[u] + Count(ps)[u]
      BY <2>3, <3>1, CountConcat
    <3>4. f[k + 1] = [out |-> o, n |-> b.n + 1]
      BY <2>2, <2>5 DEF Step, ps
    <3> HIDE DEF o
    <3>5. f[k + 1].out = o /\ f[k + 1].n = k + 1
      BY <3>2, <3>4
    <3>6. r.unicode => Len(o) <= r.amount
      <4>1. r.amount \in Nat
        BY AmountFacts
      <4>2. Len(o) = Len(b.out) + Len(ps) /\ Len(b.out) \in Nat
        BY <3>2
      <4>3. ASSUME r.unicode PROVE Len(o) <= r.amount
        <5>1. Len(ps) = 1
          BY <3>1, <4>3
        <5> QED
          BY <2>5, <4>1, <4>2, <5>1
      <4> QED
        BY <4>3
    <3>7. ASSUME NEW u \in Units
          PROVE  Count(o)[u] = Count(first)[u] + Stored(SubSeq(m.storage, 1, k + 1), u)
      <4>1. Stored(SubSeq(m.storage, 1, k + 1), u)
              = Stored(SubSeq(m.storage, 1, k), u) + Pressed(m.storage[k + 1], u)
        BY <1>1, <1>13, StoredNext DEF n
      <4>2. Count(o)[u] = (Count(first)[u] + Stored(SubSeq(m.storage, 1, k), u)) + Pressed(m.storage[k + 1], u)
        BY <2>3, <3>1, <3>2, <3>3
      <4>3. Count(first)[u] \in Nat /\ Pressed(m.storage[k + 1], u) \in Nat
        BY <1>3, <2>1, CountType, PressedFacts
      <4>4. Stored(SubSeq(m.storage, 1, k), u) \in Nat
        BY <1>1, <1>13, StoredSplit, StoredType DEF n
      <4> QED
        BY <4>1, <4>2, <4>3, <4>4
    <3>8. k + 1 \in 0 .. k + 1
      BY <2>1
    <3>9. EventsRead(m, r, k + 1, f[k + 1])
      BY <3>2, <3>5, <3>6, <3>7, <3>8 DEF EventsRead, first
    <3> QED
      BY <2>1, <3>9
  <2> QED
    BY <2>4, <2>5
<1>14. n \in Good
  <2> HIDE DEF Good
  <2>1. \A k \in 0 .. n : k \in Good
    BY <1>1, <1>12, <1>13, UpTo
  <2> QED
    BY <1>1, <2>1
<1> QED
  BY <1>2, <1>14 DEF n

\* What a sequence has up to a number of records, and beyond it.
LEMMA CutFacts ==
    ASSUME NEW ps \in Seq(Records), NEW a \in Nat
    PROVE  /\ SubSeq(ps, 1, Least(a, Len(ps))) \in Seq(Records)
           /\ SubSeq(ps, a + 1, Len(ps)) \in Seq(Records)
           /\ Len(ps) <= a => SubSeq(ps, a + 1, Len(ps)) = <<>>
           /\ \A u \in Units : Count(ps)[u] = Count(SubSeq(ps, 1, Least(a, Len(ps))))[u]
                                                + Count(SubSeq(ps, a + 1, Len(ps)))[u]
<1> DEFINE n == Least(a, Len(ps))
<1>1. Len(ps) \in Nat /\ n \in 0 .. Len(ps)
  <2>1. Len(ps) \in Nat
    BY LenProperties
  <2> QED
    BY <2>1 DEF Least
<1>2. SubSeq(ps, n + 1, Len(ps)) = SubSeq(ps, a + 1, Len(ps))
  <2>1. CASE a <= Len(ps)
    <3>1. n = a
      BY <1>1, <2>1 DEF Least
    <3> HIDE DEF n
    <3> QED
      BY <3>1
  <2>2. CASE ~(a <= Len(ps))
    <3>1. n = Len(ps) /\ Len(ps) < n + 1 /\ Len(ps) < a + 1 /\ n + 1 \in Int /\ a + 1 \in Int
      BY <1>1, <2>2 DEF Least
    <3>2. SubSeq(ps, n + 1, Len(ps)) = <<>> /\ SubSeq(ps, a + 1, Len(ps)) = <<>>
      BY <1>1, <3>1, SubSeqEmpty
    <3> QED
      BY <3>2
  <2> QED
    BY <2>1, <2>2
<1>3. Len(ps) <= a => SubSeq(ps, a + 1, Len(ps)) = <<>>
  <2>1. Len(ps) <= a => Len(ps) < a + 1
    BY <1>1
  <2> QED
    BY <1>1, <2>1, SubSeqEmpty
<1>4. SubSeq(ps, 1, n) \in Seq(Records) /\ SubSeq(ps, n + 1, Len(ps)) \in Seq(Records)
  <2>1. \A i \in 1 .. Len(ps) : ps[i] \in Records
    BY ElementOfSeq
  <2>2. \A i \in 1 .. n : ps[i] \in Records
    BY <1>1, <2>1
  <2>3. \A i \in n + 1 .. Len(ps) : ps[i] \in Records
    BY <1>1, <2>1
  <2>4. n \in Int /\ n + 1 \in Int /\ Len(ps) \in Int
    BY <1>1
  <2>5. SubSeq(ps, 1, n) \in Seq(Records)
    BY <2>2, <2>4, SubSeqProperties
  <2>6. SubSeq(ps, n + 1, Len(ps)) \in Seq(Records)
    BY <2>3, <2>4, SubSeqProperties
  <2> QED
    BY <2>5, <2>6
<1>5. \A u \in Units : Count(ps)[u] = Count(SubSeq(ps, 1, n))[u] + Count(SubSeq(ps, n + 1, Len(ps)))[u]
  BY <1>1, CountSplit
<1> QED
  BY <1>2, <1>3, <1>4, <1>5, Zenon

\* What a kind of read left over is there for that kind only.
Cached(s) ==
    /\ s.text # <<>> => s.mode = "StringA"
    /\ s.events # <<>> => s.mode = "InputEventsA"

\* The event is set while there is input.
Signalled(s) == s.storage # <<>> => s.hInputEvent

\* What is in the buffer is what was typed and neither read nor discarded.
Contents(s, u) == Stored(s.storage, u) + (Count(s.text)[u] + Count(s.events)[u])
Conserved(s) == \A u \in Units : s.owed[u] = Contents(s, u)

\* Plus and Minus, byte by byte.
LEMMA MinusType ==
    ASSUME NEW a \in [Units -> Int], NEW b \in [Units -> Int]
    PROVE  /\ Minus(a, b) \in [Units -> Int] /\ \A u \in Units : Minus(a, b)[u] = a[u] - b[u]
           /\ Plus(a, b) \in [Units -> Int] /\ \A u \in Units : Plus(a, b)[u] = a[u] + b[u]
  BY DEF Minus, Plus

\* A count is a function to the integers.
LEMMA CountInt ==
    ASSUME NEW ps \in Seq(Records)
    PROVE  Count(ps) \in [Units -> Int]
<1>1. Count(ps) \in [Units -> Nat]
  BY CountType
<1> QED
  BY <1>1

\* _switchReadingMode drops the other kinds' leftovers from the buffer and from
\* the debt alike.
LEMMA SwitchFacts ==
    ASSUME NEW s \in States, Cached(s), NEW md \in Modes, NEW t, t = SwitchReadingMode(s, md)
    PROVE  /\ t \in States /\ SameWaits(s, t) /\ Cached(t) /\ t.mode = md
           /\ t.storage = s.storage /\ t.hInputEvent = s.hInputEvent
           /\ s.text = <<>> /\ s.events = <<>> => t.text = <<>> /\ t.events = <<>>
           /\ Conserved(s) => Conserved(t)
<1>1. CASE s.mode = md
  <2>1. t = s
    BY <1>1 DEF SwitchReadingMode
  <2> QED
    BY <1>1, <2>1 DEF SameWaits
<1>2. CASE s.mode # md
  <2> DEFINE o == Minus(s.owed, Plus(Count(s.text), Count(s.events)))
  <2>1. t = [s EXCEPT !.mode = md, !.text = <<>>, !.events = <<>>, !.owed = o]
    BY <1>2 DEF SwitchReadingMode
  <2>2. /\ s.owed \in [Units -> Int] /\ s.text \in Seq(Records) /\ s.events \in Seq(Records)
        /\ s.storage \in Seq(Events)
    BY DEF States
  <2>3. Count(s.text) \in [Units -> Int] /\ Count(s.events) \in [Units -> Int]
    BY <2>2, CountInt
  <2>4. /\ Plus(Count(s.text), Count(s.events)) \in [Units -> Int]
        /\ \A u \in Units : Plus(Count(s.text), Count(s.events))[u] = Count(s.text)[u] + Count(s.events)[u]
    BY <2>3, MinusType
  <2>5. /\ o \in [Units -> Int]
        /\ \A u \in Units : o[u] = s.owed[u] - Plus(Count(s.text), Count(s.events))[u]
    BY <2>2, <2>4, MinusType
  <2> HIDE DEF o
  <2>6. <<>> \in Seq(Records)
    BY EmptySeq
  <2>7. t \in States
    BY <2>1, <2>5, <2>6 DEF States
  <2>8. /\ t.mode = md /\ t.text = <<>> /\ t.events = <<>> /\ t.owed = o /\ t.storage = s.storage
        /\ t.hInputEvent = s.hInputEvent
    BY <2>1 DEF States
  <2>9. SameWaits(s, t)
    BY <2>1 DEF States, SameWaits
  <2>10. ASSUME Conserved(s), NEW u \in Units PROVE t.owed[u] = Contents(t, u)
    <3>1. Count(<<>>)[u] = 0 /\ Stored(s.storage, u) \in Nat
      BY <2>2, CountEmpty, StoredType
    <3>2. Count(s.text)[u] \in Int /\ Count(s.events)[u] \in Int /\ s.owed[u] \in Int
      BY <2>2, <2>3
    <3>3. s.owed[u] = Stored(s.storage, u) + (Count(s.text)[u] + Count(s.events)[u])
      BY <2>10 DEF Conserved, Contents
    <3>4. o[u] = s.owed[u] - (Count(s.text)[u] + Count(s.events)[u])
      BY <2>4, <2>5
    <3>5. o[u] = Stored(s.storage, u)
      BY <3>1, <3>2, <3>3, <3>4
    <3>6. Contents(t, u) = Stored(s.storage, u) + (Count(<<>>)[u] + Count(<<>>)[u])
      BY <2>8 DEF Contents
    <3>7. Contents(t, u) = Stored(s.storage, u)
      BY <3>1, <3>6
    <3>8. t.owed[u] = o[u]
      BY <2>8
    <3> QED
      BY <3>5, <3>7, <3>8
  <2> QED
    BY <2>7, <2>8, <2>9, <2>10 DEF Cached, Conserved
<1> QED
  BY <1>1, <1>2

\* What a read does to the state.
Answers(s, r, x) ==
    /\ x.state \in States /\ SameWaits(s, x.state) /\ Cached(x.state)
    /\ Signalled(s) => Signalled(x.state)
    /\ Conserved(s) /\ (r.unicode \/ ~r.peek) => Conserved(x.state)
    /\ s.text = <<>> /\ s.events = <<>> /\ r.kind = "direct" /\ r.unicode /\ r.peek
         => x.state.storage = s.storage /\ x.state.text = <<>> /\ x.state.events = <<>>

\* InputBuffer::Read keeps what Answers says.
LEMMA ReadInFacts ==
    ASSUME NEW m \in States, Cached(m), NEW r \in ReadRequests,
           m.mode = IF r.unicode THEN "InputEventsW" ELSE "InputEventsA"
    PROVE  Answers(m, r, ReadIn(m, r))
<1> DEFINE used == ReadEvents(m, r)
           out == SubSeq(used.out, 1, Least(r.amount, Len(used.out)))
           over == SubSeq(used.out, r.amount + 1, Len(used.out))
           rest == IF r.peek THEN m.storage ELSE SubSeq(m.storage, used.n + 1, Len(m.storage))
           left == SubSeq(m.events, r.amount + 1, Len(m.events))
           first == SubSeq(m.events, 1, Least(r.amount, Len(m.events)))
           cached == IF r.peek THEN m.events ELSE left
           set == m.hInputEvent /\ (out = <<>> \/ rest # <<>>)
           owe == IF r.peek THEN m.owed ELSE Minus(m.owed, Count(out))
           t == ReadIn(m, r).state
           es == cached \o over
<1>1. /\ m.storage \in Seq(Events) /\ m.events \in Seq(Records) /\ m.owed \in [Units -> Int]
      /\ m.text \in Seq(Records) /\ m.hInputEvent \in BOOLEAN /\ Len(m.storage) \in Nat
      /\ r.amount \in Nat /\ r.unicode \in BOOLEAN /\ r.peek \in BOOLEAN
  BY AmountFacts, LenProperties DEF States
<1>2. EventsRead(m, r, Len(m.storage), used)
  BY ReadEventsFacts
<1>3. t = [m EXCEPT !.storage = rest, !.events = es, !.hInputEvent = set, !.owed = owe]
  BY DEF ReadIn, ReadLeaves, Cache
<1> HIDE DEF used
<1>4. /\ used.out \in Seq(Records) /\ used.n \in 0 .. Len(m.storage)
      /\ r.unicode /\ m.events = <<>> => Len(used.out) <= r.amount
      /\ \A u \in Units : Count(used.out)[u] = Count(first)[u] + Stored(SubSeq(m.storage, 1, used.n), u)
  BY <1>2 DEF EventsRead
<1>5. /\ out \in Seq(Records) /\ over \in Seq(Records)
      /\ Len(used.out) <= r.amount => over = <<>>
      /\ \A u \in Units : Count(used.out)[u] = Count(out)[u] + Count(over)[u]
  BY <1>1, <1>4, CutFacts, Zenon
<1>6. /\ first \in Seq(Records) /\ left \in Seq(Records)
      /\ \A u \in Units : Count(m.events)[u] = Count(first)[u] + Count(left)[u]
  BY <1>1, CutFacts, Zenon
<1>7. SubSeq(m.storage, used.n + 1, Len(m.storage)) \in Seq(Events)
  <2>1. \A i \in 1 .. Len(m.storage) : m.storage[i] \in Events
    BY <1>1, ElementOfSeq
  <2>2. \A i \in used.n + 1 .. Len(m.storage) : m.storage[i] \in Events
    BY <1>1, <1>4, <2>1
  <2>3. used.n + 1 \in Int /\ Len(m.storage) \in Int
    BY <1>1, <1>4
  <2> QED
    BY <2>2, <2>3, SubSeqProperties
<1>8. \A u \in Units : Stored(m.storage, u) = Stored(SubSeq(m.storage, 1, used.n), u)
                                   + Stored(SubSeq(m.storage, used.n + 1, Len(m.storage)), u)
  BY <1>1, <1>4, StoredSplit
<1>9. m.text = <<>> /\ (r.unicode => m.events = <<>>)
  BY <1>1 DEF Cached
<1>10. r.unicode => over = <<>>
  BY <1>4, <1>5, <1>9
<1>11. rest \in Seq(Events) /\ (rest # <<>> => m.storage # <<>>)
  <2>1. CASE r.peek
    BY <1>1, <2>1
  <2>2. CASE ~r.peek
    <3>1. m.storage = <<>> => Len(m.storage) = 0
      BY <1>1, EmptySeq
    <3>2. m.storage = <<>> => rest = <<>>
      <4>1. ASSUME m.storage = <<>> PROVE rest = <<>>
        <5>1. Len(m.storage) < used.n + 1 /\ used.n + 1 \in Int /\ Len(m.storage) \in Int
          BY <1>1, <1>4, <3>1, <4>1
        <5> QED
          BY <2>2, <5>1, SubSeqEmpty
      <4> QED
        BY <4>1
    <3> QED
      BY <1>7, <2>2, <3>2
  <2> QED
    BY <2>1, <2>2
<1>12. cached \in Seq(Records)
  BY <1>1, <1>6
<1>13. es \in Seq(Records) /\ \A u \in Units : Count(es)[u] = Count(cached)[u] + Count(over)[u]
  <2> HIDE DEF cached, over
  <2> QED
    BY <1>5, <1>12, ConcatProperties, CountConcat DEF cached, over
<1>14. owe \in [Units -> Int]
  BY <1>1, <1>5, CountInt, MinusType
<1>15. set \in BOOLEAN /\ (set => m.hInputEvent) /\ (rest # <<>> => (set <=> m.hInputEvent))
  BY <1>1
<1> HIDE DEF rest, es, set, owe, t
<1>16. t \in States
  BY <1>3, <1>11, <1>13, <1>14, <1>15 DEF States
<1>17. /\ t.storage = rest /\ t.events = es /\ t.hInputEvent = set /\ t.owed = owe
       /\ t.text = m.text /\ t.mode = m.mode
  BY <1>3 DEF States
<1>18. SameWaits(m, t)
  BY <1>3 DEF States, SameWaits
<1>19. r.unicode => es = <<>>
  <2>1. ASSUME r.unicode PROVE es = <<>>
    <3>1. over = <<>> /\ m.events = <<>>
      BY <1>9, <1>10, <2>1
    <3>2. left = <<>>
      <4>1. Len(m.events) = 0
        BY <1>1, <3>1, EmptySeq
      <4>2. Len(m.events) <= r.amount
        BY <1>1, <4>1
      <4> QED
        BY <1>1, <4>2, CutFacts
    <3>3. cached = <<>>
      BY <3>1, <3>2
    <3> HIDE DEF cached, over
    <3>4. <<>> \o <<>> = <<>>
      BY EmptySeq, ConcatEmptySeq
    <3> QED
      BY <3>1, <3>3, <3>4 DEF es
  <2> QED
    BY <2>1
<1>20. Cached(t)
  BY <1>1, <1>9, <1>17, <1>19 DEF Cached
<1>21. Signalled(m) => Signalled(t)
  BY <1>11, <1>15, <1>17 DEF Signalled
<1>22. r.unicode /\ r.peek => t.storage = m.storage /\ t.text = <<>> /\ t.events = <<>> /\ t.owed = m.owed
  BY <1>9, <1>17, <1>19 DEF rest, owe
<1>23. ASSUME Conserved(m), r.unicode, r.peek PROVE Conserved(t)
  <2>1. m.events = <<>> /\ m.text = <<>>
    BY <1>9, <1>23
  <2> QED
    BY <1>22, <1>23, <2>1 DEF Conserved, Contents
<1>24. ASSUME Conserved(m), ~r.peek PROVE Conserved(t)
  <2> SUFFICES ASSUME NEW u \in Units PROVE t.owed[u] = Contents(t, u)
    BY DEF Conserved
  <2> DEFINE a == Stored(SubSeq(m.storage, 1, used.n), u)
             b == Stored(rest, u)
             c == Count(first)[u]
             d == Count(left)[u]
             g == Count(out)[u]
             h == Count(over)[u]
             w == Count(m.text)[u]
  <2>1. Stored(m.storage, u) = a + b
    BY <1>8, <1>24 DEF rest
  <2>2. Count(m.events)[u] = c + d
    BY <1>6
  <2>3. c + a = g + h
    BY <1>4, <1>5
  <2>4. t.owed[u] = m.owed[u] - g
    <3>1. Count(out) \in [Units -> Int]
      BY <1>5, CountInt
    <3>2. Minus(m.owed, Count(out))[u] = m.owed[u] - Count(out)[u]
      BY <1>1, <3>1, MinusType
    <3> QED
      BY <1>17, <1>24, <3>2 DEF owe
  <2>5. Contents(t, u) = b + (w + (d + h))
    <3>1. Count(es)[u] = d + h
      BY <1>13, <1>24
    <3> QED
      BY <1>17, <3>1 DEF Contents
  <2>6. m.owed[u] = (a + b) + (w + (c + d))
    <3>1. m.owed[u] = Stored(m.storage, u) + (Count(m.text)[u] + Count(m.events)[u])
      BY <1>24 DEF Conserved, Contents
    <3> QED
      BY <2>1, <2>2, <3>1
  <2>7. a \in Nat /\ b \in Nat
    <3>1. SubSeq(m.storage, 1, used.n) \in Seq(Events)
      BY <1>1, <1>4, StoredSplit
    <3> QED
      BY <1>11, <3>1, StoredType
  <2>8. c \in Nat /\ d \in Nat /\ g \in Nat /\ h \in Nat /\ w \in Nat
    <3>1. /\ Count(first) \in [Units -> Nat] /\ Count(left) \in [Units -> Nat]
          /\ Count(out) \in [Units -> Nat] /\ Count(over) \in [Units -> Nat]
          /\ Count(m.text) \in [Units -> Nat]
      BY <1>1, <1>5, <1>6, CountType
    <3> QED
      BY <3>1
  <2> HIDE DEF a, b, c, d, g, h, w
  <2> QED
    BY <2>3, <2>4, <2>5, <2>6, <2>7, <2>8
<1> QED
  BY <1>1, <1>16, <1>18, <1>20, <1>21, <1>22, <1>23, <1>24 DEF Answers, t

\* The loop of a character read.
Progress == [room : Nat, out : Seq(Records), cache : Seq(Records), rest : Seq(Events)]
Total(a, u) == Count(a.out)[u] + (Count(a.cache)[u] + Stored(a.rest, u))

\* What the loop accounts for is a natural number.
LEMMA TotalFacts ==
    ASSUME NEW a \in Progress, NEW u \in Units
    PROVE  /\ Count(a.out)[u] \in Nat /\ Count(a.cache)[u] \in Nat /\ Stored(a.rest, u) \in Nat
           /\ Total(a, u) = Count(a.out)[u] + (Count(a.cache)[u] + Stored(a.rest, u))
<1>1. a.out \in Seq(Records) /\ a.cache \in Seq(Records) /\ a.rest \in Seq(Events)
  BY DEF Progress
<1>2. Count(a.out) \in [Units -> Nat] /\ Count(a.cache) \in [Units -> Nat]
  BY <1>1, CountType
<1> QED
  BY <1>1, <1>2, StoredType DEF Total

\* Bytes for the caller and for the cache, which is empty while there is room.
LEMMA ConsumeFacts ==
    ASSUME NEW a \in Progress, a.cache = <<>>, NEW bytes \in Seq(Records), NEW b, b = Consume(a, bytes)
    PROVE  /\ b \in Progress /\ b.rest = a.rest
           /\ b.room > 0 => b.cache = <<>>
           /\ Len(bytes) <= a.room => b.cache = <<>>
           /\ \A u \in Units : Count(b.out)[u] + Count(b.cache)[u] = Count(a.out)[u] + Count(bytes)[u]
<1> DEFINE n == Least(a.room, Len(bytes))
           taken == SubSeq(bytes, 1, n)
           over == SubSeq(bytes, n + 1, Len(bytes))
           out == a.out \o taken
<1>1. a.room \in Nat /\ a.out \in Seq(Records) /\ Len(bytes) \in Nat
  BY LenProperties DEF Progress
<1>2. n \in 0 .. Len(bytes) /\ n <= a.room /\ a.room - n \in Nat
  BY <1>1 DEF Least
<1>3. b = [a EXCEPT !.room = a.room - n, !.out = out, !.cache = over]
  BY DEF Consume
<1>4. a.room - n > 0 \/ Len(bytes) <= a.room => n = Len(bytes)
  BY <1>1 DEF Least
<1> HIDE DEF n
<1>5. taken \in Seq(Records) /\ over \in Seq(Records)
  <2>1. \A i \in 1 .. Len(bytes) : bytes[i] \in Records
    BY ElementOfSeq
  <2>2. \A i \in 1 .. n : bytes[i] \in Records
    BY <1>1, <1>2, <2>1
  <2>3. \A i \in n + 1 .. Len(bytes) : bytes[i] \in Records
    BY <1>1, <1>2, <2>1
  <2>4. n \in Int /\ n + 1 \in Int /\ Len(bytes) \in Int
    BY <1>1, <1>2
  <2>5. taken \in Seq(Records)
    BY <2>2, <2>4, SubSeqProperties
  <2>6. over \in Seq(Records)
    BY <2>3, <2>4, SubSeqProperties
  <2> QED
    BY <2>5, <2>6
<1>6. \A u \in Units : Count(bytes)[u] = Count(taken)[u] + Count(over)[u]
  BY <1>2, CountSplit
<1>7. n = Len(bytes) => over = <<>>
  <2>1. Len(bytes) < Len(bytes) + 1 /\ Len(bytes) + 1 \in Int /\ Len(bytes) \in Int
    BY <1>1
  <2> QED
    BY <2>1, SubSeqEmpty
<1> HIDE DEF taken, over
<1>8. out \in Seq(Records) /\ \A u \in Units : Count(out)[u] = Count(a.out)[u] + Count(taken)[u]
  BY <1>1, <1>5, ConcatProperties, CountConcat
<1> HIDE DEF out
<1>9. /\ b \in Progress /\ b.room = a.room - n /\ b.out = out /\ b.cache = over /\ b.rest = a.rest
  BY <1>2, <1>3, <1>5, <1>8 DEF Progress
<1>10. ASSUME NEW u \in Units
       PROVE  Count(b.out)[u] + Count(b.cache)[u] = Count(a.out)[u] + Count(bytes)[u]
  <2>1. /\ Count(a.out) \in [Units -> Nat] /\ Count(taken) \in [Units -> Nat]
        /\ Count(over) \in [Units -> Nat]
    BY <1>1, <1>5, CountType
  <2>2. Count(a.out)[u] \in Nat /\ Count(taken)[u] \in Nat /\ Count(over)[u] \in Nat
    BY <2>1
  <2> QED
    BY <1>6, <1>8, <1>9, <2>2
<1> QED
  BY <1>4, <1>7, <1>9, <1>10

\* One event of the storage: it is given, cached or left.
LEMMA GetCharFacts ==
    ASSUME NEW a \in Progress, a.room > 0 => a.cache = <<>>, NEW e \in Events,
           NEW unicode \in BOOLEAN, NEW b, b = GetChar(a, e, unicode)
    PROVE  /\ b \in Progress
           /\ b.room > 0 => b.cache = <<>>
           /\ unicode /\ a.cache = <<>> => b.cache = <<>>
           /\ \A u \in Units : Total(b, u) = Total(a, u) + Pressed(e, u)
<1> DEFINE size == IF unicode THEN 1 ELSE Size(e.key)
           presses == Least(e.rep, (a.room + size - 1) \div size)
           left == IF presses < e.rep THEN <<[e EXCEPT !.rep = @ - presses]>> ELSE <<>>
           bytes == Presses(e, unicode, presses)
           c == Consume(a, bytes)
<1>1. a.room \in Nat /\ a.rest \in Seq(Events)
  BY DEF Progress
<1>2. CASE a.room = 0
  <2> DEFINE rest == Append(a.rest, e)
  <2>1. b = [a EXCEPT !.rest = rest]
    BY <1>2 DEF GetChar
  <2>2. rest \in Seq(Events) /\ \A u \in Units : Stored(rest, u) = Stored(a.rest, u) + Pressed(e, u)
    BY <1>1, AppendProperties, StoredAppend
  <2> HIDE DEF rest
  <2>3. b \in Progress /\ b.room = 0 /\ b.out = a.out /\ b.cache = a.cache /\ b.rest = rest
    BY <1>2, <2>1, <2>2 DEF Progress
  <2>4. ASSUME NEW u \in Units PROVE Total(b, u) = Total(a, u) + Pressed(e, u)
    <3>1. /\ Count(a.out)[u] \in Nat /\ Count(a.cache)[u] \in Nat /\ Stored(a.rest, u) \in Nat
          /\ Pressed(e, u) \in Nat
      BY TotalFacts, PressedFacts
    <3>2. Total(b, u) = Count(a.out)[u] + (Count(a.cache)[u] + (Stored(a.rest, u) + Pressed(e, u)))
      BY <2>2, <2>3 DEF Total
    <3>3. Total(a, u) = Count(a.out)[u] + (Count(a.cache)[u] + Stored(a.rest, u))
      BY DEF Total
    <3> QED
      BY <3>1, <3>2, <3>3
  <2> QED
    BY <2>3, <2>4
<1>3. CASE a.room > 0 /\ ~IsDown(e)
  <2>1. b = a
    BY <1>1, <1>3 DEF GetChar
  <2>2. \A u \in Units : Pressed(e, u) = 0
    BY <1>3 DEF Pressed
  <2>3. ASSUME NEW u \in Units PROVE Total(b, u) = Total(a, u) + Pressed(e, u)
    <3>1. Total(a, u) \in Nat
      BY TotalFacts
    <3> QED
      BY <2>1, <2>2, <3>1
  <2> QED
    BY <1>3, <2>1, <2>3
<1>4. CASE a.room > 0 /\ IsDown(e)
  <2>1. b = [c EXCEPT !.rest = @ \o left]
    <3>1. a.room # 0 /\ ~(a.room > 0 /\ ~IsDown(e))
      BY <1>1, <1>4
    <3> QED
      BY <1>4, <3>1, Zenon DEF GetChar
  <2>2. e.rep \in Nat /\ size \in {1, 2} /\ (unicode => size = 1)
    BY UnitFacts DEF Events
  <2>3. presses \in Nat /\ presses <= e.rep /\ (unicode => presses <= a.room)
    <3>1. CASE size = 1
      <4>1. (a.room + size - 1) \div size = a.room
        BY <1>1, <3>1
      <4> HIDE DEF size
      <4> QED
        BY <1>1, <2>2, <4>1 DEF Least
    <3>2. CASE size = 2
      <4>1. (a.room + size - 1) \div size \in Nat
        BY <1>1, <3>2
      <4> HIDE DEF size
      <4> QED
        BY <1>1, <2>2, <3>2, <4>1 DEF Least
    <3> QED
      BY <2>2, <3>1, <3>2
  <2> HIDE DEF size, presses
  <2>4. /\ bytes \in Seq(Records) /\ (unicode => Len(bytes) = presses)
        /\ \A u \in Units : Count(bytes)[u] = IF e.key = u[1] THEN presses ELSE 0
    <3>1. Typed(e, unicode, presses, bytes)
      BY <2>3, PressesFacts
    <3> QED
      BY <1>4, <3>1 DEF Typed
  <2> HIDE DEF bytes
  <2>5. a.cache = <<>>
    BY <1>4
  <2>6. /\ c \in Progress /\ c.rest = a.rest
        /\ c.room > 0 => c.cache = <<>>
        /\ Len(bytes) <= a.room => c.cache = <<>>
        /\ \A u \in Units : Count(c.out)[u] + Count(c.cache)[u] = Count(a.out)[u] + Count(bytes)[u]
    BY <2>4, <2>5, ConsumeFacts
  <2> HIDE DEF c
  <2>7. /\ left \in Seq(Events)
        /\ \A u \in Units : Stored(left, u) = IF e.key = u[1] THEN e.rep - presses ELSE 0
    <3>1. CASE presses < e.rep
      <4> DEFINE e2 == [e EXCEPT !.rep = e.rep - presses]
      <4>1. /\ e2 \in Events
            /\ \A u \in Units : Pressed(e2, u) = IF e.key = u[1] THEN e.rep - presses ELSE 0
        BY <1>4, <2>2, <2>3, <3>1 DEF Events, Pressed, IsDown
      <4>2. left = <<e2>>
        BY <3>1
      <4> HIDE DEF e2, left
      <4>3. <<e2>> \in Seq(Events) /\ \A u \in Units : Stored(<<e2>>, u) = Pressed(e2, u)
        BY <4>1, StoredOne
      <4> QED
        BY <4>1, <4>2, <4>3
    <3>2. CASE ~(presses < e.rep)
      <4>1. left = <<>> /\ e.rep - presses = 0
        BY <2>2, <2>3, <3>2
      <4> HIDE DEF left
      <4>2. <<>> \in Seq(Events)
        BY EmptySeq
      <4> QED
        BY <4>1, <4>2, StoredEmpty
    <3> QED
      BY <3>1, <3>2
  <2> HIDE DEF left
  <2> DEFINE rest == c.rest \o left
  <2>8. rest \in Seq(Events) /\ \A u \in Units : Stored(rest, u) = Stored(a.rest, u) + Stored(left, u)
    BY <1>1, <2>6, <2>7, ConcatProperties, StoredConcat
  <2>9. b = [c EXCEPT !.rest = rest]
    BY <2>1
  <2> HIDE DEF rest
  <2>10. b \in Progress /\ b.room = c.room /\ b.out = c.out /\ b.cache = c.cache /\ b.rest = rest
    BY <2>6, <2>8, <2>9 DEF Progress
  <2>11. unicode => b.cache = <<>>
    BY <1>1, <2>3, <2>4, <2>6, <2>10
  <2>12. ASSUME NEW u \in Units PROVE Total(b, u) = Total(a, u) + Pressed(e, u)
    <3>1. Pressed(e, u) = IF e.key = u[1] THEN e.rep ELSE 0
      BY <1>4 DEF Pressed
    <3>2. Pressed(e, u) = Count(bytes)[u] + Stored(left, u)
      BY <2>2, <2>3, <2>4, <2>7, <3>1
    <3>3. /\ Count(a.out)[u] \in Nat /\ Stored(a.rest, u) \in Nat
          /\ Count(c.out)[u] \in Nat /\ Count(c.cache)[u] \in Nat
      BY <2>6, TotalFacts
    <3>4. Count(bytes)[u] \in Nat /\ Stored(left, u) \in Nat
      BY <2>4, <2>7, <2>3, StoredType
    <3>5. Total(b, u) = Count(c.out)[u] + (Count(c.cache)[u] + (Stored(a.rest, u) + Stored(left, u)))
      BY <2>8, <2>10 DEF Total
    <3>6. Total(a, u) = Count(a.out)[u] + (0 + Stored(a.rest, u))
      BY <2>5, CountEmpty DEF Total
    <3>7. Count(c.out)[u] + Count(c.cache)[u] = Count(a.out)[u] + Count(bytes)[u]
      BY <2>6
    <3> DEFINE given == Count(a.out)[u]
               now == Count(c.out)[u]
               kept == Count(c.cache)[u]
               held == Stored(a.rest, u)
               typed == Count(bytes)[u]
               more == Stored(left, u)
    <3>8. /\ Pressed(e, u) = typed + more /\ Total(b, u) = now + (kept + (held + more))
          /\ Total(a, u) = given + (0 + held) /\ now + kept = given + typed
      BY <3>2, <3>5, <3>6, <3>7, Zenon
    <3>9. given \in Nat /\ now \in Nat /\ kept \in Nat /\ held \in Nat /\ typed \in Nat /\ more \in Nat
      BY <3>3, <3>4, Zenon
    <3> HIDE DEF given, now, kept, held, typed, more
    <3> QED
      BY <3>8, <3>9
  <2> QED
    BY <2>6, <2>10, <2>11, <2>12
<1> QED
  BY <1>1, <1>2, <1>3, <1>4

\* What the loop has after k events of the storage.
CharsRead(m, r, k, a) ==
    /\ a \in Progress
    /\ a.room > 0 => a.cache = <<>>
    /\ r.unicode /\ m.text = <<>> => a.cache = <<>>
    /\ k = 0 => a.rest = <<>>
    /\ \A u \in Units : Total(a, u) = Count(m.text)[u] + Stored(SubSeq(m.storage, 1, k), u)

\* The loop of ReadCharacterInput accounts for every byte it has passed.
LEMMA ReadCharsFacts ==
    ASSUME NEW m \in States, NEW r \in ReadRequests
    PROVE  CharsRead(m, r, Len(m.storage), ReadChars(m, r))
<1> DEFINE l == Len(m.storage)
           n == Least(r.amount, Len(m.text))
           first == SubSeq(m.text, 1, n)
           over == SubSeq(m.text, n + 1, Len(m.text))
           base == [room |-> r.amount - n, out |-> first, cache |-> over, rest |-> <<>>]
           Step(k, a) == GetChar(a, m.storage[k], r.unicode)
           Is(f) == f = [k \in 0 .. l |-> IF k = 0 THEN base ELSE Step(k, f[k - 1])]
           V == {a \in Progress : a.room > 0 => a.cache = <<>>}
           step == [x \in (1 .. l) \X V |-> Step(x[1], x[2])]
           f == CHOOSE f : Is(f)
<1>1. /\ m.storage \in Seq(Events) /\ m.text \in Seq(Records) /\ l \in Nat /\ Len(m.text) \in Nat
      /\ \A k \in 1 .. l : m.storage[k] \in Events
      /\ r.amount \in Nat /\ r.unicode \in BOOLEAN
  BY AmountFacts, LenProperties, ElementOfSeq DEF States
<1>2. ReadChars(m, r) = f[l]
  BY DEF ReadChars
<1>3. /\ n \in 0 .. Len(m.text) /\ r.amount - n \in Nat
      /\ r.amount - n > 0 => n = Len(m.text)
      /\ Len(m.text) = 0 => n = Len(m.text)
  BY <1>1 DEF Least
<1> HIDE DEF n
<1>4. first \in Seq(Records) /\ over \in Seq(Records)
  BY <1>1, <1>3, SubSeqProperties, ElementOfSeq
<1>5. \A u \in Units : Count(m.text)[u] = Count(first)[u] + Count(over)[u]
  BY <1>1, <1>3, CountSplit
<1>6. n = Len(m.text) => over = <<>>
  <2>1. Len(m.text) < Len(m.text) + 1 /\ Len(m.text) + 1 \in Int /\ Len(m.text) \in Int
    BY <1>1
  <2> QED
    BY <2>1, SubSeqEmpty
<1>7. m.text = <<>> => over = <<>>
  BY <1>1, <1>3, <1>6, EmptySeq
<1>8. <<>> \in Seq(Events)
  BY EmptySeq
<1> HIDE DEF first, over
<1>9. /\ base \in Progress /\ base.room = r.amount - n /\ base.out = first /\ base.cache = over
      /\ base.rest = <<>>
  BY <1>3, <1>4, <1>8 DEF Progress
<1> HIDE DEF base, l
<1>10. base \in V
  BY <1>3, <1>6, <1>9
<1>11. \A k \in 1 .. l, a \in V : Step(k, a) \in V
  BY <1>1, GetCharFacts
<1> HIDE DEF V, Step
<1>12. step \in [(1 .. l) \X V -> V]
  BY <1>11
<1>13. \A k \in 1 .. l, v \in V : step[<<k, v>>] = Step(k, v)
  OBVIOUS
<1> HIDE DEF step
<1>14. PICK g : Unfolds(g, l, V, base, step)
  BY <1>1, <1>10, <1>12, Recursion, Zenon
<1>15. Is(g)
  <2>1. \A k \in 0 .. l : k # 0 => k \in 1 .. l /\ g[k - 1] \in V
    BY <1>1, <1>14 DEF Unfolds
  <2>2. \A k \in 0 .. l : g[k] = IF k = 0 THEN base ELSE Step(k, g[k - 1])
    BY <1>13, <1>14, <2>1 DEF Unfolds
  <2> QED
    BY <1>14, <2>2 DEF Unfolds
<1>16. Is(f)
  <2> HIDE DEF Is
  <2> QED
    BY <1>15
<1> HIDE DEF f
<1>17. f[0] = base /\ \A k \in 1 .. l : f[k] = Step(k, f[k - 1])
  BY <1>1, <1>16
<1> DEFINE Good == {k \in 0 .. l : CharsRead(m, r, k, f[k])}
<1>18. 0 \in Good
  <2>1. ASSUME NEW u \in Units
        PROVE  Total(base, u) = Count(m.text)[u] + Stored(SubSeq(m.storage, 1, 0), u)
    <3>1. SubSeq(m.storage, 1, 0) = <<>>
      BY SubSeqEmpty
    <3>2. Stored(<<>>, u) = 0
      BY StoredEmpty
    <3>3. Count(first)[u] \in Nat /\ Count(over)[u] \in Nat
      BY <1>9, TotalFacts
    <3>4. Total(base, u) = Count(first)[u] + (Count(over)[u] + 0)
      BY <1>9, <3>2 DEF Total
    <3>5. Stored(SubSeq(m.storage, 1, 0), u) = 0
      BY <3>1, <3>2
    <3>6. Count(m.text)[u] = Count(first)[u] + Count(over)[u]
      BY <1>5
    <3> QED
      BY <3>3, <3>4, <3>5, <3>6
  <2>2. CharsRead(m, r, 0, base)
    BY <1>3, <1>6, <1>7, <1>9, <2>1 DEF CharsRead
  <2> QED
    BY <1>1, <1>17, <2>2
<1>19. ASSUME NEW k \in 0 .. l, k < l, k \in Good PROVE k + 1 \in Good
  <2>1. /\ k + 1 \in 1 .. l /\ (k + 1) - 1 = k /\ k + 1 \in 0 .. l /\ k + 1 # 0
        /\ m.storage[k + 1] \in Events
    BY <1>1, <1>19
  <2> DEFINE a == f[k]
             e == m.storage[k + 1]
             b == f[k + 1]
  <2>2. b = GetChar(a, e, r.unicode)
    BY <1>17, <2>1 DEF Step
  <2>3. CharsRead(m, r, k, a)
    BY <1>19
  <2> HIDE DEF a, b
  <2>4. /\ a \in Progress /\ (a.room > 0 => a.cache = <<>>)
        /\ r.unicode /\ m.text = <<>> => a.cache = <<>>
        /\ \A u \in Units : Total(a, u) = Count(m.text)[u] + Stored(SubSeq(m.storage, 1, k), u)
    BY <2>3 DEF CharsRead
  <2>5. /\ b \in Progress
        /\ b.room > 0 => b.cache = <<>>
        /\ r.unicode /\ a.cache = <<>> => b.cache = <<>>
        /\ \A u \in Units : Total(b, u) = Total(a, u) + Pressed(e, u)
    BY <1>1, <2>1, <2>2, <2>4, GetCharFacts
  <2>6. ASSUME NEW u \in Units
        PROVE  Total(b, u) = Count(m.text)[u] + Stored(SubSeq(m.storage, 1, k + 1), u)
    <3>1. Stored(SubSeq(m.storage, 1, k + 1), u) = Stored(SubSeq(m.storage, 1, k), u) + Pressed(e, u)
      BY <1>1, <1>19, StoredNext DEF l
    <3>2. Count(m.text)[u] \in Nat /\ Pressed(e, u) \in Nat
      BY <1>1, <2>1, CountType, PressedFacts
    <3>3. Stored(SubSeq(m.storage, 1, k), u) \in Nat
      BY <1>1, <1>19, StoredSplit, StoredType DEF l
    <3>4. Total(b, u) = (Count(m.text)[u] + Stored(SubSeq(m.storage, 1, k), u)) + Pressed(e, u)
      BY <2>4, <2>5
    <3> DEFINE x == Count(m.text)[u]
               y == Stored(SubSeq(m.storage, 1, k), u)
               z == Pressed(e, u)
               w == Stored(SubSeq(m.storage, 1, k + 1), u)
    <3>5. x \in Nat /\ y \in Nat /\ z \in Nat /\ w = y + z /\ Total(b, u) = (x + y) + z
      BY <3>1, <3>2, <3>3, <3>4
    <3> HIDE DEF x, y, z, w
    <3>6. Total(b, u) = x + w
      BY <3>5
    <3> QED
      BY <3>6 DEF x, w
  <2>7. CharsRead(m, r, k + 1, b)
    BY <2>1, <2>4, <2>5, <2>6 DEF CharsRead
  <2> QED
    BY <2>1, <2>7 DEF b
<1>20. l \in Good
  <2> HIDE DEF Good
  <2>1. \A k \in 0 .. l : k \in Good
    BY <1>1, <1>18, <1>19, UpTo
  <2> QED
    BY <1>1, <2>1
<1> QED
  BY <1>2, <1>20 DEF l

\* ReadCharacterInput keeps what Answers says.
LEMMA ReadCharsInFacts ==
    ASSUME NEW m \in States, Cached(m), NEW r \in ReadRequests, r.kind = "raw",
           m.mode = IF r.unicode THEN "StringW" ELSE "StringA"
    PROVE  Answers(m, r, ReadCharsIn(m, r))
<1> DEFINE a == ReadChars(m, r)
           md == IF a.room = 0 THEN m.mode ELSE "InputEventsW"
           set == m.hInputEvent /\ (a.rest # <<>> \/ m.storage = <<>>)
           owe == Minus(m.owed, Count(a.out))
           t == ReadCharsIn(m, r).state
<1>1. /\ m.storage \in Seq(Events) /\ m.events \in Seq(Records) /\ m.owed \in [Units -> Int]
      /\ m.text \in Seq(Records) /\ m.hInputEvent \in BOOLEAN /\ Len(m.storage) \in Nat
      /\ r.unicode \in BOOLEAN /\ m.mode \in Modes
  BY AmountFacts, LenProperties DEF States
<1>2. CharsRead(m, r, Len(m.storage), a)
  BY ReadCharsFacts
<1>3. t = [m EXCEPT !.storage = a.rest, !.text = a.cache, !.mode = md, !.hInputEvent = set, !.owed = owe]
  BY DEF ReadCharsIn, ReadCharsLeave
<1> HIDE DEF a
<1>4. m.events = <<>> /\ (r.unicode => m.text = <<>>)
  BY <1>1 DEF Cached
<1>5. /\ a \in Progress /\ a.room \in Nat /\ a.rest \in Seq(Events) /\ a.cache \in Seq(Records)
      /\ a.out \in Seq(Records)
      /\ a.room > 0 => a.cache = <<>>
      /\ r.unicode => a.cache = <<>>
      /\ m.storage = <<>> => a.rest = <<>>
  <2>1. m.storage = <<>> => Len(m.storage) = 0
    BY <1>1, EmptySeq
  <2> QED
    BY <1>2, <1>4, <2>1 DEF CharsRead, Progress
<1>6. \A u \in Units : Count(a.out)[u] + (Count(a.cache)[u] + Stored(a.rest, u))
                         = Count(m.text)[u] + Stored(m.storage, u)
  <2>1. SubSeq(m.storage, 1, Len(m.storage)) = m.storage
    BY <1>1, SubSeqFull
  <2> QED
    BY <1>2, <2>1 DEF CharsRead, Total
<1>7. /\ owe \in [Units -> Int] /\ \A u \in Units : owe[u] = m.owed[u] - Count(a.out)[u]
  BY <1>1, <1>5, CountInt, MinusType
<1>8. md \in Modes /\ (a.cache # <<>> => md = "StringA")
  <2>1. "InputEventsW" \in Modes
    BY DEF Modes
  <2> QED
    BY <1>1, <1>5, <2>1
<1>9. set \in BOOLEAN /\ (a.rest # <<>> => (set <=> m.hInputEvent))
  BY <1>1
<1> HIDE DEF md, set, owe, t
<1>10. t \in States
  BY <1>3, <1>5, <1>7, <1>8, <1>9 DEF States
<1>11. /\ t.storage = a.rest /\ t.text = a.cache /\ t.mode = md /\ t.hInputEvent = set /\ t.owed = owe
       /\ t.events = m.events
  BY <1>3 DEF States
<1>12. SameWaits(m, t)
  BY <1>3 DEF States, SameWaits
<1>13. Cached(t)
  BY <1>4, <1>8, <1>11 DEF Cached
<1>14. Signalled(m) => Signalled(t)
  BY <1>5, <1>9, <1>11 DEF Signalled
<1>15. ASSUME Conserved(m), NEW u \in Units PROVE t.owed[u] = Contents(t, u)
  <2> DEFINE o == Count(a.out)[u]
             c == Count(a.cache)[u]
             q == Stored(a.rest, u)
             w == Count(m.text)[u]
             s == Stored(m.storage, u)
  <2>1. o \in Nat /\ c \in Nat /\ q \in Nat
    BY <1>5, TotalFacts
  <2>2. w \in Nat /\ s \in Nat /\ Count(m.events)[u] = 0
    BY <1>1, <1>4, CountType, StoredType, CountEmpty
  <2>3. o + (c + q) = w + s
    BY <1>6
  <2>4. m.owed[u] = s + (w + 0)
    BY <1>15, <2>2 DEF Conserved, Contents
  <2>5. t.owed[u] = m.owed[u] - o
    BY <1>7, <1>11
  <2>6. Contents(t, u) = q + (c + 0)
    BY <1>11, <2>2 DEF Contents
  <2> HIDE DEF o, c, q, w, s
  <2> QED
    BY <2>1, <2>2, <2>3, <2>4, <2>5, <2>6
<1>16. Conserved(m) => Conserved(t)
  BY <1>15 DEF Conserved
<1> QED
  BY <1>10, <1>12, <1>13, <1>14, <1>16 DEF Answers, t

\* Two steps that leave the waits alone make one.
LEMMA SameWaitsTransitive ==
    ASSUME NEW s, NEW t, NEW u, SameWaits(s, t), SameWaits(t, u)
    PROVE  SameWaits(s, u)
  BY DEF SameWaits

\* What a read does to the buffer, of either kind.
LEMMA DoReadFacts ==
    ASSUME NEW s \in States, Cached(s), NEW r \in ReadRequests
    PROVE  Answers(s, r, DoRead(s, r))
<1>1. r.kind \in {"direct", "raw"} /\ r.unicode \in BOOLEAN
  BY AmountFacts
<1>2. CASE r.kind = "direct"
  <2> DEFINE md == IF r.unicode THEN "InputEventsW" ELSE "InputEventsA"
             m == SwitchReadingMode(s, md)
  <2>1. md \in Modes
    BY DEF Modes
  <2>2. DoRead(s, r) = ReadIn(m, r)
    BY <1>2 DEF DoRead, Read
  <2> HIDE DEF md
  <2>3. /\ m \in States /\ SameWaits(s, m) /\ Cached(m) /\ m.mode = md
        /\ m.storage = s.storage /\ m.hInputEvent = s.hInputEvent
        /\ s.text = <<>> /\ s.events = <<>> => m.text = <<>> /\ m.events = <<>>
        /\ Conserved(s) => Conserved(m)
    BY <2>1, SwitchFacts
  <2> HIDE DEF m
  <2>4. Answers(m, r, ReadIn(m, r))
    BY <2>3, ReadInFacts DEF md
  <2> QED
    BY <2>2, <2>3, <2>4, SameWaitsTransitive DEF Answers, Signalled
<1>3. CASE r.kind = "raw"
  <2> DEFINE md == IF r.unicode THEN "StringW" ELSE "StringA"
             m == SwitchReadingMode(s, md)
  <2>1. md \in Modes
    BY DEF Modes
  <2>2. DoRead(s, r) = ReadCharsIn(m, r)
    BY <1>3 DEF DoRead, ReadCharacterInput
  <2> HIDE DEF md
  <2>3. /\ m \in States /\ SameWaits(s, m) /\ Cached(m) /\ m.mode = md
        /\ m.storage = s.storage /\ m.hInputEvent = s.hInputEvent
        /\ Conserved(s) => Conserved(m)
    BY <2>1, SwitchFacts
  <2> HIDE DEF m
  <2>4. Answers(m, r, ReadCharsIn(m, r))
    BY <1>3, <2>3, ReadCharsInFacts DEF md
  <2> QED
    BY <1>3, <2>2, <2>3, <2>4, SameWaitsTransitive DEF Answers, Signalled
<1> QED
  BY <1>1, <1>2, <1>3

=============================================================================

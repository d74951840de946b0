------------------------- MODULE ConsoleInputProofs -------------------------
(***************************************************************************)
(* The input buffer and its waiting calls for every set of processes,      *)
(* threads, handles and keys, and for reads of every size.  The operators  *)
(* of ConsoleInput map states to states, so most lemmas say what one of    *)
(* them keeps (Follows).  That a closed handle leaves no read behind needs *)
(* the counts of the handles to agree with the queues, that the queues     *)
(* agree needs every block to be in exactly two of them, and that nothing  *)
(* is lost needs the caches to belong to the reading mode: the invariant   *)
(* is all of them together.                                                *)
(***************************************************************************)
EXTENDS InputBufferProofs

-----------------------------------------------------------------------------
(* Ending waits, and writing. *)

Sound(s) == s \in States /\ Waits(s) /\ Attached(s) /\ Blocked(s) /\ Cached(s)

\* A state after s that keeps what s has.
Follows(s, t) ==
    /\ Sound(t)
    /\ Signalled(s) => Signalled(t)
    /\ Conserved(s) => Conserved(t)

\* Two steps that follow make one.
LEMMA FollowsTransitive ==
    ASSUME NEW s, NEW t, NEW u, Follows(s, t), Follows(t, u)
    PROVE  Follows(s, u)
  BY DEF Follows

\* Only the empty queue has no members.
LEMMA EmptyRange ==
    ASSUME NEW C, NEW q \in Seq(C)
    PROVE  Range(q) = {} <=> q = <<>>
<1>1. q \in Seq(C) /\ DOMAIN q = 1 .. Len(q) /\ Len(q) \in Nat
  BY LenProperties
<1>2. ASSUME q # <<>> PROVE Range(q) # {}
  <2>1. Len(q) \in Nat \ {0}
    BY <1>2, EmptySeq
  <2>2. 1 \in DOMAIN q
    BY <1>1, <2>1
  <2> QED
    BY <2>2 DEF Range
<1>3. Range(<<>>) = {}
  BY DEF Range
<1> QED
  BY <1>2, <1>3

\* What is said of the buffer depends on the buffer only.
LEMMA SameBufferKeeps ==
    ASSUME NEW s, NEW t, SameBuffer(s, t)
    PROVE  /\ Cached(s) <=> Cached(t)
           /\ Signalled(s) <=> Signalled(t)
           /\ Conserved(s) <=> Conserved(t)
  BY DEF SameBuffer, Cached, Signalled, Conserved, Contents

\* Calls that end.
LEMMA CompleteKeeps ==
    ASSUME NEW s, Sound(s), NEW cs \in SUBSET Clients
    PROVE  Follows(s, Complete(s, cs))
<1> DEFINE t == Complete(s, cs)
<1>1. s \in States /\ Waits(s) /\ Attached(s) /\ Blocked(s) /\ Cached(s)
  BY DEF Sound
<1>2. /\ t \in States /\ Waits(t) /\ SameBuffer(s, t)
      /\ t.flags = s.flags /\ t.connected = s.connected /\ t.open = s.open
      /\ Attached(s) => Attached(t)
      /\ Range(t.outputQueue) = Range(s.outputQueue) \ cs
  BY <1>1, CompleteFacts
<1> HIDE DEF t
<1>3. Blocked(t)
  <2>1. t.outputQueue \in Seq(Clients) /\ s.outputQueue \in Seq(Clients)
    BY <1>1, <1>2 DEF States
  <2>2. t.outputQueue # <<>> => s.outputQueue # <<>>
    BY <1>2, <2>1, EmptyRange
  <2> QED
    BY <1>1, <1>2, <2>2 DEF Blocked
<1>4. Follows(s, t)
  BY <1>1, <1>2, <1>3, SameBufferKeeps DEF Follows, Sound
<1> QED
  BY <1>4 DEF t

\* Notifying the waiters of a queue.
LEMMA NotifyAllKeeps ==
    ASSUME NEW s, Sound(s), NEW queue \in Seq(Clients), NEW reason
    PROVE  Follows(s, NotifyAll(s, queue, reason))
<1>1. Range(queue) \subseteq Clients
  BY LenProperties, ElementOfSeq DEF Range
<1>2. {c \in Range(queue) : Notify(s, c, reason)} \in SUBSET Clients
  BY <1>1
<1> DEFINE cs == {c \in Range(queue) : Notify(s, c, reason)}
<1> HIDE DEF cs
<1>3. Follows(s, Complete(s, cs))
  BY <1>2, CompleteKeeps DEF cs
<1> QED
  BY <1>3 DEF NotifyAll, cs

\* A read that is answered or not leaves a sound state.
LEMMA AnswerKeeps ==
    ASSUME NEW s, Sound(s), NEW r \in ReadRequests
    PROVE  /\ Sound(DoRead(s, r).state)
           /\ SameWaits(s, DoRead(s, r).state)
           /\ r.unicode \/ ~r.peek => Follows(s, DoRead(s, r).state)
           /\ Signalled(s) => Signalled(DoRead(s, r).state)
<1> DEFINE t == DoRead(s, r).state
<1>1. s \in States /\ Waits(s) /\ Attached(s) /\ Blocked(s) /\ Cached(s)
  BY DEF Sound
<1>2. Answers(s, r, DoRead(s, r))
  BY <1>1, DoReadFacts
<1>3. /\ t \in States /\ SameWaits(s, t) /\ Cached(t) /\ (Signalled(s) => Signalled(t))
      /\ Conserved(s) /\ (r.unicode \/ ~r.peek) => Conserved(t)
  BY <1>2 DEF Answers
<1> HIDE DEF t
<1>4. Waits(t) /\ Attached(t) /\ Blocked(t)
  BY <1>1, <1>3, WaitsFrame
<1>5. Sound(t)
  BY <1>3, <1>4 DEF Sound
<1> QED
  BY <1>3, <1>5 DEF Follows, t

\* A waiting read that is tried again.
LEMMA ResumeKeeps ==
    ASSUME NEW s, Sound(s), NEW c \in Clients, Reads(s, c)
    PROVE  Follows(s, Resume(s, c))
<1> DEFINE r == s.request[c]
           t == DoRead(s, r).state
<1>1. r \in ReadRequests /\ ~r.peek
  <2>1. r \in Requests /\ r.kind \in {"direct", "raw"}
    BY DEF Sound, States, Reads
  <2> QED
    BY <2>1, RequestFacts
<1>2. Follows(s, t)
  BY <1>1, AnswerKeeps
<1>3. Follows(t, Complete(t, {c}))
  <2>1. Sound(t) /\ {c} \in SUBSET Clients
    BY <1>2 DEF Follows
  <2> HIDE DEF t
  <2> QED
    BY <2>1, CompleteKeeps
<1>4. Resume(s, c) = t \/ Resume(s, c) = Complete(t, {c})
  BY DEF Resume
<1> HIDE DEF t
<1>5. Follows(s, Complete(t, {c}))
  BY <1>2, <1>3, FollowsTransitive
<1> QED
  BY <1>2, <1>4, <1>5

\* The first reader woken, whether or not it gets its data.
LEMMA WakeUpReadersKeeps ==
    ASSUME NEW s, Sound(s)
    PROVE  Follows(s, WakeUpReaders(s))
<1>1. s.inputQueue \in Seq(Clients) /\ Range(s.inputQueue) = {c \in Clients : Reads(s, c)}
  BY DEF Sound, States, Waits
<1>2. CASE s.inputQueue = <<>>
  BY <1>2 DEF WakeUpReaders, Follows
<1>3. CASE s.inputQueue # <<>>
  <2>1. Head(s.inputQueue) \in Range(s.inputQueue)
    <3>1. Len(s.inputQueue) \in Nat \ {0} /\ DOMAIN s.inputQueue = 1 .. Len(s.inputQueue)
      BY <1>1, <1>3, EmptySeq, LenProperties
    <3>2. 1 \in DOMAIN s.inputQueue /\ Head(s.inputQueue) = s.inputQueue[1]
      BY <1>1, <3>1
    <3> QED
      BY <3>2 DEF Range
  <2>2. Head(s.inputQueue) \in Clients /\ Reads(s, Head(s.inputQueue))
    BY <1>1, <2>1
  <2>3. Follows(s, Resume(s, Head(s.inputQueue)))
    BY <2>2, ResumeKeeps
  <2> QED
    BY <1>3, <2>3 DEF WakeUpReaders
<1> QED
  BY <1>2, <1>3

\* A reason to block writes that is gone: they all go on with the last one.
LEMMA UnblockFacts ==
    ASSUME NEW s, Sound(s), NEW reason, NEW t, t = UnblockWriteConsole(s, reason)
    PROVE  Sound(t) /\ SameBuffer(s, t)
<1> DEFINE u == [s EXCEPT !.flags = @ \ {reason}]
           cs == {c \in Range(u.outputQueue) : Notify(u, c, "NoReason")}
<1>1. s \in States /\ Waits(s) /\ Attached(s) /\ Blocked(s) /\ Cached(s)
  BY DEF Sound
<1>2. t = IF u.flags = {} THEN Complete(u, cs) ELSE u
  BY DEF UnblockWriteConsole, NotifyAll
<1>3. /\ u \in States /\ u.request = s.request /\ u.inputQueue = s.inputQueue
      /\ u.outputQueue = s.outputQueue /\ u.processQueue = s.processQueue
      /\ u.readCount = s.readCount /\ u.connected = s.connected /\ u.open = s.open
  BY <1>1 DEF States
<1>4. SameBuffer(s, u)
  BY <1>1 DEF States, SameBuffer
<1> HIDE DEF u
<1>5. \A c \in Clients : Reads(u, c) <=> Reads(s, c)
  BY <1>3 DEF Reads
<1>6. Waits(u)
  <2>1. \A h \in Handles : Through(u, h) = Through(s, h)
    BY <1>3, <1>5 DEF Through
  <2> QED
    BY <1>1, <1>3, <1>5, <2>1 DEF Waits
<1>7. Attached(u)
  BY <1>1, <1>3, <1>5 DEF Attached
<1>8. CASE u.flags # {}
  <2>1. t = u /\ Blocked(t)
    BY <1>2, <1>8 DEF Blocked
  <2> QED
    BY <1>1, <1>3, <1>4, <1>6, <1>7, <2>1, SameBufferKeeps DEF Sound
<1>9. CASE u.flags = {}
  <2>1. Range(u.outputQueue) = {c \in Clients : u.request[c].kind = "write"}
    BY <1>6 DEF Waits
  <2>2. cs = Range(u.outputQueue) /\ cs \in SUBSET Clients
    BY <1>9, <2>1 DEF Notify, WriteNotify
  <2> HIDE DEF cs
  <2>3. t = Complete(u, cs)
    BY <1>2, <1>9
  <2>4. /\ t \in States /\ Waits(t) /\ SameBuffer(u, t)
        /\ Attached(u) => Attached(t)
        /\ Range(t.outputQueue) = Range(u.outputQueue) \ cs
    BY <1>3, <1>6, <2>2, <2>3, CompleteFacts
  <2>5. Range(t.outputQueue) = {} /\ t.outputQueue \in Seq(Clients)
    BY <2>2, <2>4 DEF States
  <2>6. Blocked(t)
    BY <2>5, EmptyRange DEF Blocked
  <2>7. SameBuffer(s, t)
    BY <1>4, <2>4 DEF SameBuffer
  <2> QED
    BY <1>1, <1>7, <2>4, <2>6, <2>7, SameBufferKeeps DEF Sound
<1> QED
  BY <1>8, <1>9

\* A state with another storage and other debts.
Rebuffer(s, q, h, o) == [s EXCEPT !.storage = q, !.hInputEvent = h, !.owed = o]
Rebuffered(s, q, h, o, t) ==
    /\ Sound(t) /\ t.storage = q /\ t.owed = o /\ t.hInputEvent = h
    /\ t.text = s.text /\ t.events = s.events
    /\ t.flags = s.flags /\ t.inputQueue = s.inputQueue /\ t.processQueue = s.processQueue
    /\ t.line = s.line /\ t.vt = s.vt

\* A new storage, event and debt leave everything else as it is.
LEMMA BufferChange ==
    ASSUME NEW s, Sound(s), NEW q \in Seq(Events), NEW o \in [Units -> Int], NEW h \in BOOLEAN
    PROVE  Rebuffered(s, q, h, o, Rebuffer(s, q, h, o))
<1> DEFINE t == Rebuffer(s, q, h, o)
<1>1. s \in States /\ Waits(s) /\ Attached(s) /\ Blocked(s) /\ Cached(s)
  BY DEF Sound
<1>2. /\ t \in States /\ t.storage = q /\ t.owed = o /\ t.hInputEvent = h
      /\ t.text = s.text /\ t.events = s.events /\ t.mode = s.mode
      /\ t.flags = s.flags /\ t.inputQueue = s.inputQueue /\ t.processQueue = s.processQueue
      /\ t.line = s.line /\ t.vt = s.vt
  BY <1>1 DEF States, Rebuffer
<1>3. SameWaits(s, t)
  BY <1>1 DEF States, SameWaits, Rebuffer
<1> HIDE DEF t
<1>4. Waits(t) /\ Attached(t) /\ Blocked(t)
  BY <1>1, <1>3, WaitsFrame
<1>5. Cached(t)
  BY <1>1, <1>2 DEF Cached
<1> QED
  BY <1>2, <1>4, <1>5 DEF Sound, Rebuffered, t

\* What writing an event does: what is stored more is owed more.
Written(s, t) ==
    /\ Sound(t) /\ t.hInputEvent = s.hInputEvent /\ t.text = s.text /\ t.events = s.events
    /\ \A u \in Units : Stored(t.storage, u) + s.owed[u] = Stored(s.storage, u) + t.owed[u]

\* The types of the buffer.
LEMMA WrittenTypes ==
    ASSUME NEW s, Sound(s)
    PROVE  /\ s.storage \in Seq(Events) /\ s.owed \in [Units -> Int] /\ s.hInputEvent \in BOOLEAN
           /\ s.text \in Seq(Records) /\ s.events \in Seq(Records)
           /\ \A u \in Units : Stored(s.storage, u) \in Nat /\ s.owed[u] \in Int
<1>1. /\ s.storage \in Seq(Events) /\ s.owed \in [Units -> Int] /\ s.hInputEvent \in BOOLEAN
      /\ s.text \in Seq(Records) /\ s.events \in Seq(Records)
  BY DEF Sound, States
<1> QED
  BY <1>1, StoredType

\* Two writes make one.
LEMMA WrittenTransitive ==
    ASSUME NEW s, NEW t, NEW v, Sound(s), Written(s, t), Written(t, v)
    PROVE  Written(s, v)
<1>1. ASSUME NEW u \in Units
      PROVE  Stored(v.storage, u) + s.owed[u] = Stored(s.storage, u) + v.owed[u]
  <2>1. Sound(t) /\ Sound(v)
    BY DEF Written
  <2>2. /\ Stored(s.storage, u) \in Nat /\ Stored(t.storage, u) \in Nat /\ Stored(v.storage, u) \in Nat
        /\ s.owed[u] \in Int /\ t.owed[u] \in Int /\ v.owed[u] \in Int
    BY <2>1, WrittenTypes
  <2>3. /\ Stored(t.storage, u) + s.owed[u] = Stored(s.storage, u) + t.owed[u]
        /\ Stored(v.storage, u) + t.owed[u] = Stored(t.storage, u) + v.owed[u]
    BY DEF Written
  <2> QED
    BY <2>2, <2>3
<1> QED
  BY <1>1 DEF Written

\* An event that is stored, in whatever way.
LEMMA EventStored ==
    ASSUME NEW s, Sound(s), NEW e \in Events, NEW q \in Seq(Events),
           \A u \in Units : Stored(q, u) = Stored(s.storage, u) + Pressed(e, u),
           NEW t, t = [s EXCEPT !.storage = q, !.owed = Plus(s.owed, Count(Whole(<<e>>)))]
    PROVE  Written(s, t)
<1> DEFINE o == Plus(s.owed, Count(Whole(<<e>>)))
<1>1. /\ s.storage \in Seq(Events) /\ s.owed \in [Units -> Int] /\ s.hInputEvent \in BOOLEAN
      /\ \A u \in Units : Stored(s.storage, u) \in Nat /\ s.owed[u] \in Int
  BY WrittenTypes
<1>2. <<e>> \in Seq(Events)
  OBVIOUS
<1>3. Count(Whole(<<e>>)) \in [Units -> Int]
  BY <1>2, WholeFacts, CountInt
<1>4. o \in [Units -> Int] /\ \A u \in Units : o[u] = s.owed[u] + Pressed(e, u)
  <2>1. o \in [Units -> Int] /\ \A u \in Units : o[u] = s.owed[u] + Count(Whole(<<e>>))[u]
    BY <1>1, <1>3, MinusType
  <2>2. \A u \in Units : Count(Whole(<<e>>))[u] = Pressed(e, u)
    BY StoredOne DEF Stored
  <2> QED
    BY <2>1, <2>2
<1> HIDE DEF o
<1>5. t = Rebuffer(s, q, s.hInputEvent, o)
  BY DEF Sound, States, Rebuffer, o
<1>6. /\ Sound(t) /\ t.storage = q /\ t.owed = o /\ t.hInputEvent = s.hInputEvent
      /\ t.text = s.text /\ t.events = s.events
  <2>1. Rebuffered(s, q, s.hInputEvent, o, t)
    <3>1. s.hInputEvent \in BOOLEAN /\ o \in [Units -> Int]
      BY <1>1, <1>4
    <3> QED
      BY <1>5, <3>1, BufferChange
  <2> QED
    BY <2>1 DEF Rebuffered
<1>7. ASSUME NEW u \in Units
      PROVE  Stored(t.storage, u) + s.owed[u] = Stored(s.storage, u) + t.owed[u]
  <2>1. Stored(s.storage, u) \in Nat /\ s.owed[u] \in Int /\ Pressed(e, u) \in Nat
    BY <1>1, PressedFacts
  <2>2. Stored(t.storage, u) = Stored(s.storage, u) + Pressed(e, u) /\ t.owed[u] = s.owed[u] + Pressed(e, u)
    BY <1>4, <1>6
  <2> QED
    BY <2>1, <2>2
<1> QED
  BY <1>6, <1>7 DEF Written

\* Nothing written.
LEMMA WrittenSame ==
    ASSUME NEW s, Sound(s), NEW t, Sound(t), SameBuffer(s, t)
    PROVE  Written(s, t)
<1>1. ASSUME NEW u \in Units
      PROVE  Stored(t.storage, u) + s.owed[u] = Stored(s.storage, u) + t.owed[u]
  BY WrittenTypes DEF SameBuffer
<1> QED
  BY <1>1 DEF Written, SameBuffer

\* Each event of _WriteBuffer is stored, coalesced or swallowed, and what is
\* stored is what is owed.
LEMMA WriteEventFacts ==
    ASSUME NEW s, Sound(s), NEW e \in Events, NEW single \in BOOLEAN
    PROVE  Written(s, WriteEvent(s, e, single))
<1> DEFINE t == WriteEvent(s, e, single)
           last == Len(s.storage)
           o == Plus(s.owed, Count(Whole(<<e>>)))
<1>1. s.storage \in Seq(Events) /\ s \in States /\ last \in Nat
  BY LenProperties DEF Sound, States
<1>2. CASE IsDown(e) /\ "suspended" \in s.flags
  <2>1. t = UnblockWriteConsole(s, "suspended")
    BY <1>2 DEF WriteEvent
  <2> HIDE DEF t
  <2> QED
    BY <2>1, UnblockFacts, WrittenSame DEF t
<1>3. CASE IsDown(e) /\ s.line /\ e.key = Pause /\ "suspended" \notin s.flags
  <2>1. t = [s EXCEPT !.flags = @ \cup {"suspended"}]
    BY <1>3 DEF WriteEvent
  <2> HIDE DEF t
  <2>2. /\ t \in States /\ t.request = s.request /\ t.inputQueue = s.inputQueue
        /\ t.outputQueue = s.outputQueue /\ t.processQueue = s.processQueue
        /\ t.readCount = s.readCount /\ t.connected = s.connected /\ t.open = s.open
        /\ t.flags # {}
    BY <1>1, <2>1 DEF States
  <2>3. SameBuffer(s, t)
    BY <1>1, <2>1 DEF States, SameBuffer
  <2>4. Waits(t) /\ Attached(t)
    <3>1. \A c \in Clients : Reads(t, c) <=> Reads(s, c)
      BY <2>2 DEF Reads
    <3>2. \A h \in Handles : Through(t, h) = Through(s, h)
      BY <2>2, <3>1 DEF Through
    <3> QED
      BY <2>2, <3>1, <3>2 DEF Sound, Waits, Attached
  <2>5. Sound(t)
    BY <2>2, <2>3, <2>4, SameBufferKeeps DEF Sound, Blocked
  <2>6. Written(s, t)
    BY <2>3, <2>5, WrittenSame
  <2> QED
    BY <2>6 DEF t
<1>4. CASE /\ ~(IsDown(e) /\ "suspended" \in s.flags)
           /\ ~(IsDown(e) /\ s.line /\ e.key = Pause /\ "suspended" \notin s.flags)
  <2> DEFINE x == s.storage[last]
             y == [x EXCEPT !.rep = x.rep + e.rep]
             joined == [s.storage EXCEPT ![last] = y]
             coalesces == ~(s.vt /\ e.type = "key") /\ single /\ last > 0 /\ Coalesces(x, e)
  <2>1. CASE s.vt /\ e.type = "key" /\ ~e.down
    <3>1. t = s
      BY <1>4, <2>1 DEF WriteEvent
    <3> QED
      BY <3>1, WrittenSame DEF SameBuffer
  <2>2. CASE ~coalesces /\ ~(s.vt /\ e.type = "key" /\ ~e.down)
    <3> DEFINE q == Append(s.storage, e)
    <3>1. t = [s EXCEPT !.owed = o, !.storage = q]
      BY <1>1, <1>4, <2>2 DEF WriteEvent, States
    <3>2. q \in Seq(Events) /\ \A u \in Units : Stored(q, u) = Stored(s.storage, u) + Pressed(e, u)
      BY <1>1, AppendProperties, StoredAppend
    <3> HIDE DEF q, t, o
    <3>3. t = [s EXCEPT !.storage = q, !.owed = o]
      BY <1>1, <3>1 DEF States
    <3>4. Written(s, t)
      BY <3>2, <3>3, EventStored DEF o
    <3> QED
      BY <3>4 DEF t
  <2>3. CASE coalesces /\ e.type # "key"
    <3>1. t = [s EXCEPT !.owed = o]
      BY <1>4, <2>3 DEF WriteEvent
    <3> HIDE DEF t, o
    <3>2. t = [s EXCEPT !.storage = s.storage, !.owed = o]
      BY <1>1, <3>1 DEF States
    <3>3. \A u \in Units : Stored(s.storage, u) = Stored(s.storage, u) + Pressed(e, u)
      <4>1. \A u \in Units : Pressed(e, u) = 0 /\ Stored(s.storage, u) \in Nat
        BY <1>1, <2>3, StoredType DEF Pressed, IsDown
      <4> QED
        BY <4>1
    <3>4. Written(s, t)
      BY <1>1, <3>2, <3>3, EventStored DEF o
    <3> QED
      BY <3>4 DEF t
  <2>4. CASE coalesces /\ e.type = "key"
    <3>1. t = [s EXCEPT !.owed = o, !.storage = joined]
      BY <1>4, <2>4 DEF WriteEvent
    <3>2. s.storage # <<>> /\ x \in Events
      BY <1>1, <2>4, EmptySeq, ElementOfSeq
    <3>3. IsDown(x) /\ IsDown(e) /\ x.key = e.key
      BY <2>4 DEF Coalesces
    <3> HIDE DEF x
    <3>4. y \in Events /\ \A u \in Units : Pressed(y, u) = Pressed(x, u) + Pressed(e, u)
      BY <3>2, <3>3 DEF Events, Pressed, IsDown
    <3> HIDE DEF y
    <3>5. /\ joined \in Seq(Events)
          /\ \A u \in Units : Stored(joined, u) + Pressed(x, u) = Stored(s.storage, u) + Pressed(y, u)
      BY <1>1, <3>2, <3>4, StoredLast DEF x
    <3> HIDE DEF joined, t, o
    <3>6. ASSUME NEW u \in Units PROVE Stored(joined, u) = Stored(s.storage, u) + Pressed(e, u)
      <4>1. /\ Stored(joined, u) \in Nat /\ Stored(s.storage, u) \in Nat /\ Pressed(x, u) \in Nat
            /\ Pressed(e, u) \in Nat
        BY <1>1, <3>2, <3>5, StoredType, PressedFacts
      <4> QED
        BY <3>4, <3>5, <4>1
    <3>7. t = [s EXCEPT !.storage = joined, !.owed = o]
      BY <1>1, <3>1 DEF States
    <3>8. Written(s, t)
      BY <3>5, <3>6, <3>7, EventStored DEF o
    <3> QED
      BY <3>8 DEF t
  <2> QED
    BY <2>1, <2>2, <2>3, <2>4
<1> QED
  BY <1>2, <1>3, <1>4

\* Writing conserves the input.
LEMMA WrittenConserves ==
    ASSUME NEW s, Sound(s), NEW t, Written(s, t)
    PROVE  Conserved(s) => Conserved(t)
<1> SUFFICES ASSUME Conserved(s), NEW u \in Units PROVE t.owed[u] = Contents(t, u)
  BY DEF Conserved
<1>1. Sound(t) /\ t.text = s.text /\ t.events = s.events
  BY DEF Written
<1>2. Stored(t.storage, u) + s.owed[u] = Stored(s.storage, u) + t.owed[u]
  BY DEF Written
<1> DEFINE c == Count(s.text)[u] + Count(s.events)[u]
<1>3. s.owed[u] = Stored(s.storage, u) + c
  BY DEF Conserved, Contents
<1>4. Contents(t, u) = Stored(t.storage, u) + c
  BY <1>1 DEF Contents
<1>5. /\ Stored(s.storage, u) \in Nat /\ Stored(t.storage, u) \in Nat /\ t.owed[u] \in Int
      /\ s.text \in Seq(Records) /\ s.events \in Seq(Records)
  BY <1>1, WrittenTypes
<1>6. c \in Nat
  <2>1. Count(s.text)[u] \in Nat /\ Count(s.events)[u] \in Nat
    BY <1>5, CountType
  <2> QED
    BY <2>1
<1> HIDE DEF c
<1> QED
  BY <1>2, <1>3, <1>4, <1>5, <1>6

\* _WriteBuffer stores what is owed.
LEMMA WriteBufferFacts ==
    ASSUME NEW s, Sound(s), NEW es \in Seq(Events), Len(es) \in {1, 2}
    PROVE  Written(s, WriteBuffer(s, es))
<1>1. es[1] \in Events /\ (Len(es) = 2 => es[2] \in Events)
  BY ElementOfSeq
<1>2. CASE Len(es) = 1
  BY <1>1, <1>2, WriteEventFacts DEF WriteBuffer
<1>3. CASE Len(es) = 2
  <2> DEFINE t == WriteEvent(s, es[1], FALSE)
  <2>1. Written(s, t)
    BY <1>1, WriteEventFacts
  <2>2. WriteBuffer(s, es) = WriteEvent(t, es[2], FALSE)
    BY <1>3 DEF WriteBuffer
  <2>3. Sound(t)
    BY <2>1 DEF Written
  <2> HIDE DEF t
  <2>4. Written(t, WriteEvent(t, es[2], FALSE))
    BY <1>1, <1>3, <2>3, WriteEventFacts
  <2> QED
    BY <2>1, <2>2, <2>4, WrittenTransitive
<1> QED
  BY <1>2, <1>3

\* The readers woken after a write, and the event set.
LEMMA WakeUpFacts ==
    ASSUME NEW s, Sound(s), NEW t, Written(s, t), NEW b, b = (s.storage = <<>>)
    PROVE  Follows(s, WakeUpOnExit(t, b))
<1>1. Sound(t) /\ t.hInputEvent = s.hInputEvent /\ (Conserved(s) => Conserved(t))
  BY WrittenConserves DEF Written
<1>2. CASE t.storage = <<>>
  <2>1. WakeUpOnExit(t, b) = t
    BY <1>2 DEF WakeUpOnExit
  <2> QED
    BY <1>1, <1>2, <2>1 DEF Follows, Signalled
<1>3. CASE t.storage # <<>>
  <2> DEFINE h == t.hInputEvent \/ b
             v == Rebuffer(t, t.storage, h, t.owed)
  <2>1. /\ t.storage \in Seq(Events) /\ t.owed \in [Units -> Int] /\ t.hInputEvent \in BOOLEAN
        /\ h \in BOOLEAN /\ t \in States
    BY <1>1, WrittenTypes DEF Sound
  <2>2. WakeUpOnExit(t, b) = WakeUpReaders([t EXCEPT !.hInputEvent = h])
    BY <1>3 DEF WakeUpOnExit
  <2>3. Signalled(s) => h
    BY <1>1 DEF Signalled
  <2> HIDE DEF h
  <2>4. [t EXCEPT !.hInputEvent = h] = v
    BY <2>1 DEF States, Rebuffer
  <2>5. Rebuffered(t, t.storage, h, t.owed, v)
    BY <1>1, <2>1, BufferChange
  <2> HIDE DEF v
  <2>6. Sound(v) /\ v.hInputEvent = h /\ (Conserved(t) => Conserved(v))
    BY <2>5 DEF Rebuffered, Conserved, Contents
  <2>7. Follows(s, v)
    BY <1>1, <2>3, <2>6 DEF Follows, Signalled
  <2>8. Follows(v, WakeUpReaders(v))
    BY <2>6, WakeUpReadersKeeps
  <2>9. Follows(s, WakeUpReaders(v))
    BY <2>7, <2>8, FollowsTransitive
  <2> QED
    BY <2>2, <2>4, <2>9
<1> QED
  BY <1>2, <1>3

\* InputBuffer::Write.
LEMMA WriteKeeps ==
    ASSUME NEW s, Sound(s), NEW es \in Seq(Events), Len(es) \in {1, 2}
    PROVE  Follows(s, Write(s, es))
<1>1. Written(s, WriteBuffer(s, es))
  BY WriteBufferFacts
<1> QED
  BY <1>1, WakeUpFacts DEF Write

\* InputBuffer::Prepend, which empties the storage, writes, and puts the old
\* events back behind the new ones.
LEMMA PrependKeeps ==
    ASSUME NEW s, Sound(s), NEW es \in Seq(Events), Len(es) \in {1, 2}
    PROVE  Follows(s, Prepend(s, es))
<1> DEFINE v == [s EXCEPT !.storage = <<>>]
           w == WriteBuffer(v, es)
           q == w.storage \o s.storage
           t == [w EXCEPT !.storage = q]
<1>1. /\ s.storage \in Seq(Events) /\ s.owed \in [Units -> Int] /\ s.hInputEvent \in BOOLEAN
      /\ s \in States
  BY WrittenTypes DEF Sound
<1>2. <<>> \in Seq(Events)
  BY EmptySeq
<1>3. v = Rebuffer(s, <<>>, s.hInputEvent, s.owed)
  BY <1>1 DEF Rebuffer, States
<1>4. Prepend(s, es) = WakeUpOnExit(t, s.storage = <<>>)
  BY DEF Prepend
<1> HIDE DEF v
<1>5. Rebuffered(s, <<>>, s.hInputEvent, s.owed, v)
  BY <1>1, <1>2, <1>3, BufferChange
<1>6. /\ Sound(v) /\ v.storage = <<>> /\ v.owed = s.owed /\ v.hInputEvent = s.hInputEvent
      /\ v.text = s.text /\ v.events = s.events
  BY <1>5 DEF Rebuffered
<1>7. Written(v, w)
  BY <1>6, WriteBufferFacts
<1> HIDE DEF w
<1>8. /\ Sound(w) /\ w.storage \in Seq(Events) /\ w.owed \in [Units -> Int]
      /\ w.hInputEvent = s.hInputEvent /\ w.text = s.text /\ w.events = s.events /\ w \in States
  BY <1>6, <1>7, WrittenTypes DEF Written, Sound
<1>9. q \in Seq(Events) /\ \A u \in Units : Stored(q, u) = Stored(w.storage, u) + Stored(s.storage, u)
  BY <1>1, <1>8, ConcatProperties, StoredConcat
<1> HIDE DEF q
<1>10. t = Rebuffer(w, q, s.hInputEvent, w.owed)
  BY <1>8 DEF Rebuffer, States
<1> HIDE DEF t
<1>11. Rebuffered(w, q, s.hInputEvent, w.owed, t)
  BY <1>1, <1>8, <1>9, <1>10, BufferChange
<1>12. /\ Sound(t) /\ t.storage = q /\ t.owed = w.owed /\ t.hInputEvent = s.hInputEvent
       /\ t.text = s.text /\ t.events = s.events
  BY <1>8, <1>11 DEF Rebuffered
<1>13. ASSUME NEW u \in Units
       PROVE  Stored(t.storage, u) + s.owed[u] = Stored(s.storage, u) + t.owed[u]
  <2>1. Stored(w.storage, u) + s.owed[u] = 0 + w.owed[u]
    BY <1>6, <1>7, StoredEmpty DEF Written
  <2>2. /\ Stored(w.storage, u) \in Nat /\ Stored(s.storage, u) \in Nat /\ s.owed[u] \in Int
        /\ w.owed[u] \in Int
    BY <1>8, WrittenTypes
  <2>3. Stored(t.storage, u) = Stored(w.storage, u) + Stored(s.storage, u) /\ t.owed[u] = w.owed[u]
    BY <1>9, <1>12
  <2> QED
    BY <2>1, <2>2, <2>3
<1>14. Written(s, t)
  BY <1>12, <1>13 DEF Written
<1> QED
  BY <1>4, <1>14, WakeUpFacts

\* InputBuffer::Flush forgives what it drops.
LEMMA FlushKeeps ==
    ASSUME NEW s, Sound(s)
    PROVE  Follows(s, Flush(s))
<1> DEFINE o == Minus(s.owed, Count(Whole(s.storage)))
           t == Flush(s)
<1>1. /\ s.storage \in Seq(Events) /\ s.owed \in [Units -> Int] /\ s.hInputEvent \in BOOLEAN
      /\ s.text \in Seq(Records) /\ s.events \in Seq(Records)
      /\ \A u \in Units : Stored(s.storage, u) \in Nat /\ s.owed[u] \in Int
  BY WrittenTypes
<1>2. Count(Whole(s.storage)) \in [Units -> Int]
  BY <1>1, WholeFacts, CountInt
<1>3. o \in [Units -> Int] /\ \A u \in Units : o[u] = s.owed[u] - Stored(s.storage, u)
  BY <1>1, <1>2, MinusType DEF Stored
<1>4. <<>> \in Seq(Events)
  BY EmptySeq
<1>5. t = Rebuffer(s, <<>>, FALSE, o)
  BY DEF Flush, Rebuffer
<1> HIDE DEF o, t
<1>6. Rebuffered(s, <<>>, FALSE, o, t)
  BY <1>3, <1>4, <1>5, BufferChange
<1>7. Sound(t) /\ t.storage = <<>> /\ t.owed = o /\ t.text = s.text /\ t.events = s.events
  BY <1>6 DEF Rebuffered
<1>8. ASSUME Conserved(s), NEW u \in Units PROVE t.owed[u] = Contents(t, u)
  <2> DEFINE c == Count(s.text)[u] + Count(s.events)[u]
  <2>1. s.owed[u] = Stored(s.storage, u) + c
    BY <1>8 DEF Conserved, Contents
  <2>2. Contents(t, u) = 0 + c
    BY <1>7, StoredEmpty DEF Contents
  <2>3. t.owed[u] = s.owed[u] - Stored(s.storage, u)
    BY <1>3, <1>7
  <2>4. c \in Nat
    <3>1. Count(s.text)[u] \in Nat /\ Count(s.events)[u] \in Nat
      BY <1>1, CountType
    <3> QED
      BY <3>1
  <2> HIDE DEF c
  <2> QED
    BY <1>1, <2>1, <2>2, <2>3, <2>4
<1> QED
  BY <1>7, <1>8 DEF Follows, Signalled, Conserved, t

-----------------------------------------------------------------------------
(* The calls of the clients, and the handles they use. *)

\* Modes, flags and handles that change.
Moded(s, a, b) == [s EXCEPT !.line = a, !.vt = b]
Flagged(s, F) == [s EXCEPT !.flags = F]
Handled(s, C, O) == [s EXCEPT !.connected = C, !.open = O]

\* Console modes do not matter to what is stored.
LEMMA ModeKeeps ==
    ASSUME NEW s, Sound(s), NEW a \in BOOLEAN, NEW b \in BOOLEAN
    PROVE  Follows(s, Moded(s, a, b))
<1> DEFINE t == Moded(s, a, b)
<1>1. s \in States /\ Waits(s) /\ Attached(s) /\ Blocked(s) /\ Cached(s)
  BY DEF Sound
<1>2. /\ t \in States /\ SameWaits(s, t)
      /\ t.storage = s.storage /\ t.text = s.text /\ t.events = s.events /\ t.mode = s.mode
      /\ t.hInputEvent = s.hInputEvent /\ t.owed = s.owed
  BY <1>1 DEF States, SameWaits, Moded
<1> HIDE DEF t
<1>3. Waits(t) /\ Attached(t) /\ Blocked(t)
  BY <1>1, <1>2, WaitsFrame
<1>4. Follows(s, t)
  BY <1>1, <1>2, <1>3 DEF Follows, Sound, Cached, Signalled, Conserved, Contents
<1> QED
  BY <1>4 DEF t

\* A reason to suspend output may be added at any time.
LEMMA FlagKeeps ==
    ASSUME NEW s, Sound(s), NEW F \in SUBSET {"suspended", "selecting"}, F # {}
    PROVE  Follows(s, Flagged(s, F))
<1> DEFINE t == Flagged(s, F)
<1>1. s \in States /\ Waits(s) /\ Attached(s) /\ Blocked(s) /\ Cached(s)
  BY DEF Sound
<1>2. /\ t \in States /\ SameBuffer(s, t) /\ t.flags = F
      /\ t.inputQueue = s.inputQueue /\ t.outputQueue = s.outputQueue
      /\ t.processQueue = s.processQueue /\ t.request = s.request /\ t.readCount = s.readCount
      /\ t.connected = s.connected /\ t.open = s.open
  BY <1>1 DEF States, SameBuffer, Flagged
<1> HIDE DEF t
<1>3. \A c \in Clients : Reads(t, c) <=> Reads(s, c)
  BY <1>2 DEF Reads
<1>4. \A h \in Handles : Through(t, h) = Through(s, h)
  BY <1>2, <1>3 DEF Through
<1>5. Waits(t) /\ Attached(t) /\ Blocked(t)
  BY <1>1, <1>2, <1>3, <1>4 DEF Waits, Attached, Blocked
<1>6. Follows(s, t)
  BY <1>1, <1>2, <1>5, SameBufferKeeps DEF Follows, Sound
<1> QED
  BY <1>6 DEF t

\* Handles and processes may come and go as long as no read waits for one that
\* has gone.
LEMMA HandleKeeps ==
    ASSUME NEW s, Sound(s), NEW C \in SUBSET Processes, NEW O \in SUBSET Handles,
           \A c \in Clients : Reads(s, c) => s.request[c].handle \in O /\ ProcessOf(c) \in C
    PROVE  /\ Follows(s, Handled(s, C, O))
           /\ SameBuffer(s, Handled(s, C, O))
<1> DEFINE t == Handled(s, C, O)
<1>1. s \in States /\ Waits(s) /\ Attached(s) /\ Blocked(s) /\ Cached(s)
  BY DEF Sound
<1>2. /\ t \in States /\ SameBuffer(s, t) /\ t.flags = s.flags
      /\ t.inputQueue = s.inputQueue /\ t.outputQueue = s.outputQueue
      /\ t.processQueue = s.processQueue /\ t.request = s.request /\ t.readCount = s.readCount
      /\ t.connected = C /\ t.open = O
  BY <1>1 DEF States, SameBuffer, Handled
<1> HIDE DEF t
<1>3. \A c \in Clients : Reads(t, c) <=> Reads(s, c)
  BY <1>2 DEF Reads
<1>4. \A h \in Handles : Through(t, h) = Through(s, h)
  BY <1>2, <1>3 DEF Through
<1>5. Waits(t) /\ Blocked(t)
  BY <1>1, <1>2, <1>3, <1>4 DEF Waits, Blocked
<1>6. Attached(t)
  BY <1>2, <1>3 DEF Attached
<1>7. Follows(s, t)
  BY <1>1, <1>2, <1>5, <1>6, SameBufferKeeps DEF Follows, Sound
<1> QED
  BY <1>2, <1>7 DEF t

\* A reason that ends every read leaves none.
LEMMA NotifyAllEnds ==
    ASSUME NEW s, Sound(s), NEW queue \in Seq(Clients), NEW reason,
           reason \in {"HandleClosing", "ThreadDying"}
    PROVE  /\ Follows(s, NotifyAll(s, queue, reason))
           /\ NotifyAll(s, queue, reason).connected = s.connected
           /\ NotifyAll(s, queue, reason).open = s.open
           /\ \A c \in Clients : Reads(NotifyAll(s, queue, reason), c) =>
                /\ Reads(s, c) /\ c \notin Range(queue)
                /\ NotifyAll(s, queue, reason).request[c] = s.request[c]
<1> DEFINE t == NotifyAll(s, queue, reason)
           cs == {c \in Range(queue) : Notify(s, c, reason)}
<1>1. Range(queue) \subseteq Clients
  BY LenProperties, ElementOfSeq DEF Range
<1>2. cs \in SUBSET Clients /\ t = Complete(s, cs)
  BY <1>1 DEF NotifyAll
<1>3. \A c \in Clients : Reads(s, c) /\ c \in Range(queue) => c \in cs
  BY DEF Reads, Notify, DirectReadNotify, RawReadNotify
<1>4. s \in States /\ Waits(s)
  BY DEF Sound
<1> HIDE DEF cs
<1>5. /\ t.connected = s.connected /\ t.open = s.open
      /\ \A c \in Clients : t.request[c] = IF c \in cs THEN NoRequest ELSE s.request[c]
      /\ \A c \in Clients : Reads(t, c) <=> Reads(s, c) /\ c \notin cs
  BY <1>2, <1>4, CompleteFacts
<1> HIDE DEF t
<1>6. Follows(s, t)
  BY NotifyAllKeeps DEF t
<1>7. \A c \in Clients : Reads(t, c) =>
        Reads(s, c) /\ c \notin Range(queue) /\ t.request[c] = s.request[c]
  BY <1>3, <1>5
<1> QED
  BY <1>5, <1>6, <1>7 DEF t

\* _CloseInputHandle: a count of zero means that no read waits through the
\* handle, otherwise every read is ended.
LEMMA CloseInputHandleKeeps ==
    ASSUME NEW s, Sound(s), NEW h \in Handles
    PROVE  Follows(s, CloseInputHandle(s, h))
<1> DEFINE v == IF s.readCount[h] # 0 THEN NotifyAll(s, s.inputQueue, "HandleClosing") ELSE s
           O == v.open \ {h}
           t == [v EXCEPT !.open = O]
<1>1. s \in States /\ Waits(s) /\ Attached(s) /\ s.inputQueue \in Seq(Clients)
  BY DEF Sound, States
<1>2. CloseInputHandle(s, h) =
        IF t.open = {} THEN [Flush(t) EXCEPT !.line = TRUE, !.vt = FALSE] ELSE t
  BY DEF CloseInputHandle
<1>3. /\ Follows(s, v) /\ v.connected = s.connected /\ v.open = s.open
      /\ \A c \in Clients : Reads(v, c) => /\ Reads(s, c) /\ s.request[c].handle # h
                                           /\ v.request[c] = s.request[c]
  <2>1. CASE s.readCount[h] # 0
    <3>1. v = NotifyAll(s, s.inputQueue, "HandleClosing")
      BY <2>1
    <3>2. Range(s.inputQueue) = {c \in Clients : Reads(s, c)}
      BY <1>1 DEF Waits
    <3>3. /\ Follows(s, v) /\ v.connected = s.connected /\ v.open = s.open
          /\ \A c \in Clients : Reads(v, c) => Reads(s, c) /\ c \notin Range(s.inputQueue)
      BY <1>1, <3>1, NotifyAllEnds
    <3> QED
      BY <3>2, <3>3
  <2>2. CASE s.readCount[h] = 0
    <3>1. Cardinality(Through(s, h)) = 0
      BY <1>1, <2>2 DEF Waits
    <3>2. Through(s, h) = {}
      <4>1. IsFiniteSet(Through(s, h))
        BY ClientFacts, FS_Subset DEF Through
      <4> QED
        BY <3>1, <4>1, FS_EmptySet
    <3>3. Follows(s, s)
      BY DEF Follows
    <3> QED
      BY <2>2, <3>2, <3>3 DEF Through
  <2> QED
    BY <2>1, <2>2
<1> HIDE DEF v
<1>4. Sound(v) /\ v \in States /\ v.connected \in SUBSET Processes /\ v.open \in SUBSET Handles
  BY <1>3 DEF Follows, Sound, States
<1>5. \A c \in Clients : Reads(v, c) => v.request[c].handle \in O /\ ProcessOf(c) \in v.connected
  BY <1>1, <1>3 DEF Attached
<1>6. O \in SUBSET Handles
  BY <1>4
<1>7. t = Handled(v, v.connected, O)
  BY <1>4 DEF States, Handled
<1> HIDE DEF O, t
<1>8. Follows(v, t)
  BY <1>4, <1>5, <1>6, <1>7, HandleKeeps
<1>9. Follows(s, t) /\ Sound(t)
  BY <1>3, <1>8, FollowsTransitive DEF Follows
<1>10. CASE t.open # {}
  BY <1>2, <1>9, <1>10
<1>11. CASE t.open = {}
  <2> DEFINE f == Flush(t)
  <2>1. Follows(t, f) /\ Sound(f)
    BY <1>9, FlushKeeps DEF Follows
  <2>2. CloseInputHandle(s, h) = Moded(f, TRUE, FALSE)
    BY <1>2, <1>11 DEF Moded
  <2> HIDE DEF f
  <2>3. Follows(f, Moded(f, TRUE, FALSE))
    BY <2>1, ModeKeeps
  <2> QED
    BY <1>9, <2>1, <2>2, <2>3, FollowsTransitive
<1> QED
  BY <1>10, <1>11

\* A call answered at once, or made to wait.
LEMMA CallKeeps ==
    ASSUME NEW s, Sound(s), NEW c \in Clients, s.request[c] = NoRequest,
           NEW r \in ReadRequests, r.handle \in s.open, ProcessOf(c) \in s.connected,
           r.peek => ~r.wait,
           NEW t, t = IF DoRead(s, r).out = <<>> /\ r.wait
                      THEN CreateWait(DoRead(s, r).state, c, r) ELSE DoRead(s, r).state
    PROVE  /\ Sound(t)
           /\ Signalled(s) => Signalled(t)
           /\ r.unicode \/ ~r.peek => Follows(s, t)
<1> DEFINE a == DoRead(s, r).state
<1>1. /\ Sound(a) /\ SameWaits(s, a) /\ (Signalled(s) => Signalled(a))
      /\ r.unicode \/ ~r.peek => Follows(s, a)
  BY AnswerKeeps
<1>2. CASE t = a
  BY <1>1, <1>2
<1>3. CASE r.wait /\ t = CreateWait(a, c, r)
  <2> HIDE DEF a
  <2>1. /\ a \in States /\ Waits(a) /\ Attached(a) /\ Blocked(a) /\ Cached(a)
        /\ a.request[c] = NoRequest /\ r.handle \in a.open /\ ProcessOf(c) \in a.connected
    BY <1>1 DEF Sound, SameWaits
  <2>2. r.kind \in {"direct", "raw"}
    BY DEF ReadRequests
  <2>3. r \in Requests /\ r # NoRequest /\ r.kind # "write"
    BY <1>3, <2>2, RequestFacts
  <2>4. /\ t \in States /\ Waits(t) /\ SameBuffer(a, t) /\ Attached(t)
        /\ t.flags = a.flags /\ t.outputQueue = a.outputQueue
    BY <1>3, <2>1, <2>3, CreateWaitFacts
  <2>5. Follows(a, t)
    BY <2>1, <2>4, SameBufferKeeps DEF Follows, Sound, Blocked
  <2> QED
    BY <1>1, <2>5, FollowsTransitive DEF Follows
<1> QED
  BY <1>2, <1>3

-----------------------------------------------------------------------------
(* The invariant. *)

\* The inductive invariant: the queues, handles and counts agree, the caches
\* belong to the reading mode, the event is set while there is input, and unless
\* PeekConsoleInputA is called the buffer holds what is owed.
Good(s) == Sound(s) /\ Signalled(s) /\ (~AnsiPeek => Conserved(s))
Inv == Good(Now)

\* A step to a good state.
LEMMA BecomeGood ==
    ASSUME NEW t, Good(t), Become(t)
    PROVE  Now' = t /\ Inv'
<1>1. t \in States
  BY DEF Good, Sound
<1>2. Now' = t
  BY <1>1 DEF Become, Now, States
<1> QED
  BY <1>2 DEF Inv

\* What follows a good state is good.
LEMMA FollowsGood ==
    ASSUME NEW s, NEW t, Good(s), Follows(s, t)
    PROVE  Good(t)
  BY DEF Good, Follows

\* The initial state is good.
LEMMA InitGood ==
    Init => Inv
<1> SUFFICES ASSUME Init PROVE Good(Now)
  BY DEF Inv
<1>1. Now \in States
  <2>1. <<>> \in Seq(Events) /\ <<>> \in Seq(Records) /\ <<>> \in Seq(Clients)
    BY EmptySeq
  <2>2. [p \in Processes |-> <<>>] \in [Processes -> Seq(Clients)]
    BY <2>1
  <2>3. [c \in Clients |-> NoRequest] \in [Clients -> Requests]
    BY RequestFacts
  <2>4. [h \in Handles |-> 0] \in [Handles -> Int] /\ [u \in Units |-> 0] \in [Units -> Int]
    OBVIOUS
  <2> QED
    BY <2>1, <2>2, <2>3, <2>4 DEF Init, Now, States, Modes
<1>2. \A c \in Clients : Now.request[c] = NoRequest /\ ~Reads(Now, c)
  BY RequestFacts DEF Init, Now, Reads
<1>3. Waits(Now)
  <2>1. Range(<<>>) = {} /\ IsInjective(<<>>)
    BY DEF Range, IsInjective
  <2>2. \A h \in Handles : Through(Now, h) = {}
    BY <1>2 DEF Through
  <2>3. \A h \in Handles : Now.readCount[h] = 0
    BY DEF Init, Now
  <2>4. \A p \in Processes : Now.processQueue[p] = <<>>
    BY DEF Init, Now
  <2>5. Now.inputQueue = <<>> /\ Now.outputQueue = <<>>
    BY DEF Init, Now
  <2>6. \A c \in Clients : Now.request[c].kind # "write"
    BY <1>2, RequestFacts
  <2> QED
    BY <1>2, <2>1, <2>2, <2>3, <2>4, <2>5, <2>6, FS_EmptySet DEF Waits
<1>4. Attached(Now) /\ Blocked(Now) /\ Cached(Now) /\ Signalled(Now)
  BY <1>2 DEF Attached, Blocked, Cached, Signalled, Init, Now
<1>5. Conserved(Now)
  <2>1. \A u \in Units : Stored(<<>>, u) = 0 /\ Count(<<>>)[u] = 0
    BY StoredEmpty, CountEmpty
  <2> QED
    BY <2>1 DEF Conserved, Contents, Init, Now
<1> QED
  BY <1>1, <1>3, <1>4, <1>5 DEF Good, Sound

\* The events that are written.
LEMMA WrittenEvents ==
    /\ \A k \in Keys \cup {"c", "break"} :
         <<Down(k)>> \in Seq(Events) /\ <<Up(k)>> \in Seq(Events) /\ <<Down(k), Up(k)>> \in Seq(Events)
    /\ <<Move>> \in Seq(Events)
<1>1. \A k \in Keys \cup {"c", "break"} : Down(k) \in Events /\ Up(k) \in Events
  BY DEF Down, Up, Events
<1>2. Move \in Events
  BY DEF Move, Events
<1> QED
  BY <1>1, <1>2

\* A key and its release.
LEMMA TwoWrites ==
    ASSUME NEW s, Sound(s), NEW k \in Keys \cup {"c", "break"}
    PROVE  Follows(s, Write(Write(s, <<Down(k)>>), <<Up(k)>>))
<1> DEFINE t == Write(s, <<Down(k)>>)
<1>1. <<Down(k)>> \in Seq(Events) /\ <<Up(k)>> \in Seq(Events)
  BY WrittenEvents
<1>2. Follows(s, t)
  BY <1>1, WriteKeeps
<1>3. Sound(t)
  BY <1>2 DEF Follows
<1> HIDE DEF t
<1>4. Follows(t, Write(t, <<Up(k)>>))
  BY <1>1, <1>3, WriteKeeps
<1>5. Follows(s, Write(t, <<Up(k)>>))
  BY <1>2, <1>4, FollowsTransitive
<1> QED
  BY <1>5 DEF t

\* A step to a state that follows.
LEMMA StepGood ==
    ASSUME Inv, NEW t, Follows(Now, t), Become(t)
    PROVE  Inv'
<1>1. Good(t)
  BY FollowsGood DEF Inv
<1> QED
  BY <1>1, BecomeGood

\* The variables are the fields of the state.
LEMMA NowFacts ==
    ASSUME Inv
    PROVE  /\ Sound(Now) /\ Now \in States
           /\ Now.storage = storage /\ Now.flags = flags /\ Now.inputQueue = inputQueue
           /\ Now.request = request /\ Now.connected = connected /\ Now.open = open
           /\ Now.text = text /\ Now.events = events
  BY DEF Inv, Good, Sound, Now

\* What is typed keeps the invariant.
LEMMA InputSteps ==
    ASSUME Inv, WriteConsoleInput \/ KeyEvent \/ CtrlC \/ CtrlBreak
    PROVE  Inv'
<1>1. Sound(Now)
  BY NowFacts
<1>2. CASE WriteConsoleInput
  <2>1. PICK es \in {<<Down(k)>> : k \in Keys} \cup {<<Down(k), Up(k)>> : k \in Keys} \cup {<<Move>>} :
          Become(Write(Now, es)) \/ Become(Prepend(Now, es))
    BY <1>2 DEF WriteConsoleInput
  <2>2. es \in Seq(Events) /\ Len(es) \in {1, 2}
    <3>1. CASE \E k \in Keys : es = <<Down(k)>>
      BY <3>1, WrittenEvents
    <3>2. CASE \E k \in Keys : es = <<Down(k), Up(k)>>
      BY <3>2, WrittenEvents
    <3>3. CASE es = <<Move>>
      BY <3>3, WrittenEvents
    <3> QED
      BY <3>1, <3>2, <3>3, Zenon
  <2>3. Follows(Now, Write(Now, es)) /\ Follows(Now, Prepend(Now, es))
    BY <1>1, <2>2, WriteKeeps, PrependKeeps
  <2> QED
    BY <2>1, <2>3, StepGood
<1>3. CASE KeyEvent
  <2>1. PICK k \in Keys : Become(Write(Write(Now, <<Down(k)>>), <<Up(k)>>))
    BY <1>3 DEF KeyEvent
  <2>2. Follows(Now, Write(Write(Now, <<Down(k)>>), <<Up(k)>>))
    BY <1>1, TwoWrites
  <2> QED
    BY <2>1, <2>2, StepGood
<1>4. CASE CtrlC
  <2>1. Become(Write(Write(Now, <<Down("c")>>), <<Up("c")>>))
    BY <1>4 DEF CtrlC
  <2>2. Follows(Now, Write(Write(Now, <<Down("c")>>), <<Up("c")>>))
    BY <1>1, TwoWrites
  <2> QED
    BY <2>1, <2>2, StepGood
<1>5. CASE CtrlBreak
  <2> DEFINE f == Flush(Now)
             s == NotifyAll(f, inputQueue, "CtrlBreak")
             w == Write(Write(s, <<Down("break")>>), <<Up("break")>>)
  <2>1. Follows(Now, f) /\ Sound(f)
    BY <1>1, FlushKeeps DEF Follows
  <2>2. inputQueue \in Seq(Clients)
    BY NowFacts DEF States
  <2>3. Become(IF "suspended" \in s.flags THEN w ELSE s)
    BY <1>5 DEF CtrlBreak
  <2> HIDE DEF f
  <2>4. Follows(f, s)
    BY <2>1, <2>2, NotifyAllKeeps
  <2> HIDE DEF s
  <2>5. Follows(Now, s) /\ Sound(s)
    BY <2>1, <2>4, FollowsTransitive DEF Follows
  <2>6. Follows(s, w)
    BY <2>5, TwoWrites
  <2> HIDE DEF w
  <2>7. Follows(Now, w)
    BY <2>5, <2>6, FollowsTransitive
  <2> QED
    BY <2>3, <2>5, <2>7, StepGood
<1> QED
  BY <1>2, <1>3, <1>4, <1>5

\* The reads of the clients keep the invariant; with AnsiPeek a peek may break
\* only what is said of the debt.
LEMMA CallSteps ==
    ASSUME Inv, GetConsoleInput \/ PeekConsoleInput \/ ReadConsole
    PROVE  Inv'
<1>1. /\ Sound(Now) /\ Good(Now)
      /\ Now.request = request /\ Now.connected = connected /\ Now.open = open
  BY NowFacts DEF Inv
<1>2. ASSUME NEW c \in Clients, NEW r, NEW kind \in {"direct", "raw"}, NEW h \in Usable(c),
             NEW unicode \in BOOLEAN, NEW amount \in Amounts, NEW peek \in BOOLEAN,
             r = Req(kind, h, unicode, amount, peek, ~peek), ~AnsiPeek => unicode \/ ~peek,
             Free(c), Call(c, r)
      PROVE  Inv'
  <2> DEFINE t == IF DoRead(Now, r).out = <<>> /\ r.wait
                  THEN CreateWait(DoRead(Now, r).state, c, r) ELSE DoRead(Now, r).state
  <2>1. Now.request[c] = NoRequest /\ ProcessOf(c) \in Now.connected /\ h \in Now.open
    BY <1>1, <1>2 DEF Free, Usable
  <2>2. h \in Handles
    BY <2>1, NowFacts DEF States
  <2>3. /\ r \in ReadRequests /\ r.handle = h /\ r.unicode = unicode
        /\ r.peek = peek /\ r.wait = ~peek
    BY <1>2, <2>2 DEF Req, ReadRequests
  <2>4. Become(t)
    BY <1>2 DEF Call
  <2>5. /\ Sound(t) /\ (Signalled(Now) => Signalled(t))
        /\ r.unicode \/ ~r.peek => Follows(Now, t)
    BY <1>1, <2>1, <2>3, CallKeeps
  <2> HIDE DEF t
  <2>6. Good(t)
    BY <1>1, <1>2, <2>3, <2>5 DEF Good, Follows
  <2> QED
    BY <2>4, <2>6, BecomeGood
<1>3. CASE GetConsoleInput
  <2>1. PICK c \in Clients, unicode \in BOOLEAN, amount \in Amounts : \E h \in Usable(c) :
          Free(c) /\ Call(c, Req("direct", h, unicode, amount, FALSE, TRUE))
    BY <1>3 DEF GetConsoleInput
  <2>2. PICK h \in Usable(c) : Free(c) /\ Call(c, Req("direct", h, unicode, amount, FALSE, TRUE))
    BY <2>1
  <2> QED
    BY <1>2, <2>2
<1>4. CASE PeekConsoleInput
  <2>1. PICK c \in Clients, unicode \in (IF AnsiPeek THEN BOOLEAN ELSE {TRUE}), amount \in Amounts :
          \E h \in Usable(c) :
            Free(c) /\ Call(c, Req("direct", h, unicode, amount, TRUE, FALSE))
    BY <1>4 DEF PeekConsoleInput
  <2>2. PICK h \in Usable(c) : Free(c) /\ Call(c, Req("direct", h, unicode, amount, TRUE, FALSE))
    BY <2>1
  <2>3. unicode \in BOOLEAN /\ (~AnsiPeek => unicode)
    BY <2>1
  <2> QED
    BY <1>2, <2>2, <2>3
<1>5. CASE ReadConsole
  <2>1. PICK c \in Clients, unicode \in BOOLEAN, amount \in Amounts : \E h \in Usable(c) :
          Free(c) /\ Call(c, Req("raw", h, unicode, amount, FALSE, TRUE))
    BY <1>5 DEF ReadConsole
  <2>2. PICK h \in Usable(c) : Free(c) /\ Call(c, Req("raw", h, unicode, amount, FALSE, TRUE))
    BY <2>1
  <2> QED
    BY <1>2, <2>2
<1> QED
  BY <1>3, <1>4, <1>5

\* Writes that wait, and the selection that suspends them, keep the invariant.
LEMMA OutputSteps ==
    ASSUME Inv, WriteConsole \/ Select \/ ClearSelection
    PROVE  Inv'
<1>1. /\ Sound(Now) /\ Now \in States
      /\ Now.request = request /\ Now.flags = flags
  BY NowFacts
<1>2. CASE WriteConsole
  <2>1. PICK c \in Clients : Free(c) /\ flags # {} /\ Become(CreateWait(Now, c, [kind |-> "write"]))
    BY <1>2 DEF WriteConsole
  <2> DEFINE r == [kind |-> "write"]
             t == CreateWait(Now, c, r)
  <2>2. r \in Requests /\ r # NoRequest /\ r.kind = "write"
    BY RequestFacts DEF NoRequest
  <2>3. Now.request[c] = NoRequest /\ Waits(Now) /\ Attached(Now) /\ Cached(Now)
    BY <1>1, <2>1 DEF Free, Sound
  <2>4. Become(t) /\ t = CreateWait(Now, c, r)
    BY <2>1
  <2> HIDE DEF r, t
  <2>5. /\ t \in States /\ Waits(t) /\ SameBuffer(Now, t) /\ t.flags = flags /\ Attached(t)
    <3>1. /\ t \in States /\ Waits(t) /\ SameBuffer(Now, t) /\ t.flags = Now.flags
          /\ Attached(Now) /\ (r.kind # "write" => r.handle \in Now.open /\ ProcessOf(c) \in Now.connected)
               => Attached(t)
      BY <1>1, <2>2, <2>3, <2>4, CreateWaitFacts
    <3> QED
      BY <1>1, <2>2, <2>3, <3>1
  <2>6. Follows(Now, t)
    BY <2>1, <2>3, <2>5, SameBufferKeeps DEF Follows, Sound, Blocked
  <2> QED
    BY <2>4, <2>6, StepGood
<1>3. CASE Select
  <2> DEFINE F == flags \cup {"selecting"}
  <2>1. F \in SUBSET {"suspended", "selecting"} /\ F # {}
    BY <1>1 DEF States
  <2>2. Become(Flagged(Now, F))
    BY <1>1, <1>3 DEF Select, Flagged
  <2> HIDE DEF F
  <2>3. Follows(Now, Flagged(Now, F))
    BY <1>1, <2>1, FlagKeeps
  <2> QED
    BY <2>2, <2>3, StepGood
<1>4. CASE ClearSelection
  <2> DEFINE t == UnblockWriteConsole(Now, "selecting")
  <2>1. Become(t)
    BY <1>4 DEF ClearSelection
  <2>2. Sound(t) /\ SameBuffer(Now, t)
    BY <1>1, UnblockFacts
  <2> HIDE DEF t
  <2>3. Follows(Now, t)
    BY <2>2, SameBufferKeeps DEF Follows
  <2> QED
    BY <2>1, <2>3, StepGood
<1> QED
  BY <1>2, <1>3, <1>4

\* Flushes and console modes keep the invariant.
LEMMA BufferSteps ==
    ASSUME Inv, FlushConsoleInputBuffer \/ FlushAllButKeys \/ SetConsoleMode
    PROVE  Inv'
<1>1. Sound(Now) /\ Now \in States /\ Now.storage = storage
  BY NowFacts
<1>2. CASE FlushConsoleInputBuffer
  <2>1. Become(Flush(Now))
    BY <1>2 DEF FlushConsoleInputBuffer
  <2>2. Follows(Now, Flush(Now))
    BY <1>1, FlushKeeps
  <2> QED
    BY <2>1, <2>2, StepGood
<1>3. CASE FlushAllButKeys
  <2> DEFINE S == {e \in Range(storage) : e.type # "key"}
             q == Without(storage, S)
             t == Rebuffer(Now, q, Now.hInputEvent, Now.owed)
  <2>1. /\ storage \in Seq(Events) /\ Now.hInputEvent \in BOOLEAN
        /\ Now.owed \in [Units -> Int]
    BY <1>1 DEF States
  <2>2. \A e \in S : ~IsDown(e)
    BY DEF IsDown
  <2>3. Become([Now EXCEPT !.storage = q])
    BY <1>1, <1>3 DEF FlushAllButKeys
  <2> HIDE DEF S
  <2>4. q \in Seq(Events) /\ Range(q) = Range(storage) \ S
    BY <2>1, WithoutFacts
  <2>5. \A u \in Units : Stored(q, u) = Stored(storage, u)
    BY <2>1, <2>2, StoredWithout
  <2> HIDE DEF q
  <2>6. [Now EXCEPT !.storage = q] = t
    BY <1>1 DEF States, Rebuffer
  <2>7. Rebuffered(Now, q, Now.hInputEvent, Now.owed, t)
    BY <1>1, <2>1, <2>4, BufferChange
  <2> HIDE DEF t
  <2>8. /\ Sound(t) /\ t.storage = q /\ t.owed = Now.owed /\ t.hInputEvent = Now.hInputEvent
        /\ t.text = Now.text /\ t.events = Now.events
    BY <2>7 DEF Rebuffered
  <2>9. q # <<>> => storage # <<>>
    BY <2>1, <2>4, EmptyRange
  <2>10. Follows(Now, t)
    BY <1>1, <2>5, <2>8, <2>9 DEF Follows, Signalled, Conserved, Contents
  <2> QED
    BY <2>3, <2>6, <2>10, StepGood
<1>4. CASE SetConsoleMode
  <2>1. PICK m \in {<<TRUE, FALSE>>, <<FALSE, FALSE>>, <<FALSE, TRUE>>} :
          Become(Moded(Now, m[1], m[2]))
    BY <1>4, Zenon DEF SetConsoleMode, Moded
  <2>2. m[1] \in BOOLEAN /\ m[2] \in BOOLEAN
    <3>1. m = <<TRUE, FALSE>> \/ m = <<FALSE, FALSE>> \/ m = <<FALSE, TRUE>>
      BY Zenon
    <3>2. CASE m = <<TRUE, FALSE>>
      BY <3>2
    <3>3. CASE m = <<FALSE, FALSE>>
      BY <3>3
    <3>4. CASE m = <<FALSE, TRUE>>
      BY <3>4
    <3> QED
      BY <3>1, <3>2, <3>3, <3>4
  <2>3. Follows(Now, Moded(Now, m[1], m[2]))
    BY <1>1, <2>2, ModeKeeps
  <2> QED
    BY <2>1, <2>3, StepGood
<1> QED
  BY <1>2, <1>3, <1>4

\* Connecting, disconnecting and closing handles keep the invariant.
LEMMA HandleSteps ==
    ASSUME Inv, Connect \/ CreateObject \/ CloseObject \/ Disconnect
    PROVE  Inv'
<1>1. /\ Sound(Now) /\ Now \in States /\ Attached(Now)
      /\ Now.connected = connected /\ Now.open = open
      /\ connected \in SUBSET Processes /\ open \in SUBSET Handles
  BY NowFacts DEF Sound, States
<1>2. CASE Connect
  <2>1. PICK p \in Processes : Become([Now EXCEPT !.connected = @ \cup {p}, !.open = @ \cup {p}])
    BY <1>2 DEF Connect
  <2> DEFINE C == connected \cup {p}
             O == open \cup {p}
  <2>2. Become(Handled(Now, C, O))
    BY <1>1, <2>1 DEF Handled
  <2>3. C \in SUBSET Processes /\ O \in SUBSET Handles
    BY <1>1 DEF Handles
  <2>4. \A c \in Clients : Reads(Now, c) => Now.request[c].handle \in O /\ ProcessOf(c) \in C
    BY <1>1 DEF Attached
  <2> HIDE DEF C, O
  <2>5. Follows(Now, Handled(Now, C, O))
    BY <1>1, <2>3, <2>4, HandleKeeps
  <2> QED
    BY <2>2, <2>5, StepGood
<1>3. CASE CreateObject
  <2>1. PICK h \in Shared : Become([Now EXCEPT !.open = @ \cup {h}])
    BY <1>3 DEF CreateObject
  <2> DEFINE O == open \cup {h}
  <2>2. O \in SUBSET Handles
    BY <1>1 DEF Handles
  <2>3. \A c \in Clients : Reads(Now, c) => Now.request[c].handle \in O /\ ProcessOf(c) \in connected
    BY <1>1 DEF Attached
  <2>4. Become([Now EXCEPT !.open = O])
    BY <1>1, <2>1
  <2> HIDE DEF O
  <2>5. [Now EXCEPT !.open = O] = Handled(Now, connected, O)
    BY <1>1 DEF Handled, States
  <2>6. Follows(Now, Handled(Now, connected, O))
    BY <1>1, <2>2, <2>3, HandleKeeps
  <2> QED
    BY <2>4, <2>5, <2>6, StepGood
<1>4. CASE CloseObject
  <2>1. PICK h \in Shared \cap open : Become(CloseInputHandle(Now, h))
    BY <1>4 DEF CloseObject
  <2>2. Follows(Now, CloseInputHandle(Now, h))
    BY <1>1, CloseInputHandleKeeps
  <2> QED
    BY <2>1, <2>2, StepGood
<1>5. CASE Disconnect
  <2>1. PICK p \in connected :
          LET s == CloseInputHandle(Now, p)
          IN  Become([NotifyAll(s, s.processQueue[p], "ThreadDying") EXCEPT !.connected = @ \ {p}])
    BY <1>5 DEF Disconnect
  <2> DEFINE s == CloseInputHandle(Now, p)
             v == NotifyAll(s, s.processQueue[p], "ThreadDying")
             C == v.connected \ {p}
  <2>2. Become([v EXCEPT !.connected = C])
    BY <2>1
  <2>3. p \in Processes /\ p \in Handles
    BY <1>1 DEF Handles
  <2>4. Follows(Now, s)
    BY <1>1, <2>3, CloseInputHandleKeeps
  <2> HIDE DEF s
  <2>5. Sound(s) /\ s \in States /\ Attached(s) /\ Waits(s)
    BY <2>4 DEF Follows, Sound
  <2>6. /\ s.processQueue[p] \in Seq(Clients)
        /\ Range(s.processQueue[p]) = {c \in Clients : ProcessOf(c) = p /\ s.request[c] # NoRequest}
    BY <2>3, <2>5 DEF States, Waits
  <2>7. /\ Follows(s, v) /\ v.connected = s.connected /\ v.open = s.open
        /\ \A c \in Clients : Reads(v, c) => /\ Reads(s, c) /\ c \notin Range(s.processQueue[p])
                                             /\ v.request[c] = s.request[c]
    BY <2>5, <2>6, NotifyAllEnds
  <2> HIDE DEF v
  <2>8. Sound(v) /\ v \in States /\ v.connected \in SUBSET Processes /\ v.open \in SUBSET Handles
    BY <2>7 DEF Follows, Sound, States
  <2>9. \A c \in Clients : Reads(s, c) => s.request[c] # NoRequest
    BY RequestFacts DEF Reads
  <2>10. \A c \in Clients : Reads(v, c) => v.request[c].handle \in v.open /\ ProcessOf(c) \in C
    BY <2>5, <2>6, <2>7, <2>9 DEF Attached
  <2>11. C \in SUBSET Processes
    BY <2>8
  <2> HIDE DEF C
  <2>12. [v EXCEPT !.connected = C] = Handled(v, C, v.open)
    BY <2>8 DEF Handled, States
  <2>13. Follows(v, Handled(v, C, v.open))
    BY <2>8, <2>10, <2>11, HandleKeeps
  <2>14. Follows(Now, Handled(v, C, v.open))
    BY <2>4, <2>7, <2>13, FollowsTransitive
  <2> QED
    BY <2>2, <2>12, <2>14, StepGood
<1> QED
  BY <1>2, <1>3, <1>4, <1>5

\* Every step keeps the invariant.
LEMMA NextGood ==
    Inv /\ [Next]_vars => Inv'
<1> SUFFICES ASSUME Inv, [Next]_vars PROVE Inv'
  OBVIOUS
<1>1. CASE Next
  BY <1>1, InputSteps, CallSteps, OutputSteps, BufferSteps, HandleSteps, Zenon DEF Next
<1>2. CASE UNCHANGED vars
  <2>1. Now' = Now
    BY <1>2 DEF vars, Now
  <2> QED
    BY <2>1 DEF Inv
<1> QED
  BY <1>1, <1>2

\* Every state of every behaviour is good.
THEOREM InputInvariant == Spec => []Inv
  BY InitGood, NextGood, PTL DEF Spec

\* The invariant implies that the queues agree.
LEMMA InvQueues ==
    ASSUME Inv
    PROVE  QueuesAgree
<1>1. Now \in States /\ Waits(Now) /\ Cached(Now)
  BY DEF Inv, Good, Sound
<1>2. \A c \in Clients : Reads(Now, c) <=> request[c].kind \in {"direct", "raw"}
  BY DEF Reads, Now
<1>3. \A h \in Handles : readCount[h] \in 0 .. Cardinality(Clients)
  <2> SUFFICES ASSUME NEW h \in Handles PROVE readCount[h] \in 0 .. Cardinality(Clients)
    OBVIOUS
  <2>1. readCount[h] = Cardinality(Through(Now, h))
    BY <1>1 DEF Waits, Now
  <2>2. Through(Now, h) \subseteq Clients
    BY DEF Through
  <2>3. IsFiniteSet(Clients)
    BY ClientFacts
  <2>4. IsFiniteSet(Through(Now, h)) /\ Cardinality(Through(Now, h)) <= Cardinality(Clients)
    BY <2>2, <2>3, FS_Subset
  <2>5. Cardinality(Through(Now, h)) \in Nat /\ Cardinality(Clients) \in Nat
    BY <2>3, <2>4, FS_CardinalityType
  <2> QED
    BY <2>1, <2>4, <2>5
<1>4. TypeOK
  <2>1. /\ mode \in Modes /\ hInputEvent \in BOOLEAN /\ line \in BOOLEAN /\ vt \in BOOLEAN
        /\ flags \subseteq {"suspended", "selecting"}
        /\ connected \subseteq Processes /\ open \subseteq Handles /\ owed \in [Units -> Int]
        /\ inputQueue \in Seq(Clients) /\ outputQueue \in Seq(Clients)
        /\ processQueue \in [Processes -> Seq(Clients)]
    BY <1>1 DEF States, Now
  <2>2. (text # <<>> => mode = "StringA") /\ (events # <<>> => mode = "InputEventsA")
    BY <1>1 DEF Cached, Now
  <2>3. {inputQueue, outputQueue} \cup {processQueue[p] : p \in Processes} \subseteq Seq(Clients)
    BY <2>1
  <2>4. \A u \in Units : owed[u] \in Int
    BY <2>1
  <2>5. {hInputEvent, line, vt} \subseteq BOOLEAN
    BY <2>1
  <2> QED
    BY <1>3, <2>1, <2>2, <2>3, <2>4, <2>5 DEF TypeOK
<1>5. \A p \in Processes :
        /\ IsInjective(processQueue[p])
        /\ Range(processQueue[p]) = {c \in Clients : ProcessOf(c) = p /\ request[c] # NoRequest}
  BY <1>1 DEF Waits, Now
<1>6. /\ IsInjective(inputQueue) /\ IsInjective(outputQueue)
      /\ Range(inputQueue) = {c \in Clients : Reads(Now, c)}
      /\ Range(outputQueue) = {c \in Clients : request[c].kind = "write"}
  BY <1>1 DEF Waits, Now
<1> QED
  BY <1>2, <1>4, <1>5, <1>6 DEF QueuesAgree

\* QueuesAgree: every call without a reply has one wait block in the queue of
\* its process and one in that of what it waits for, and no block outlives its
\* call (CONSOLE_WAIT_BLOCK and NotifyWaiters).
THEOREM WaitBlocksAgree == Spec => []QueuesAgree
<1>1. Inv => QueuesAgree
  BY InvQueues
<1> QED
  BY <1>1, InputInvariant, PTL

\* The invariant implies that no read outlives its handle.
LEMMA InvHandles ==
    ASSUME Inv
    PROVE  NoReadOutlivesItsHandle
<1>1. Now \in States /\ Waits(Now) /\ Attached(Now)
  BY DEF Inv, Good, Sound
<1>2. Range(inputQueue) = {c \in Clients : Reads(Now, c)}
  BY <1>1 DEF Waits, Now
<1>3. \A c \in Range(inputQueue) : request[c].handle \in open /\ ProcessOf(c) \in connected
  BY <1>1, <1>2 DEF Attached, Now
<1>4. \A h \in Handles : Through(Now, h) = {c \in Range(inputQueue) : request[c].handle = h}
  BY <1>2 DEF Through, Now
<1>5. \A h \in Handles : readCount[h] = Cardinality(Through(Now, h))
  BY <1>1 DEF Waits, Now
<1> QED
  BY <1>3, <1>4, <1>5 DEF NoReadOutlivesItsHandle

\* NoReadOutlivesItsHandle: _CloseInputHandle and FreeProcessData leave no read
\* that waits through a closed handle or for a process that is gone.
THEOREM ReadsEndWithTheirHandle == Spec => []NoReadOutlivesItsHandle
<1>1. Inv => NoReadOutlivesItsHandle
  BY InvHandles
<1> QED
  BY <1>1, InputInvariant, PTL

\* BlockedWritesHaveReason: UnblockWriteConsole resumes every write it can.
THEOREM WritesWaitForAReason == Spec => []BlockedWritesHaveReason
<1>1. Inv => BlockedWritesHaveReason
  BY DEF Inv, Good, Sound, Blocked, BlockedWritesHaveReason, Now
<1> QED
  BY <1>1, InputInvariant, PTL

\* InputIsSignalled: the input event is set while the storage holds input.
THEOREM TheEventIsSet == Spec => []InputIsSignalled
<1>1. Inv => InputIsSignalled
  BY DEF Inv, Good, Signalled, InputIsSignalled, Now
<1> QED
  BY <1>1, InputInvariant, PTL

\* The invariant implies that the input is conserved.
LEMMA InvConserved ==
    ASSUME Inv, ~AnsiPeek
    PROVE  InputIsConserved
<1>1. /\ storage \in Seq(Events) /\ text \in Seq(Records) /\ events \in Seq(Records)
      /\ owed \in [Units -> Int]
  BY NowFacts DEF States, Now
<1>2. \A u \in Units : owed[u] = Count(Whole(storage))[u] + (Count(text)[u] + Count(events)[u])
  BY DEF Inv, Good, Conserved, Contents, Stored, Now
<1>3. /\ Count(Whole(storage)) \in [Units -> Int] /\ Count(text) \in [Units -> Int]
      /\ Count(events) \in [Units -> Int]
  BY <1>1, WholeFacts, CountInt
<1>4. Plus(Count(text), Count(events)) = [u \in Units |-> Count(text)[u] + Count(events)[u]]
  BY DEF Plus
<1>5. Held = [u \in Units |-> Count(Whole(storage))[u] + (Count(text)[u] + Count(events)[u])]
  BY <1>4 DEF Held, Plus
<1>6. owed = [u \in Units |-> owed[u]]
  BY <1>1
<1>7. Held = [u \in Units |-> owed[u]]
  BY <1>2, <1>5
<1> QED
  BY <1>6, <1>7 DEF InputIsConserved

\* InputIsConserved: while nobody calls PeekConsoleInputA, every byte typed is
\* delivered once, dropped by a flush or by a change of the kind of read, or
\* still in the storage or one of the two caches.
THEOREM NothingTypedIsLost == ASSUME ~AnsiPeek PROVE Spec => []InputIsConserved
<1>1. Inv => InputIsConserved
  BY InvConserved
<1> QED
  BY <1>1, InputInvariant, PTL

=============================================================================

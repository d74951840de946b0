---------------------------- MODULE ConsoleInput ----------------------------
(***************************************************************************)
(* The input buffer of a console and the calls that wait for it: the       *)
(* InputBuffer with its caches (src/src/host/inputBuffer.cpp), the wait    *)
(* blocks that belong to two queues at once (src/src/server/WaitBlock.cpp, *)
(* WaitQueue.cpp), the reads and writes they resume (readDataDirect.cpp,   *)
(* readDataRaw.cpp, stream.cpp, writeData.cpp) and what closes the handles *)
(* under them (ObjectHandle.cpp, ProcessList.cpp).                         *)
(* Everything here runs under the console lock, so one call is one step.   *)
(* The operators map states to states: a state is the record of all        *)
(* variables (Now), and Become makes it the next one.                      *)
(* A character is its key; a key of Wide takes two bytes in the input code *)
(* page; no key of the model is a modifier (IsSystemKey).  Cooked (line)   *)
(* reads are not part of the model.                                        *)
(***************************************************************************)
EXTENDS Integers, Sequences, FiniteSets, Functions

CONSTANTS
    Processes, Shared,  \* client processes; input handles opened with CreateFile
    Threads,            \* the threads of each process that call the console
    Keys, Wide, Pause,  \* the keys, those of two bytes, and Ctrl+S
    Amounts,            \* how much one read asks for
    MaxStorage, MaxRep, \* bounds on the storage and on a repeat count
    AnsiPeek            \* whether PeekConsoleInputA is called

ASSUME InputAssumption ==
    /\ IsFiniteSet(Processes) /\ IsFiniteSet(Threads)
    /\ Wide \subseteq Keys /\ Pause \in Keys
    /\ Amounts \subseteq Nat \ {0} /\ {MaxStorage, MaxRep} \subseteq Nat
    /\ AnsiPeek \in BOOLEAN

VARIABLES
    storage,        \* InputBuffer::_storage
    text,           \* _cachedTextReaderA: the rest of a character
    events,         \* _cachedInputEvents
    mode,           \* _readingMode
    hInputEvent,    \* the event that clients wait for
    line, vt,       \* ENABLE_LINE_INPUT, ENABLE_VIRTUAL_TERMINAL_INPUT
    flags,          \* CONSOLE_SUSPENDED, CONSOLE_SELECTING (CONSOLE_SCROLLBAR_TRACKING,
                    \* the third reason to suspend output, is set and cleared like it)
    inputQueue, outputQueue, processQueue,  \* the wait blocks, named by their clients
    request,        \* the call of each client that has no reply yet
    readCount,      \* INPUT_READ_HANDLE_DATA::_readCount
    connected, open,\* the connected processes and the open input handles
    owed            \* history: bytes that were typed and neither read nor discarded

vars == <<storage, text, events, mode, hInputEvent, line, vt, flags, inputQueue, outputQueue,
          processQueue, request, readCount, connected, open, owed>>

Now == [storage |-> storage, text |-> text, events |-> events, mode |-> mode,
        hInputEvent |-> hInputEvent, line |-> line, vt |-> vt, flags |-> flags,
        inputQueue |-> inputQueue, outputQueue |-> outputQueue, processQueue |-> processQueue,
        request |-> request, readCount |-> readCount, connected |-> connected, open |-> open,
        owed |-> owed]

Become(s) ==
    /\ storage' = s.storage /\ text' = s.text /\ events' = s.events /\ mode' = s.mode
    /\ hInputEvent' = s.hInputEvent /\ line' = s.line /\ vt' = s.vt /\ flags' = s.flags
    /\ inputQueue' = s.inputQueue /\ outputQueue' = s.outputQueue
    /\ processQueue' = s.processQueue /\ request' = s.request /\ readCount' = s.readCount
    /\ connected' = s.connected /\ open' = s.open /\ owed' = s.owed

Clients == Processes \X Threads
ProcessOf(c) == c[1]
Handles == Processes \cup Shared    \* a process names its own input handle
Size(k) == IF k \in Wide THEN 2 ELSE 1
Units == {u \in Keys \X (1 .. 2) : u[2] <= Size(u[1])}

Down(k) == [type |-> "key", key |-> k, down |-> TRUE, rep |-> 1]
Up(k) == [type |-> "key", key |-> k, down |-> FALSE, rep |-> 1]
Move == [type |-> "mouse", key |-> "none", down |-> FALSE, rep |-> 1]
IsDown(e) == e.type = "key" /\ e.down

\* What a read makes of an event: one record, or one for each byte of the key.
Pieces(e, unicode) ==
    IF unicode \/ e.type # "key"
    THEN <<[event |-> e, byte |-> 0]>>
    ELSE [j \in 1 .. Size(e.key) |-> [event |-> e, byte |-> j]]
Whole(es) == [i \in DOMAIN es |-> [event |-> es[i], byte |-> 0]]

\* How often each byte of each pressed key is in a sequence of records.
Copies(p, u) ==
    IF IsDown(p.event) /\ p.event.key = u[1] /\ p.byte \in {0, u[2]} THEN p.event.rep ELSE 0
Count(ps) ==
    [u \in Units |->
        LET sum[i \in 0 .. Len(ps)] == IF i = 0 THEN 0 ELSE sum[i - 1] + Copies(ps[i], u)
        IN  sum[Len(ps)]]
Plus(a, b) == [u \in Units |-> a[u] + b[u]]
Minus(a, b) == [u \in Units |-> a[u] - b[u]]
Held == Plus(Count(Whole(storage)), Plus(Count(text), Count(events)))
Least(a, b) == IF a < b THEN a ELSE b

\* A sequence without the members of a set.
Without(q, S) ==
    LET kept[i \in 0 .. Len(q)] ==
          IF i = 0 THEN <<>> ELSE IF q[i] \in S THEN kept[i - 1] ELSE Append(kept[i - 1], q[i])
    IN  kept[Len(q)]

NoRequest == [kind |-> "none"]
Modes == {"StringA", "StringW", "InputEventsA", "InputEventsW"}

Init ==
    /\ storage = <<>> /\ text = <<>> /\ events = <<>> /\ mode = "StringA"
    /\ hInputEvent = FALSE /\ line = TRUE /\ vt = FALSE /\ flags = {}
    /\ inputQueue = <<>> /\ outputQueue = <<>> /\ processQueue = [p \in Processes |-> <<>>]
    /\ request = [c \in Clients |-> NoRequest]
    /\ readCount = [h \in Handles |-> 0]
    /\ connected = {} /\ open = {}
    /\ owed = [u \in Units |-> 0]

-----------------------------------------------------------------------------
(* The input buffer. *)

\* _switchReadingMode: what one kind of read left over is dropped by another.
SwitchReadingMode(s, m) ==
    IF s.mode = m
    THEN s
    ELSE [s EXCEPT !.mode = m, !.text = <<>>, !.events = <<>>,
                   !.owed = Minus(@, Plus(Count(s.text), Count(s.events)))]

\* The records that are too many dropped.
CacheNothing(out, amount) == <<>>

\* Cache: the records that are too many for the caller.
Cache(out, amount) == SubSeq(out, amount + 1, Len(out))

\* The loop of Read: the cached records, then those of the storage until there
\* are enough; `n` events of the storage are used.
ReadEvents(m, r) ==
    LET after[k \in 0 .. Len(m.storage)] ==
          IF k = 0
          THEN [out |-> SubSeq(m.events, 1, Least(r.amount, Len(m.events))), n |-> 0]
          ELSE LET b == after[k - 1]
               IN  IF Len(b.out) < r.amount
                   THEN [out |-> b.out \o Pieces(m.storage[k], r.unicode), n |-> b.n + 1]
                   ELSE b
    IN  after[Len(m.storage)]

\* What Read leaves, of the events `used` and the records `out` the caller gets.
ReadLeaves(m, r, used, out) ==
    LET rest == IF r.peek THEN m.storage ELSE SubSeq(m.storage, used.n + 1, Len(m.storage))
        cached == IF r.peek THEN m.events ELSE SubSeq(m.events, r.amount + 1, Len(m.events))
    IN  [out |-> out,
         state |-> [m EXCEPT !.storage = rest,
                             !.events = cached \o Cache(used.out, r.amount),
                             !.hInputEvent = @ /\ (out = <<>> \/ rest # <<>>),
                             !.owed = IF r.peek THEN @ ELSE Minus(@, Count(out))]]

\* InputBuffer::Read without Stream, for the reading mode of the caller.
ReadIn(m, r) ==
    LET used == ReadEvents(m, r)
    IN  ReadLeaves(m, r, used, SubSeq(used.out, 1, Least(r.amount, Len(used.out))))
Read(s, r) == ReadIn(SwitchReadingMode(s, IF r.unicode THEN "InputEventsW" ELSE "InputEventsA"), r)

\* Consume: bytes go to the caller as long as there is room, what is left of the
\* last character to the cache.
Consume(a, bytes) ==
    LET n == Least(a.room, Len(bytes))
    IN  [a EXCEPT !.room = @ - n, !.out = @ \o SubSeq(bytes, 1, n),
                  !.cache = SubSeq(bytes, n + 1, Len(bytes))]

\* The bytes of n presses of the key of e.
Presses(e, unicode, n) ==
    LET typed[i \in 0 .. n] ==
          IF i = 0 THEN <<>> ELSE typed[i - 1] \o Pieces([e EXCEPT !.rep = 1], unicode)
    IN  typed[n]

\* GetChar on one event of the storage: as many of its key presses as there is
\* room for (a stream read splits them), nothing of other events.
GetChar(a, e, unicode) ==
    LET size == IF unicode THEN 1 ELSE Size(e.key)
        presses == Least(e.rep, (a.room + size - 1) \div size)
        left == IF presses < e.rep THEN <<[e EXCEPT !.rep = @ - presses]>> ELSE <<>>
    IN  CASE a.room = 0 -> [a EXCEPT !.rest = Append(@, e)]
          [] a.room > 0 /\ ~IsDown(e) -> a
          [] a.room > 0 /\ IsDown(e) ->
                [Consume(a, Presses(e, unicode, presses)) EXCEPT !.rest = @ \o left]

\* The loop of ReadCharacterInput: the cached bytes, then characters until the
\* buffer is full.
ReadChars(m, r) ==
    LET n == Least(r.amount, Len(m.text))
        after[k \in 0 .. Len(m.storage)] ==
          IF k = 0
          THEN [room |-> r.amount - n, out |-> SubSeq(m.text, 1, n),
                cache |-> SubSeq(m.text, n + 1, Len(m.text)), rest |-> <<>>]
          ELSE GetChar(after[k - 1], m.storage[k], r.unicode)
    IN  after[Len(m.storage)]

\* A buffer that is not full ends the loop with a failed GetChar, whose Read
\* switches the reading mode.
ReadCharsLeave(m, a) ==
    [out |-> a.out,
     state |-> [m EXCEPT !.storage = a.rest,
                         !.text = a.cache,
                         !.mode = IF a.room = 0 THEN @ ELSE "InputEventsW",
                         !.hInputEvent = @ /\ (a.rest # <<>> \/ m.storage = <<>>),
                         !.owed = Minus(@, Count(a.out))]]

\* ReadCharacterInput.
ReadCharsIn(m, r) == ReadCharsLeave(m, ReadChars(m, r))
ReadCharacterInput(s, r) ==
    ReadCharsIn(SwitchReadingMode(s, IF r.unicode THEN "StringW" ELSE "StringA"), r)

\* _CoalesceEvent.
Coalesces(last, e) ==
    \/ last.type = "mouse" /\ e.type = "mouse"
    \/ IsDown(last) /\ IsDown(e) /\ last.key = e.key

\* Flush.
Flush(s) == [s EXCEPT !.storage = <<>>, !.hInputEvent = FALSE,
                      !.owed = Minus(@, Count(Whole(s.storage)))]

-----------------------------------------------------------------------------
(* Wait blocks. *)

Reads(s, c) == s.request[c].kind \in {"direct", "raw"}

\* The blocks left in the queue of their process.
CompleteKeepsProcessQueue(s, cs) ==
    [s EXCEPT !.request = [c \in Clients |-> IF c \in cs THEN NoRequest ELSE @[c]],
              !.inputQueue = Without(@, cs),
              !.outputQueue = Without(@, cs),
              !.readCount = [h \in Handles |->
                  @[h] - Cardinality({c \in cs : Reads(s, c) /\ s.request[c].handle = h})]]

\* Replies are sent and the blocks deleted: ~ConsoleWaitBlock takes each one out
\* of both queues, ~ReadData lowers the handle's count.
Complete(s, cs) ==
    [s EXCEPT !.request = [c \in Clients |-> IF c \in cs THEN NoRequest ELSE @[c]],
              !.inputQueue = Without(@, cs),
              !.outputQueue = Without(@, cs),
              !.processQueue = [p \in Processes |-> Without(@[p], cs)],
              !.readCount = [h \in Handles |->
                  @[h] - Cardinality({c \in cs : Reads(s, c) /\ s.request[c].handle = h})]]

\* s_CreateWait for a call that cannot be answered yet.
CreateWait(s, c, r) ==
    LET t == [s EXCEPT !.request = [s.request EXCEPT ![c] = r],
                       !.processQueue = [s.processQueue EXCEPT ![ProcessOf(c)] = Append(@, c)]]
    IN  IF r.kind = "write"
        THEN [t EXCEPT !.outputQueue = Append(@, c)]
        ELSE [t EXCEPT !.inputQueue = Append(@, c),
                       !.readCount = [s.readCount EXCEPT ![r.handle] = @ + 1]]

\* The read of a GetConsoleInput ("direct") or of a ReadConsole ("raw").
DoRead(s, r) == IF r.kind = "direct" THEN Read(s, r) ELSE ReadCharacterInput(s, r)

\* DirectReadData::Notify and RAW_READ_DATA::Notify without a reason: the read is
\* tried again, and without data it goes on waiting.
Resume(s, c) ==
    LET read == DoRead(s, s.request[c])
    IN  IF read.out = <<>> THEN read.state ELSE Complete(read.state, {c})

\* Whether the waiters are done when they are notified of a reason to end.
DirectReadNotify(reason) == reason \in {"ThreadDying", "HandleClosing"}
RawReadNotify(reason) == reason \in {"CtrlBreak", "ThreadDying", "HandleClosing"}
WriteNotify(s, reason) == reason = "ThreadDying" \/ s.flags = {}

\* ConsoleWaitBlock::Notify dispatches to the waiter.
Notify(s, c, reason) ==
    \/ s.request[c].kind = "direct" /\ DirectReadNotify(reason)
    \/ s.request[c].kind = "raw" /\ RawReadNotify(reason)
    \/ s.request[c].kind = "write" /\ WriteNotify(s, reason)

\* NotifyWaiters(true, reason), which reads are given with a reason only: the
\* blocks of a queue that are done are deleted.
NotifyAll(s, queue, reason) == Complete(s, {c \in Range(queue) : Notify(s, c, reason)})

\* WakeUpReadersWaitingForData: NotifyWaiters(false).
WakeUpReaders(s) == IF s.inputQueue = <<>> THEN s ELSE Resume(s, Head(s.inputQueue))

\* Only the first of the writers resumed.
UnblockFirst(s, reason) ==
    LET t == [s EXCEPT !.flags = @ \ {reason}]
    IN  IF t.flags = {}
        THEN NotifyAll(t, SubSeq(t.outputQueue, 1, Least(1, Len(t.outputQueue))), "NoReason")
        ELSE t

\* UnblockWriteConsole.
UnblockWriteConsole(s, reason) ==
    LET t == [s EXCEPT !.flags = @ \ {reason}]
    IN  IF t.flags = {} THEN NotifyAll(t, t.outputQueue, "NoReason") ELSE t

-----------------------------------------------------------------------------
(* Writing to the input buffer. *)

\* One event of _WriteBuffer.  `single` says that it came alone.  In VT input
\* mode a press becomes the characters of its sequence, a release nothing.
WriteEvent(s, e, single) ==
    LET typed == [s EXCEPT !.owed = Plus(@, Count(Whole(<<e>>)))]
        last == Len(s.storage)
    IN  CASE IsDown(e) /\ "suspended" \in s.flags -> UnblockWriteConsole(s, "suspended")
          [] IsDown(e) /\ s.line /\ e.key = Pause /\ "suspended" \notin s.flags ->
                [s EXCEPT !.flags = @ \cup {"suspended"}]
          [] OTHER ->
                IF s.vt /\ e.type = "key"
                THEN IF e.down THEN [typed EXCEPT !.storage = Append(@, e)] ELSE s
                ELSE IF single /\ last > 0 /\ Coalesces(s.storage[last], e)
                     THEN IF e.type = "key"
                          THEN [typed EXCEPT !.storage[last].rep = @ + e.rep]
                          ELSE typed
                     ELSE [typed EXCEPT !.storage = Append(@, e)]

\* _WriteBuffer, for one event or two.
WriteBuffer(s, es) ==
    IF Len(es) = 1
    THEN WriteEvent(s, es[1], TRUE)
    ELSE WriteEvent(WriteEvent(s, es[1], FALSE), es[2], FALSE)

\* The event left alone when the buffer fills up.
WakeUpOnly(s, initiallyEmpty) == IF s.storage = <<>> THEN s ELSE WakeUpReaders(s)

\* _wakeupReadersImpl.
WakeUpOnExit(s, initiallyEmpty) ==
    IF s.storage = <<>>
    THEN s
    ELSE WakeUpReaders([s EXCEPT !.hInputEvent = @ \/ initiallyEmpty])

\* Write.
Write(s, es) == WakeUpOnExit(WriteBuffer(s, es), s.storage = <<>>)

\* Prepend.
Prepend(s, es) ==
    WakeUpOnExit([WriteBuffer([s EXCEPT !.storage = <<>>], es) EXCEPT !.storage = @ \o s.storage],
                 s.storage = <<>>)

\* Room for n more events in the model's storage.
Room(n) == Len(storage) + n <= MaxStorage /\ \A i \in DOMAIN storage : storage[i].rep < MaxRep

\* WriteConsoleInput, appending or prepending.
WriteConsoleInput ==
    \E es \in {<<Down(k)>> : k \in Keys} \cup {<<Down(k), Up(k)>> : k \in Keys} \cup {<<Move>>} :
        /\ connected # {} /\ Room(Len(es))
        /\ Become(Write(Now, es)) \/ Become(Prepend(Now, es))

\* HandleGenericKeyEvent: a key and its release, two calls of Write.
KeyEvent ==
    \E k \in Keys :
        /\ Room(2)
        /\ Become(Write(Write(Now, <<Down(k)>>), <<Up(k)>>))

\* HandleGenericKeyEvent for Ctrl+C, which no direct or raw read reacts to:
\* while output is suspended the key goes on to the buffer, as the resume key.
CtrlC ==
    /\ "suspended" \in flags /\ Room(1)
    /\ Become(Write(Write(Now, <<Down("c")>>), <<Up("c")>>))

\* HandleGenericKeyEvent for Ctrl+Break: flush, and end the raw reads.
CtrlBreak ==
    LET s == NotifyAll(Flush(Now), inputQueue, "CtrlBreak")
    IN  Become(IF "suspended" \in s.flags
               THEN Write(Write(s, <<Down("break")>>), <<Up("break")>>)
               ELSE s)

-----------------------------------------------------------------------------
(* The calls of the clients, and the handles they use. *)

\* A call on a handle: answered at once, or made to wait.
Call(c, r) ==
    LET read == DoRead(Now, r)
    IN  Become(IF read.out = <<>> /\ r.wait THEN CreateWait(read.state, c, r) ELSE read.state)

Free(c) == ProcessOf(c) \in connected /\ request[c] = NoRequest
Usable(c) == open \cap ({ProcessOf(c)} \cup Shared)
Req(kind, h, unicode, amount, peek, wait) ==
    [kind |-> kind, handle |-> h, unicode |-> unicode, amount |-> amount, peek |-> peek,
     wait |-> wait]

\* GetConsoleInputImpl for ReadConsoleInput.
GetConsoleInput ==
    \E c \in Clients, unicode \in BOOLEAN, amount \in Amounts : \E h \in Usable(c) :
        /\ Free(c)
        /\ Call(c, Req("direct", h, unicode, amount, FALSE, TRUE))

\* GetConsoleInputImpl for PeekConsoleInput, which never waits.
PeekConsoleInput ==
    \E c \in Clients, unicode \in IF AnsiPeek THEN BOOLEAN ELSE {TRUE}, amount \in Amounts :
        \E h \in Usable(c) :
            /\ Free(c)
            /\ Call(c, Req("direct", h, unicode, amount, TRUE, FALSE))

\* DoReadConsole outside line input mode.
ReadConsole ==
    \E c \in Clients, unicode \in BOOLEAN, amount \in Amounts : \E h \in Usable(c) :
        /\ Free(c) /\ ~line
        /\ Call(c, Req("raw", h, unicode, amount, FALSE, TRUE))

\* WriteConsoleWImpl: it waits while output is suspended.
WriteConsole ==
    \E c \in Clients :
        /\ Free(c) /\ flags # {}
        /\ Become(CreateWait(Now, c, [kind |-> "write"]))

\* Selection::_SetSelectingState(true), and ClearSelection.
Select == "selecting" \notin flags /\ Become([Now EXCEPT !.flags = @ \cup {"selecting"}])
ClearSelection == "selecting" \in flags /\ Become(UnblockWriteConsole(Now, "selecting"))

\* FlushConsoleInputBuffer.
FlushConsoleInputBuffer == connected # {} /\ Become(Flush(Now))

\* FlushAllButKeys, called by SetActiveScreenBuffer.
FlushAllButKeys ==
    /\ connected # {}
    /\ Become([Now EXCEPT !.storage = Without(@, {e \in Range(@) : e.type # "key"})])

\* SetConsoleInputModeImpl.
SetConsoleMode ==
    /\ connected # {}
    /\ \E m \in {<<TRUE, FALSE>>, <<FALSE, FALSE>>, <<FALSE, TRUE>>} :
          Become([Now EXCEPT !.line = m[1], !.vt = m[2]])

\* A connection with its own input handle, or CreateFile("CONIN$").
Connect ==
    \E p \in Processes \ connected :
        Become([Now EXCEPT !.connected = @ \cup {p}, !.open = @ \cup {p}])
CreateObject ==
    \E h \in Shared \ open : connected # {} /\ Become([Now EXCEPT !.open = @ \cup {h}])

\* A handle closed without waking the reads that wait through it.
CloseQuietly(s, h) ==
    LET t == [s EXCEPT !.open = @ \ {h}]
    IN  IF t.open = {} THEN [Flush(t) EXCEPT !.line = TRUE, !.vt = FALSE] ELSE t

\* _CloseInputHandle: every read waiting for the buffer is ended when one of
\* them uses this handle; with the last handle the buffer is reinitialized.
CloseInputHandle(s, h) ==
    LET t == [IF s.readCount[h] # 0 THEN NotifyAll(s, s.inputQueue, "HandleClosing") ELSE s
                EXCEPT !.open = @ \ {h}]
    IN  IF t.open = {} THEN [Flush(t) EXCEPT !.line = TRUE, !.vt = FALSE] ELSE t

\* ConsoleCloseObject.
CloseObject == \E h \in Shared \cap open : Become(CloseInputHandle(Now, h))

\* FreeProcessData: the input handle is closed first, then the process's queue
\* ends what still waits.
Disconnect ==
    \E p \in connected :
        LET s == CloseInputHandle(Now, p)
        IN  Become([NotifyAll(s, s.processQueue[p], "ThreadDying") EXCEPT !.connected = @ \ {p}])

Next ==
    \/ WriteConsoleInput \/ KeyEvent \/ CtrlC \/ CtrlBreak
    \/ GetConsoleInput \/ PeekConsoleInput \/ ReadConsole \/ WriteConsole
    \/ Select \/ ClearSelection \/ FlushConsoleInputBuffer \/ FlushAllButKeys \/ SetConsoleMode
    \/ Connect \/ CreateObject \/ CloseObject \/ Disconnect

Spec == Init /\ [][Next]_vars

-----------------------------------------------------------------------------
TypeOK ==
    /\ mode \in Modes /\ {hInputEvent, line, vt} \subseteq BOOLEAN
    /\ flags \subseteq {"suspended", "selecting"}
    /\ connected \subseteq Processes /\ open \subseteq Handles
    /\ \A h \in Handles : readCount[h] \in 0 .. Cardinality(Clients)
    /\ \A u \in Units : owed[u] \in Int
    /\ {inputQueue, outputQueue} \cup {processQueue[p] : p \in Processes} \subseteq Seq(Clients)
    /\ text # <<>> => mode = "StringA"
    /\ events # <<>> => mode = "InputEventsA"

\* A call without a reply has exactly one wait block, in the queue of its
\* process and in the queue of what it waits for, and no block outlives its
\* call: "when it is serviced, it must be removed from both so it is not double
\* processed" (WaitQueue.cpp:46-47).
QueuesAgree ==
    /\ TypeOK
    /\ \A p \in Processes :
          /\ IsInjective(processQueue[p])
          /\ Range(processQueue[p]) = {c \in Clients : ProcessOf(c) = p /\ request[c] # NoRequest}
    /\ IsInjective(inputQueue) /\ IsInjective(outputQueue)
    /\ Range(inputQueue) = {c \in Clients : request[c].kind \in {"direct", "raw"}}
    /\ Range(outputQueue) = {c \in Clients : request[c].kind = "write"}

\* No read waits through a closed handle or for a process that is gone, and the
\* count that makes _CloseInputHandle wake the reads is the number of reads.
NoReadOutlivesItsHandle ==
    /\ \A c \in Range(inputQueue) : request[c].handle \in open /\ ProcessOf(c) \in connected
    /\ \A h \in Handles :
          readCount[h] = Cardinality({c \in Range(inputQueue) : request[c].handle = h})

\* Nothing typed is lost, duplicated or torn: what has been neither read nor
\* discarded (by a flush, or by a read of another kind) is in the buffer,
\* although the bytes of one key may be spread over several reads.
InputIsConserved == Held = owed

\* A client that waits for the input handle is not left waiting while there is
\* input (the event is set only when an empty buffer is written to).
InputIsSignalled == storage # <<>> => hInputEvent

\* A write waits only while something suspends output: whatever clears the last
\* reason resumes them all.
BlockedWritesHaveReason == outputQueue # <<>> => flags # {}

\* "In the read case they are removed from the input buffer and in the peek
\* case they are not" (directio.cpp:30-31): a peek with nothing in the caches
\* leaves what later reads get as it is.  (With something there, it may be of
\* another kind of read, and the peek drops it: _switchReadingMode.)
PeekOnlyLooks ==
    [][PeekConsoleInput /\ text = <<>> /\ events = <<>> => Held' = Held]_vars

=============================================================================

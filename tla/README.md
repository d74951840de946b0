# A verification of the Terminal and the console host

TLA+ models of the concurrent core of this repository (Windows Terminal, the
console host `conhost`/`OpenConsole`, and the code they share), TLC
configurations that check them on small instances, and TLAPS proofs. Every
definition is translated from the C++ under `src/src/`; `PROJECT.json` maps each
one to its lines, and lists the runs, the hazards and the theorems.

Paths below are relative to `src/src/`.

## 1. The system

| Part | Where | State | Operations | Hard because |
|---|---|---|---|---|
| `ticket_lock`, `recursive_ticket_lock` | `inc/til/ticket_lock.h`, `inc/til/atomic.h` | two 32 bit counters; owner, recursion, suspensions | lock, unlock, suspend, end of a suspension | wrap-around, lost wake-ups, re-locking inside a suspension |
| Render thread | `renderer/base/thread.cpp`, `renderer.cpp` | two events, a stop flag, a thread handle, the synchronized-output flag | NotifyPaint, EnablePainting, TriggerTeardown, PaintFrame with retries, the wait for a synchronized update | three threads, an auto-reset event, a timeout, failing engines |
| Connection to a pseudoconsole | `cascadia/TerminalConnection/ConptyConnection.cpp`, `winconpty/winconpty.cpp` | connection state, pipe, overlapped read and write, output thread | Start, handoff, WriteInput, Resize, ShowHide, Close, `_OutputThread` | cancellation racing new I/O, reads one step ahead of processing, states reported by two threads |
| Console session in ConPTY mode | `host/VtIo.cpp`, `PtySignalInputThread.cpp`, `VtInputThread.cpp`, `input.cpp`, `server/ProcessList.cpp`, `IoDispatchers.cpp` | VtIo's state, process list, outstanding ctrl events, pipes | Initialize, StartIfNeeded, connect, disconnect, ctrl events, resize, broken pipes | the console lock is given up in the middle of three operations, and three threads notice the end |
| Console input and waiting calls | `host/inputBuffer.cpp`, `readDataDirect.cpp`, `readDataRaw.cpp`, `stream.cpp`, `server/WaitBlock.cpp`, `WaitQueue.cpp`, `ObjectHandle.cpp` | stored events, cached partial characters, wait blocks in two queues | read, peek, write, prepend, flush, suspend output, close handles and processes | a wait block has two owners; one character is spread over reads of different kinds and processes |
| Cooked reads, command history | `host/readDataCooked.cpp`, `history.cpp` | the line being edited | editing keys, popups | a wait that survives mode changes |
| Ring buffer | `inc/til/spsc.h` | two positions with flags, slots of raw memory | push, pop, drop, the last of two destroys | lock-free code, wrap-around, either side may go at any time |
| VT parser and its engines | `terminal/parser/stateMachine.cpp`, `InputStateMachineEngine.cpp` | parser state, parameters, the sequence so far | one per character of a text cut anywhere | sequences split over reads, refused sequences to be passed on whole |
| VT macros | `terminal/adapter/MacroBuffer.cpp`, `host/_stream.cpp` | macros, space used, nested invocations, injections | define, invoke, reset, write | the parser is re-entered while it runs |
| Throttled functions, VT dispatch, text buffer | `inc/til/throttled_func.h`, `terminal/adapter`, `buffer/out` | pending arguments and a timer; rows | call, flush; one per control function | a timer on another thread; size |
| Terminal control and application | `cascadia/TerminalControl`, `TerminalApp`, `WindowsTerminal` | tabs, panes, windows, a core per control | XAML handlers | coroutines that outlive what they use |
| AI additions | `cascadia/TerminalAI`, `AIChatConnection.cpp`, `AIConnection.cpp` | chat sessions, function tables | requests | answers come later, on another thread; the engines are simulations today |
| Engines, settings, property sheet, UIA, tools | elsewhere | | | sequential or pure I/O |

How they interact. A client process of the console talks to `conhost` through a
driver; the I/O thread of `conhost` serves its messages one at a time under the
console lock (a `recursive_ticket_lock`). What cannot be answered yet becomes a
wait block. The render thread and the input threads take the same lock. In ConPTY
mode `conhost` writes VT text into a pipe that `ConptyConnection` reads in the
terminal process, and is told about sizes, visibility and the end over a signal
pipe; there the terminal lock, another `recursive_ticket_lock`, guards the text
buffer that the terminal's own render thread draws.

Correctness rests on: the lock being exclusive, fair and free of lost wake-ups;
every change being drawn in the end; `Close` always returning; no output or input being lost, repeated or reordered; a closed
terminal ending its host and clients; no waiting call being forgotten or answered
twice; a text being understood the same way however it is cut into reads. The
properties below state these.

## 2. Modules

`FifoLock` is the abstract specification of a fair lock: a queue of threads and
whether its head is inside.

**`TicketLock`** has one step per access to `_next_ticket` and `_now_serving`,
with `WaitOnAddress` comparing and falling asleep in one step, spurious returns
included, and `unlock` advancing and notifying in two. The counter width is the
constant `TicketSpan` (2^32 in the code). `IsFifoLock` shows that it implements
`FifoLock`: the refinement mapping sorts the ticket holders by their distance
from `_now_serving`.

**`RecursiveTicketLock`** composes the steps of `TicketLock` with `_owner`,
`_recursion` and a stack of suspensions per thread. `calls` is a history
variable: `lock()` minus `unlock()` of each thread.

**`RenderThread`** has a render, an output and a host thread around a `FifoLock`
that stands for the console lock. `rt`, `vt` and `host` say where they are; each
action reaches from one blocking call, event or atomic to the next. An engine may
fail in any frame, and the build may be a debug or a release build. What is on
the screen is one bit, `dirty`.

**`ConptyConnection`** has the user-interface thread and `_OutputThread`, with a
`FifoLock` as `_writeLock`. Overlapped operations are `none`, `pending`, `done` or
`failed`. The console host is the environment: it writes numbered chunks, reads,
stops reading, or goes away. `InitializeFromHandoff` is a second initial state.

**`ConsoleSession`** has the I/O, the signal and the VT input thread. An action is
what a thread does between taking the console lock and giving it up, so the
places where the code gives it up half-way are the ends of actions: the wait for
the window thread, for the terminal's DA1 reply, and the `EndTask` calls that
`ProcessCtrlEvents` makes after its unlock. `aim` (the groups that the outstanding
events are meant for) and `closeLost` (a close event was discarded) are history
variables. Client processes start, connect, exit and create children, which lead
a process group of their own or join that of their parent.

**`ConsoleInput`** describes each critical section as an operator from one state
record to the next (`Now`, `Become`), so that a handler which calls others is
their composition: a write that wakes a reader whose read resets the input event
is one step, as in the code. A key has one or two bytes (`Wide`), which is what
tells the ANSI reads, that may split a character, from the others. `owed` is a
history variable: bytes that were typed and neither read nor discarded. It is a
number, so `InputIsConserved` is about how many bytes there are and not about
their order.

**`Spsc`** has the two sides of a channel. Every access to `_producer`,
`_consumer` and `_eitherSideDropped`, and every construction, move and
destruction of an item, is a step. A position is a record of its three fields
(offset, revolution flag, drop flag). A slot is raw memory, an item, or what is
left of a moved item. `pushed` and `popped` are history variables. Its promise is
**`BoundedChannel`**, a FIFO queue of at most `Capacity` items that loses items
only when its consumer is gone. The mapping (`IsChannel`) takes for the queue
what lies between the positions, less what a pop in progress has moved out.

**`StateMachine`** is the parser with one step per character of
`ProcessString`'s loop; `last` says whether the string ends with that character.
Each class of characters that the source's predicates tell apart has a member or
two. Collected parameters are kept as numbers; texts kept only to be handed on
are their lengths. `m.e` is the engine: the input engine with what makes it take
or refuse a sequence, or the output engine. A call of an engine may throw.
`held`, `seq`, `text` and `sent` are history variables: `seq` counts the
characters of the sequence that is being read since its introducer, remembers the
string (OSC, DCS, SOS, PM, APC) that an ESC may be about to terminate, and whether
a read ended inside the introducer of that string.

**`MacroBuffer`** has DECDMAC and DECINVM on tokens: a printable character or a
whole control sequence. `frames` are the nested calls of `ProcessString`, each
walking over the text of a macro in the buffer that this very text may redefine
or reset. `MacroIds` are the 64 macros of the code: the check `macroId < size()`
is the domain of the parameter. A macro id as a token stands
for the DECINVM of that macro. Around it is `WriteCharsVT` (`host/_stream.cpp`),
which uses the injections that the parser left behind. `resets`, `invoked` and `output` are
history variables. `VtLimits` declares the one limit that it shares with
`StateMachine`.

`MCOutput` and `MCVt` put two modules that share no state into one run. A
behaviour is one of the first module or one of the second, as `subject` says,
while the other stays in an initial state, so the reachable states are the union
of those of the two.

`RenderThread`, `ConptyConnection`, `ConsoleSession` and `ConsoleInput` use a
critical section of a lock as their unit of atomicity; `IsFifoLock` and the
theorems about `RecursiveTicketLock` are what justifies it.

## 3. Runs

| Run | Checks | Instance and bounds |
|---|---|---|
| `locks` | `MutualExclusion`, `TicketWindow`, `RecursionIsBalanced`, `OwnerIsInside`, `IsFifoLock`, `QueuedThreadEnters` | 3 threads; `TicketSpan` 3, the smallest the assumption allows, so the counters wrap around all the time; 3 nested locks per thread, 2 suspensions alive at a time, nested or of two threads |
| `output` | connection: `OutputInOrder`, `HandlesOutliveThread`, `WriteBufferIsStable`, `WindowIsInSync`, `CloseReturns`, `ExitIsReported`; rendering: `NoInvalidationIsLost`, `SyncFollowsMode`, `HandleMeansRunning`, `TeardownReturns`, `NotifiedChangeIsDrawn` | 2 chunks of output (one being processed while the next is read), 2 sizes; 3 threads, 3 attempts per frame |
| `session` | `ListMatchesClients`, `SizeIsCurrent`, `CtrlStaysInGroup`, `SettledConsoleExits` | 2 clients in one process group or in two, 2 sizes, ctrl keys alone, together and with echoed text, generated events for everybody, for a group and for the ID of a process that leads none, a window thread to wait for |
| `input` | `QueuesAgree`, `NoReadOutlivesItsHandle`, `InputIsConserved`, `InputIsSignalled`, `BlockedWritesHaveReason` | 2 processes with one thread each, one shared handle, 2 stored events, repeat counts of 2, reads of 1 or 3; peeks are Unicode |
| `spsc` | `SlotDiscipline`, `FreedByTheLast`, `NoLostWakeup`, `IsChannel`, `DropUnblocks` | 3 slots, 5 items (the positions wrap around), batches of up to 4, which is more than fits |
| `vt` | parser: `ParserIsReady`, `ParametersAreTheText`, `PassedThroughWhole`, `KeysAreNotHeld`; macros: `SpaceIsAccounted`, `InvocationIsBounded`, `MacroInUseIsStable`, `InvocationEnds` | 23 characters, both engines, up to 5 characters after Ground, 2 parameters, 1 sub-parameter, values to 20, 1 intermediate: every limit can be exceeded; 2 macros, 4 tokens of space, depth 2, strings of 2 tokens; definitions go on from one string to the next |

The first conjunct of one invariant of each run is the type invariant of its
module. A bound that is not in the code is a constant whose name starts with
`Max`. `spsc` does not check for deadlock: a channel is finished when both sides
are dropped. The only other standstill is that of a debug build in
`RundownAndExit` (below), which `MCOutput` names (`Standstill`).

The instance of `input` leaves out the ANSI peeks, with which the code does not
keep `InputIsConserved`; `input_peek` is the run with them.

Six runs are expected to end in a violation. Each states what a comment of the
code says, and TLC shows a behaviour of the code that differs.

* `render_sleep`: `_synchronizeWithOutput` passes `WaitOnAddress` the value to
  wait *for* where the value to wait *on* belongs (`renderer.cpp:228-237`): it
  spins during an update, and sleeps when the update has just ended, for the rest
  of the 100 ms.
* `conpty_last_output`: the last chunk is not raised when the host has closed the
  pipe before the next `ReadFile` (`ConptyConnection.cpp:759`).
* `session_groups`: a ctrl event generated for the ID of a listed process that
  leads no group is accepted, matches nobody, stays outstanding without its limit,
  and goes to all processes at the next unlock (`input.cpp:268-279`).
* `input_peek`: an ANSI peek that ends in the middle of a two-byte key caches the
  second byte although the key stays in the buffer (`inputBuffer.cpp:460`).
* `parser_flush`: a string that the input engine does not know is flushed without
  the part of its introducer that came with an earlier read: `_EnterDcsIgnore`,
  `_EnterDcsPassThrough` and `_EnterSosPmApcString` reset the cached sequence
  (`stateMachine.cpp:997`, `:1029`, `:1046`).
* `macro_injections`: `ProcessString` clears the injections, and a macro calls it
  again inside the string that found them (`stateMachine.cpp:1982`): a string that
  resets a mode the host relies on (DECRST) and then invokes a macro reaches the
  terminal without the sequence that sets the mode again. RIS also empties the
  macro buffer (`adaptDispatch.cpp:3089`), so after it the macro has to be defined
  again in the same string.

Further behaviours that the models have because the code has them, and that the
properties are stated around:

* When the last attempt of a frame fails after `TriggerTeardown` has set `_enable`,
  `DisablePainting` resets the event and the teardown waits without end
  (`renderer.cpp:64`, `thread.cpp:95-101`). `TeardownReturns` and
  `NotifiedChangeIsDrawn` are stated for behaviours in which no frame uses up its
  attempts.
* A debug build's `RundownAndExit` waits for the render thread with the console
  lock held, which that thread may be waiting for (`ServiceLocator.cpp:75`).
  `TeardownReturns` leaves `RundownAndExit` out.
* A change that was notified but not drawn when the teardown begins is not drawn.
* A client whose connect request is served after the close event was sent is
  never told to exit, and a close event sent while the first client waits for the
  window thread (`srvinit.cpp:893`) reaches a client that cannot react yet. In
  both cases the host stays until that client exits by itself:
  `SettledConsoleExits` is stated for behaviours without such a client.
* `CtrlStaysInGroup` says of events for groups only what is left of the comments
  after `session_groups`: they stay in their groups unless one of the IDs names a
  process that leads no group. That an event for everybody is never narrowed by
  the group of an earlier one is stated without exception.
* Two different ctrl events that are dispatched together discard each other,
  because `ProcessCtrlEvents` knows single flags only (`input.cpp:287-321`). If one
  of them is `CTRL_CLOSE_EVENT`, for example because Ctrl+C and an echoed key come
  in one read while the output pipe is broken, `_closeEventSent` keeps it from
  being sent again, and the host lives as long as its clients:
  `SettledConsoleExits` allows for it (`closeLost`), and for nothing else but the
  late clients above.
* A process that `GenerateConsoleCtrlEvent` added to the process list before it
  connects has its own connect request refused.
* Closing one handle that a read waits through ends all waiting reads, those of
  other processes as well (`ObjectHandle.cpp:237-240`).
* `NotifyWaiters(false)` wakes the first waiting read only; a second read goes on
  waiting although a write left input for it too.
* `WriteInput` resets `_hPC` under `_writeLock` and `Close` resets it without
  (`ConptyConnection.cpp:586`); the model takes each reset as one step.
* `FlushAllButKeys` may leave the input event set over an empty buffer.
* `_EventDcsParam` lacks an `else` (`stateMachine.cpp:1773`): a control character
  among the parameters of a DCS is ignored and then dispatched as its final.
* Sub-parameters that follow a parameter beyond the limit are attached to the last
  parameter that was accepted; `ParametersAreTheText` compares sub-parameters
  only below the limit.
* A DCS that is cancelled or interrupted leaves `_expectingStringTerminator` set,
  and the next Alt+\ is passed through as the terminator.
* A C0 control executed inside a sequence that is refused later is delivered
  twice, once executed and once in what is passed through.
* `PassedThroughWhole` exempts the strings of `parser_flush`: those whose
  introducer was cut by a read (`sent.cut`). For all the others, strings that are
  cut in their body included, what is flushed reaches back to the introducer, and
  nothing from before the last return to Ground is flushed with it.

## 4. Fairness

Safety needs none. For liveness:

* `RecursiveTicketLock`: every thread inside `lock()` or `unlock()` is scheduled.
  That holders let go in the end is a premise of `QueuedThreadEnters`; the
  callers in the code are scope guards.
* `RenderThread`: weak fairness of the three threads. Strong fairness of
  `RtElapsed`, because the 100 ms pass however often an application toggles the
  mode, and of `VtUnlock`, because a chunk of output is finite. Nothing makes
  the application end a synchronized update.
* `ConptyConnection`: the two threads are scheduled, a read that can complete
  does, and a pending write fails once the host is gone. The host need not read,
  write or exit. The user need not call `Close`.
* `ConsoleSession`: the threads are scheduled; a client that was sent
  `CTRL_CLOSE_EVENT` exits, since the system ends it after a timeout; the
  terminal and the other clients do as they like.
* `Spsc`: both sides are scheduled inside a member function. Neither has to call
  one.
* `MacroBuffer`: the thread that processes a macro goes on.

## 5. Proofs

All of them hold for every value of the constants that satisfies the named
assumptions.

**The ticket lock** (`TicketLockProofs`; finite `Threads`, and a counter width not
smaller than their number, `TicketSpanAssumption`). `TicketWindowHolds`,
`LockExcludes`. `MutualExclusion` is not inductive: two threads inside could only
be told apart by their tickets, and a ticket only says something relative to both
counters. The invariant is `IInv == TypeOK /\ TicketWindow`: tickets in use are
distinct, their distances from `_now_serving` are smaller than the number of
holders, `_next_ticket` is exactly that number ahead, and only the holder of the
ticket being served is inside. `HoldersFit` is where the assumption enters: a
thread outside `lock()` leaves room for one more ticket before the counter comes
round. `fetch_add` on `_next_ticket` extends the window at its end, `fetch_add` on
`_now_serving` shortens it at its front and shifts the distances, the other steps
leave it alone (`WindowKept`). `LockIsFifo` is the refinement of `FifoLock`: since
the window has no gaps (`Filled`), the thread at place i of the mapped queue is
the one whose distance is i - 1 (`LineFacts`), so that a new ticket appends to the
queue and serving the next one takes its head off.

**The recursive lock** (same module, also `NoThreadAssumption`).
`UsesTicketLock` shows that every step is a step of the ticket lock or leaves it
alone, which carries the above over (`RecursiveLockExcludes`, `RecursiveLockIsFifo`). `RInv` adds which
part of `_lock` each member function may be in, that `_owner` is 0 exactly when
`_recursion` is, and that only suspensions that gave up the lock have a count to
restore; from it follow `OwnerIsTheOneInside` and `NobodyInheritsACount`.
`RecursionIsBalancedHolds` is about a sum over a stack of suspensions of any
height. `Total` is a recursive function; `NatSetInduction` (induction for a set
instead of a predicate, derived from the well-foundedness of `<`) shows that it is
what its definition says (`TotalIsSum`), and `TotalStep` that a suspension more
adds its count.

**The render thread** (`RenderThreadProofs`; `MaxTries` positive).
`NoInvalidationIsLostHolds`, `HandleMeansRunningHolds` and
`SyncFollowsModeHolds`. The strengthening
(`IInv`) says that an attempt is left while a frame is being tried, that the lock
has a queue behind its holder, and, for the handle, that a thread exits only
after `_keepRunning` was reset, and that while there is a handle this flag is off
only between `HostStop` and `HostJoin`. One step per action.

**The connection** (`ConptyConnectionProofs`; any number of chunks, any sizes).
`OutputInOrderHolds`, `HandlesOutliveThreadHolds`, `WriteBufferIsStableHolds`,
`WindowIsInSyncHolds`. The invariant says where each thread may be relative to the
other (`ThreadOK`, `StateOK`), that the head of `_writeLock`'s queue is the only
thread past it and that a pending write is flagged or waited for (`LockOK`,
`WriteOK`), that the chunk read last is at most one ahead of the string
(`ReadOK`, `Ahead`), and that all strings but perhaps the last are raised
(`RaisedOK`).

**The session** (`ConsoleSessionProofs`; any clients and sizes).
`ListMatchesClientsHolds` and `SizeIsCurrentHolds` rest on what a thread will do
after its `EndTask` calls (`At`, `TaskOK`), on who is being connected while the I/O
thread waits without the lock (`ListOK`), and on the console being connected to the
signal thread once, after the wait for DA1 (`SizeOK`). `CtrlStaysInGroupHolds`
rests on `CtrlOK`: between critical sections there is no limit, and an event is
outstanding only if it was meant for a process that leads no group (`Astray`), or
for everybody while there was nobody to send it to. `RecordsFacts`
shows by induction what `GetTerminationRecordsByGroupId` collects.

**Macros** (`MacroBufferProofs`; any macros, space, depth, tokens).
`SpaceIsAccountedHolds`, `InvocationIsBoundedHolds`, `MacroInUseIsStableHolds`. Space
is counted as pairs of a macro and an index, and so is what is left to run, as
pairs of a nested call and an index behind its offset: what was run and what is
left together are what `InvokeMacro` counted (`Counting`). The other parts: no
definition is parsed while a macro runs (`Defining`), which is why `InitParser`
refuses, and a buffer that a reset has released while it was in use holds
overwritten text (`Released`).

**The ring buffer** (`SpscProofs`; positive `Capacity`). `TypesHold`, `SlotDisciplineHolds`,
`FreedByTheLastHolds`, `NoLostWakeupHolds`. The invariant: what a side acquired
begins at its position and ends at or before the end of the buffer, and it stays
inside its part although the other side moves on, because a consumer's items and
a producer's room can only grow (`Room`). From the numbers follow the lifetimes
of the slots (`SlotsOK`) and the numbering of the items (`Constructed`).
`ProducerAdvances` and `ConsumerAdvances` are the arithmetic of the revolution
flag. `NoLostWakeup` needs nothing but the types. `RingBufferIsChannel` shows that
every step maps to a step of `BoundedChannel` or to none: a release of the
producer appends what it constructed, a move of the consumer takes the head, and
all the others leave the mapped queue alone (`OutsideQueue`).

**Console input** (`InputBufferProofs`, `ConsoleInputProofs`; finite `Processes` and
`Threads`, `InputAssumption`; any keys, handles, read sizes and lengths of the
storage). `WaitBlocksAgree`, `ReadsEndWithTheirHandle`, `WritesWaitForAReason` and
`TheEventIsSet` hold always. `NothingTypedIsLost` is proved for
`~AnsiPeek`, the case the run `input` checks: with `PeekConsoleInputA` it is false,
as `input_peek` shows, which is also why the type of the history variable `owed` is
`Int` (it says nothing more; `InputIsConserved` makes it a number of bytes).
Since the operators map states to states, the invariant `Inv == Good(Now)` is about
one state record. `Waits` says that each call without a reply has one block in each of
its two queues and that the handles' counts are the numbers of such reads;
`Attached` that nobody reads through a closed handle; `Blocked` that a blocked write
has a reason; `Cached` that leftovers belong to the reading mode, without which a read
would drop or duplicate them; `Signalled` and `Conserved` are the two properties of
the buffer. Each operator is shown to keep them (`Follows(s, t)`), so that the five
lemmas about the actions only compose. Closing a handle shows why they belong
together: a count of 0 lets `_CloseInputHandle` skip the notification, which is right
only because counts and queues agree, and `FreeProcessData` relies on the process
queue naming all that is left.
The amounts are what the loops compute. `Recursion` shows that the recursive
functions of the model unfold (as `Unfolds` says), `UpTo` and `SeqSetInduction` are
induction over indices and over the length of a sequence. With them, `CountConcat`
and `CountSplit` make `Count` additive, `EventsRead` and `CharsRead` are the loop
invariants of `InputBuffer::Read` and `ReadCharacterInput` (what was delivered, what
is cached and what is left add up to what there was), and `Written` says that
`_WriteBuffer`, with coalescing, suspension keys and VT input, stores exactly what it
adds to the debt.

Only model-checked: liveness (the prover has no fairness or `ENABLED`), and the
properties of `StateMachine`.

## 6. Not modelled

Not modelled although a model is within reach: throttled functions, cooked reads
on top of the wait blocks of `ConsoleInput`, the hand-over between connections in
`ControlCore`, the AI connections (whose engines answer from thread pool threads,
possibly after `Close`), the hand-over of a command line between processes in
`WindowEmperor`, and pipes of a bounded capacity between `VtIo`'s writer and
`ConptyConnection`, where each side may wait for the other.

Rendering engines and the content of a frame, fonts and colours, the
interpretation of VT sequences and the text buffer, settings and their editor,
XAML and window procedures, text services, accessibility providers, the property
sheet, developer tools, the AI engines, and the vendored `aichat`, `argc`, `clii`
and `llm-functions`: mostly sequential, I/O, simulations, or not part of the built
program. `PROJECT.json` gives the reason for each. The modelled files are a small
part of the repository, most of whose lines belong to these parts.

Inside the modelled parts: scrollbar tracking as a third reason to block output,
and key events that `IsSystemKey` keeps from ending a pause; in
`ConptyConnection::WriteInput` the return when `u16u8` fails and the logging of
errors other than the two that are handled; texts, command lines, environments and error messages;
the reuse of process and thread IDs; repeat counts beyond a `WORD`; weak memory
orders (the models interleave the atomic accesses, in `TicketLock` and in `Spsc`);
the overlap of the fields of a 32-bit position for capacities of 2^30 and more;
item types that throw; allocation failures outside the error paths that the code
handles.

-------------------------- MODULE ConptyConnection --------------------------
(***************************************************************************)
(* ConptyConnection (src/src/cascadia/TerminalConnection/                  *)
(* ConptyConnection.cpp) with the state gradient of BaseTerminalConnection *)
(* and the pseudoconsole API of winconpty.cpp: the life of a connection    *)
(* from Start to Close.                                                    *)
(*   "ui"   the thread that calls Start, Resize, ShowHide, WriteInput and  *)
(*          Close;                                                         *)
(*   "out"  _OutputThread, which reads the pipe, raises TerminalOutput,    *)
(*          and may answer a query with WriteInput.                        *)
(* The console host at the other end (`peer`) is the environment: it       *)
(* writes, reads and goes away as it likes.  Chunks of output are numbered *)
(* in the order in which it writes them.                                   *)
(***************************************************************************)
EXTENDS Integers, Sequences

CONSTANTS
    MaxChunks,      \* bound on the chunks of output the host writes
    Sizes           \* the window sizes

ASSUME ConptyAssumption == MaxChunks \in Nat /\ Sizes # {}

VARIABLES
    state,          \* _connectionState
    pc,             \* where the two threads are
    pipe,           \* _pipe is open
    hPC,            \* _hPC: "none" or "open"
    thread,         \* _hOutputThread holds a handle
    size, ptySize,  \* _rows/_cols, and what the pseudoconsole was told
    visible, ptyVisible,    \* the window's visibility, and what the pseudoconsole was told
    peer,           \* the console host is running and has its end of the pipe open
    exitCode,       \* of the client process
    sent, consumed, \* chunks written by the host, chunks read from the pipe
    rio,            \* the overlapped read: "none", "pending", "done", "failed"
    rd,             \* the chunk in _OutputThread's `buffer`
    wstr,           \* the chunk in its `wstr`, 0 when empty
    raised,         \* history: the chunks raised with TerminalOutput
    wio,            \* the overlapped write, likewise
    writePending,   \* _writePending
    queue, inside   \* _writeLock, a ticket lock

ptyVars == <<pipe, hPC, thread>>
winVars == <<size, ptySize, visible, ptyVisible>>
peerVars == <<peer, exitCode, sent>>
readVars == <<consumed, rio, rd, wstr, raised>>
writeVars == <<wio, writePending, queue, inside>>
lockVars == <<queue, inside>>
vars == <<state, pc, ptyVars, winVars, peerVars, readVars, writeVars>>

\* The values of the enum class ConnectionState.
NotConnected == 0
Connecting == 1
Connected == 2
Closing == 3
Closed == 4
Failed == 5

IoStates == {"none", "pending", "done", "failed"}
WriteSteps == {"check", "lock", "queued", "wait", "write"}
UiPlaces == {"new", "starting", "launched", "threaded", "failed", "idle", "closing", "cancel",
             "join", "reset", "closed"} \cup WriteSteps
OutPlaces == {"none", "read", "raise", "result", "convert", "cleanup", "message", "exited"}
             \cup WriteSteps

writeLock == INSTANCE FifoLock WITH Threads <- {"ui", "out"}

TypeOK ==
    /\ state \in NotConnected .. Failed
    /\ pc \in [ui : UiPlaces, out : OutPlaces]
    /\ {pipe, thread, visible, ptyVisible, peer, writePending} \subseteq BOOLEAN
    /\ hPC \in {"none", "open"}
    /\ {size, ptySize} \subseteq Sizes
    /\ exitCode \in {"active", "zero", "error"}
    /\ {sent, consumed, rd, wstr} \subseteq 0 .. MaxChunks
    /\ rio \in IoStates /\ wio \in IoStates
    /\ raised \in Seq(1 .. MaxChunks)
    /\ writeLock!TypeOK

\* A new connection, or one handed off by a console host that is running
\* already (InitializeFromHandoff).
Init ==
    /\ state = NotConnected
    /\ pc = [ui |-> "new", out |-> "none"]
    /\ \E handoff \in BOOLEAN :
         pipe = handoff /\ hPC = (IF handoff THEN "open" ELSE "none") /\ peer = handoff
    /\ thread = FALSE
    /\ size \in Sizes /\ ptySize \in Sizes /\ visible = TRUE /\ ptyVisible = FALSE
    /\ exitCode = "active" /\ sent = 0
    /\ consumed = 0 /\ rio = "none" /\ rd = 0 /\ wstr = 0 /\ raised = <<>>
    /\ wio = "none" /\ writePending = FALSE /\ writeLock!Init

Goto(t, l) == pc' = [pc EXCEPT ![t] = l]

\* _transitionToState: only up the state gradient.
Transition(s) == state' = IF s < state THEN state ELSE s

-----------------------------------------------------------------------------
(* Start *)

StartConnecting ==
    /\ pc.ui = "new"
    /\ Transition(Connecting)
    /\ Goto("ui", "starting")
    /\ UNCHANGED <<ptyVars, winVars, peerVars, readVars, writeVars>>

\* Start that tells the pseudoconsole nothing about the window's visibility.
StartLaunchStaysHidden ==
    /\ pc.ui = "starting"
    /\ Goto("ui", "launched")
    /\ pipe' = TRUE /\ hPC' = "open" /\ peer' = TRUE
    /\ ptySize' = size
    /\ UNCHANGED <<state, thread, size, visible, ptyVisible, exitCode, sent, readVars, writeVars>>

\* Without a pipe, create the pseudoconsole and launch the client in it; with
\* one, a handoff, tell the pseudoconsole about the window.  A visible window
\* is announced.  Then ConptyReleasePseudoConsole.
StartLaunch ==
    /\ pc.ui = "starting"
    /\ ~pipe \/ peer
    /\ Goto("ui", "launched")
    /\ pipe' = TRUE /\ hPC' = "open" /\ peer' = TRUE
    /\ ptySize' = size
    /\ ptyVisible' = (visible \/ ptyVisible)
    /\ UNCHANGED <<state, thread, size, visible, exitCode, sent, readVars, writeVars>>

\* A step throws, before or after the pseudoconsole has been created; what was
\* created so far stays until the catch block.
StartThrows ==
    /\ pc.ui \in {"starting", "launched"}
    /\ Goto("ui", "failed")
    /\ \/ UNCHANGED <<ptyVars, peer>>
       \/ pc.ui = "starting" /\ ~pipe /\ pipe' = TRUE /\ hPC' = "open" /\ peer' = TRUE /\ UNCHANGED thread
    /\ UNCHANGED <<state, winVars, exitCode, sent, readVars, writeVars>>

\* The catch block.
StartFailed ==
    /\ pc.ui = "failed"
    /\ Transition(Failed)
    /\ hPC' = "none"
    /\ Goto("ui", "idle")
    /\ UNCHANGED <<pipe, thread, winVars, peerVars, readVars, writeVars>>

StartThread ==
    /\ pc.ui = "launched"
    /\ thread' = TRUE
    /\ pc' = [ui |-> "threaded", out |-> "read"]
    /\ UNCHANGED <<state, pipe, hPC, winVars, peerVars, readVars, writeVars>>

StartConnected ==
    /\ pc.ui = "threaded"
    /\ Transition(Connected)
    /\ Goto("ui", "idle")
    /\ UNCHANGED <<ptyVars, winVars, peerVars, readVars, writeVars>>

-----------------------------------------------------------------------------
(* Resize, ShowHide *)

\* Tell the pseudoconsole: a null handle or a host that is gone makes it throw.
PtyTold == state = Connected /\ hPC = "open" /\ peer

Resize(s) ==
    /\ pc.ui \in {"new", "idle"}
    /\ size' = s
    /\ ptySize' = IF PtyTold THEN s ELSE ptySize
    /\ UNCHANGED <<state, pc, ptyVars, visible, ptyVisible, peerVars, readVars, writeVars>>

ShowHide(show) ==
    /\ pc.ui \in {"new", "idle"}
    /\ visible' = show
    /\ ptyVisible' = IF PtyTold THEN show ELSE ptyVisible
    /\ UNCHANGED <<state, pc, ptyVars, size, ptySize, peerVars, readVars, writeVars>>

-----------------------------------------------------------------------------
(* WriteInput, called by the user interface or from within TerminalOutput *)

\* Where WriteInput returns to.
Caller(t) == IF t = "ui" THEN "idle" ELSE "result"

WriteBegin ==
    /\ pc.ui = "idle"
    /\ Goto("ui", "check")
    /\ UNCHANGED <<state, ptyVars, winVars, peerVars, readVars, writeVars>>

\* if (!_isConnected()) return;
WriteCheck(t) ==
    /\ pc[t] = "check"
    /\ Goto(t, IF state = Connected THEN "lock" ELSE Caller(t))
    /\ UNCHANGED <<state, ptyVars, winVars, peerVars, readVars, writeVars>>

\* Take _writeLock; the previous write may be pending.
WriteLock(t) ==
    /\ \/ /\ pc[t] = "lock"
          /\ writeLock!Ask(t)
          /\ Goto(t, "queued")
          /\ UNCHANGED writePending
       \/ /\ pc[t] = "queued"
          /\ writeLock!Enter(t)
          /\ Goto(t, IF writePending THEN "wait" ELSE "write")
          /\ writePending' = FALSE
    /\ UNCHANGED <<state, ptyVars, winVars, peerVars, readVars, wio>>

\* The previous write not waited for.
WriteNoWait(t) ==
    /\ pc[t] = "wait"
    /\ Goto(t, "write")
    /\ UNCHANGED <<state, ptyVars, winVars, peerVars, readVars, writeVars>>

\* GetOverlappedResult for the previous write; a failure kills the connection.
WriteWait(t) ==
    /\ pc[t] = "wait"
    /\ \/ wio = "done" /\ Goto(t, "write") /\ UNCHANGED <<hPC, lockVars>>
       \/ wio = "failed" /\ hPC' = "none" /\ writeLock!Leave(t) /\ Goto(t, Caller(t))
    /\ UNCHANGED <<state, pipe, thread, winVars, peerVars, readVars, wio, writePending>>

\* Convert into _writeBuffer and WriteFile: done, pending, or a broken pipe.
WriteFile(t) ==
    /\ pc[t] = "write"
    /\ \/ peer /\ wio' = "done" /\ UNCHANGED <<hPC, writePending>>
       \/ peer /\ wio' = "pending" /\ writePending' = TRUE /\ UNCHANGED hPC
       \/ ~peer /\ hPC' = "none" /\ UNCHANGED <<wio, writePending>>
    /\ writeLock!Leave(t)
    /\ Goto(t, Caller(t))
    /\ UNCHANGED <<state, pipe, thread, winVars, peerVars, readVars>>

WriteStep(t) == WriteCheck(t) \/ WriteLock(t) \/ WriteWait(t) \/ WriteFile(t)

-----------------------------------------------------------------------------
(* _OutputThread *)

\* ReadFile: data at once, a pending read, or a broken pipe, which ends the loop.
OutRead ==
    /\ pc.out = "read"
    /\ IF consumed < sent
       THEN rio' = "done" /\ consumed' = consumed + 1 /\ rd' = consumed + 1 /\ Goto("out", "raise")
       ELSE /\ rio' = IF peer THEN "pending" ELSE "failed"
            /\ Goto("out", IF peer THEN "raise" ELSE "cleanup")
            /\ UNCHANGED <<consumed, rd>>
    /\ UNCHANGED <<state, ptyVars, winVars, peerVars, wstr, raised, writeVars>>

\* Raise what the previous read returned; the handler may answer a query.
OutRaise ==
    /\ pc.out = "raise"
    /\ IF wstr = 0
       THEN Goto("out", "result") /\ UNCHANGED raised
       ELSE raised' = Append(raised, wstr) /\ \E l \in {"result", "check"} : Goto("out", l)
    /\ UNCHANGED <<state, ptyVars, winVars, peerVars, consumed, rio, rd, wstr, writeVars>>

\* A pending read not waited for.
OutResultStale ==
    /\ pc.out = "result"
    /\ Goto("out", "convert")
    /\ UNCHANGED <<state, ptyVars, winVars, peerVars, readVars, writeVars>>

\* Wait for the read; a failure ends the loop.
OutResult ==
    /\ pc.out = "result"
    /\ rio # "pending"
    /\ Goto("out", IF rio = "done" THEN "convert" ELSE "cleanup")
    /\ UNCHANGED <<state, ptyVars, winVars, peerVars, readVars, writeVars>>

\* A closing connection ends the loop, otherwise the bytes become the next string.
OutConvert ==
    /\ pc.out = "convert"
    /\ IF state >= Closing
       THEN Goto("out", "cleanup") /\ UNCHANGED wstr
       ELSE wstr' = rd /\ Goto("out", "read")
    /\ UNCHANGED <<state, ptyVars, winVars, peerVars, consumed, rio, rd, raised, writeVars>>

\* The message shown, but the state left as it is.
OutCleanupSilent ==
    /\ pc.out = "cleanup"
    /\ Goto("out", "message")
    /\ UNCHANGED <<state, ptyVars, winVars, peerVars, readVars, writeVars>>

\* _LastConPtyClientDisconnected: the exit code decides between Closed and Failed ...
OutCleanup ==
    /\ pc.out = "cleanup"
    /\ Transition(IF exitCode = "error" THEN Failed ELSE Closed)
    /\ Goto("out", "message")
    /\ UNCHANGED <<ptyVars, winVars, peerVars, readVars, writeVars>>

\* ... and the exit is announced, the last thing the thread raises.
OutMessage ==
    /\ pc.out = "message"
    /\ Goto("out", "exited")
    /\ UNCHANGED <<state, ptyVars, winVars, peerVars, readVars, writeVars>>

OutStep == OutRead \/ OutRaise \/ OutResult \/ OutConvert \/ OutCleanup \/ OutMessage \/ WriteStep("out")

-----------------------------------------------------------------------------
(* Close *)

CloseBegin ==
    /\ pc.ui \in {"new", "idle"}
    /\ Transition(Closing)
    /\ Goto("ui", "closing")
    /\ UNCHANGED <<ptyVars, winVars, peerVars, readVars, writeVars>>

\* _hPC.reset(); without an output thread there is nobody to wait for.
ClosePseudoConsole ==
    /\ pc.ui = "closing"
    /\ hPC' = "none"
    /\ Goto("ui", IF thread THEN "cancel" ELSE "reset")
    /\ UNCHANGED <<state, pipe, thread, winVars, peerVars, readVars, writeVars>>

Cancelled(io) == IF io = "pending" THEN "failed" ELSE io

\* CancelIoEx(_pipe, nullptr)
CloseCancel ==
    /\ pc.ui = "cancel"
    /\ rio' = Cancelled(rio) /\ wio' = Cancelled(wio)
    /\ Goto("ui", "join")
    /\ UNCHANGED <<state, ptyVars, winVars, peerVars, consumed, rd, wstr, raised, writePending, lockVars>>

\* The timeout taken for the end of the thread.
CloseJoinGivesUp ==
    /\ pc.ui = "join"
    /\ Goto("ui", "reset")
    /\ UNCHANGED <<state, ptyVars, winVars, peerVars, readVars, writeVars>>

\* One CancelIoEx and an infinite wait.
CloseJoinOnce ==
    /\ pc.ui = "join"
    /\ pc.out = "exited"
    /\ Goto("ui", "reset")
    /\ UNCHANGED <<state, ptyVars, winVars, peerVars, readVars, writeVars>>

\* Wait a second for the thread, and cancel again if it is still there.
CloseJoin ==
    /\ pc.ui = "join"
    /\ Goto("ui", IF pc.out = "exited" THEN "reset" ELSE "cancel")
    /\ UNCHANGED <<state, ptyVars, winVars, peerVars, readVars, writeVars>>

\* The handles are released, and a connection without a thread becomes Closed.
CloseReset ==
    /\ pc.ui = "reset"
    /\ thread' = FALSE /\ pipe' = FALSE
    /\ Transition(Closed)
    /\ Goto("ui", "closed")
    /\ UNCHANGED <<hPC, winVars, peerVars, readVars, writeVars>>

-----------------------------------------------------------------------------
(* The console host and its client *)

PeerWrites ==
    /\ peer /\ sent < MaxChunks
    /\ sent' = sent + 1
    /\ UNCHANGED <<state, pc, ptyVars, winVars, peer, exitCode, readVars, writeVars>>

ClientExits ==
    /\ peer /\ exitCode = "active"
    /\ exitCode' \in {"zero", "error"}
    /\ UNCHANGED <<state, pc, ptyVars, winVars, peer, sent, readVars, writeVars>>

PeerExits ==
    /\ peer
    /\ peer' = FALSE
    /\ UNCHANGED <<state, pc, ptyVars, winVars, exitCode, sent, readVars, writeVars>>

\* A pending read completes, or fails when the pipe is broken.
ReadCompletes ==
    /\ rio = "pending"
    /\ \/ consumed < sent /\ rio' = "done" /\ consumed' = consumed + 1 /\ rd' = consumed + 1
       \/ consumed = sent /\ ~peer /\ rio' = "failed" /\ UNCHANGED <<consumed, rd>>
    /\ UNCHANGED <<state, pc, ptyVars, winVars, peerVars, wstr, raised, writeVars>>

\* A pending write is read by the host, or fails.
WriteCompletes ==
    /\ wio = "pending"
    /\ wio' = IF peer THEN "done" ELSE "failed"
    /\ UNCHANGED <<state, pc, ptyVars, winVars, peerVars, readVars, writePending, lockVars>>

Peer == PeerWrites \/ ClientExits \/ PeerExits \/ ReadCompletes \/ WriteCompletes

StartStep == StartLaunch \/ StartThrows \/ StartFailed \/ StartThread \/ StartConnected
CloseStep == ClosePseudoConsole \/ CloseCancel \/ CloseJoin \/ CloseReset

Done == pc.ui = "closed" /\ UNCHANGED vars

Next ==
    \/ StartConnecting \/ StartStep
    \/ WriteBegin \/ WriteStep("ui")
    \/ \E s \in Sizes : Resize(s)
    \/ \E show \in BOOLEAN : ShowHide(show)
    \/ CloseBegin \/ CloseStep
    \/ OutStep
    \/ Peer
    \/ Done

Spec == Init /\ [][Next]_vars

\* The scheduler runs both threads, and I/O that can complete does.  Nothing
\* is assumed of the host: it may stop reading and never go away.
Fairness ==
    /\ WF_vars(CloseStep)
    /\ WF_vars(OutStep)
    /\ WF_vars(WriteStep("ui"))
    /\ WF_vars(ReadCompletes)
    /\ WF_vars(~peer /\ WriteCompletes)

FairSpec == Spec /\ Fairness

-----------------------------------------------------------------------------
\* Output is raised in the order in which the host wrote it, nothing twice and
\* nothing left out, although the next read is started before the previous
\* string is processed and both share one buffer.
OutputInOrder == TypeOK /\ Len(raised) <= sent /\ \A i \in 1 .. Len(raised) : raised[i] = i

\* The pipe and the process handle are released only when the output thread,
\* which uses both until its last step, has ended; and then no event reaches
\* a destroyed handler (GH#13880, ConptyConnection.cpp:674-676).
HandlesOutliveThread ==
    /\ pc.out \notin {"none", "exited"} => pipe /\ thread
    /\ pc.ui = "closed" => pc.out \in {"none", "exited"}

\* _writeBuffer is not overwritten while the kernel still reads from it for a
\* pending write, whichever thread wrote last.
WriteBufferIsStable == \A t \in {"ui", "out"} : pc[t] = "write" => wio # "pending"

\* Once connected the pseudoconsole has the window's size and visibility, also
\* those that were set before there was a pseudoconsole.
WindowIsInSync ==
    state = Connected /\ pc.ui = "idle" /\ hPC = "open" /\ peer =>
        ptySize = size /\ ptyVisible = visible

\* Close returns, even if the host never goes away, whatever the output thread
\* was waiting for when it was cancelled.
CloseReturns == pc.ui = "closing" ~> pc.ui = "closed"

\* When the host goes away the connection ends up Closed or Failed, also when
\* it does so before Start has finished.
ExitIsReported == thread /\ ~peer ~> state \in {Closed, Failed}

\* "Each connection needs to make sure to drain the output from its backing
\* host" (ConptyConnection.cpp:452): when the thread ended because the host
\* closed the pipe, everything the host had written has been raised.
AllOutputIsRaised ==
    pc.out = "exited" /\ pc.ui = "idle" => Len(raised) = sent

=============================================================================

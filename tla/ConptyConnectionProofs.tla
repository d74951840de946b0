----------------------- MODULE ConptyConnectionProofs -----------------------
(***************************************************************************)
(* A connection for every number of chunks and every set of window sizes:  *)
(* output is raised in order, no handle is released under the output       *)
(* thread, no pending write loses its buffer, and the pseudoconsole knows  *)
(* the window.                                                             *)
(***************************************************************************)
EXTENDS ConptyConnection, SequenceTheorems, TLAPS

Writers == {"ui", "out"}
Critical == {"wait", "write"}

\* _writeLock is held by the head of its queue, the only thread that is past
\* the lock.
LockOK ==
    /\ queue \in Seq(Writers) /\ inside \in BOOLEAN /\ (inside => queue # <<>>)
    /\ \A t \in Writers : pc[t] \in Critical => inside /\ Head(queue) = t

\* A pending write is known as _writePending, or waited for by the thread that
\* holds the lock.
WriteOK ==
    /\ writePending \in BOOLEAN /\ wio \in IoStates
    /\ \A t \in Writers : pc[t] \in Critical => ~writePending
    /\ \A t \in Writers : pc[t] = "write" => wio # "pending"
    /\ wio = "pending" => writePending \/ \E t \in Writers : pc[t] = "wait"

\* Up to StartThread there is no output thread, and from then on it has its
\* handles until Close has seen it end.
ThreadOK ==
    /\ pc \in [ui : UiPlaces, out : OutPlaces]
    /\ pipe \in BOOLEAN /\ thread \in BOOLEAN /\ peer \in BOOLEAN /\ hPC \in {"none", "open"}
    /\ pc.ui \in {"new", "starting", "launched", "failed"} => pc.out = "none"
    /\ pc.out = "none" => ~thread
    /\ pc.ui \in {"launched", "threaded"} => pipe
    /\ pc.ui \in {"cancel", "join"} => thread
    /\ pc.ui = "reset" => pc.out \in {"none", "exited"}
    /\ pc.ui = "closed" => pc.out \in {"none", "exited"} /\ ~thread
    /\ pc.out \notin {"none", "exited"} => pipe /\ thread

\* The connection is not Connected before Start says so, nor when Close has begun.
StateOK ==
    /\ state \in NotConnected .. Failed /\ exitCode \in {"active", "zero", "error"}
    /\ pc.ui = "new" => state = NotConnected
    /\ pc.ui \in {"starting", "launched", "failed"} => state = Connecting
    /\ pc.ui \in {"closing", "cancel", "join", "reset", "closed"} => state >= Closing

\* What Start tells the pseudoconsole is true until there is a connection that
\* can be told of a change.
WindowOK ==
    /\ size \in Sizes /\ ptySize \in Sizes /\ visible \in BOOLEAN /\ ptyVisible \in BOOLEAN
    /\ pc.ui \in {"new", "starting"} => ~ptyVisible
    /\ pc.ui \in {"launched", "threaded"} => ptySize = size /\ ptyVisible = visible
    /\ state = Connected /\ hPC = "open" /\ peer => ptySize = size /\ ptyVisible = visible

\* The chunk in `buffer` is the last one read; the string is the same chunk
\* until the next read returns, and then the one before it.
Ahead ==
    \/ rio = "done" /\ rd = wstr + 1
    \/ rio \in {"pending", "failed"} /\ rd = wstr

ReadOK ==
    /\ sent \in 0 .. MaxChunks /\ consumed \in 0 .. sent /\ rd = consumed /\ wstr \in 0 .. rd
    /\ rio \in IoStates
    /\ pc.out = "none" => rio = "none" /\ rd = 0 /\ raised = <<>>
    /\ pc.out = "read" => rio # "pending" /\ rd = wstr
    /\ pc.out \in {"raise", "result"} \cup WriteSteps => Ahead
    /\ pc.out = "convert" => rio = "done" /\ rd = wstr + 1
    /\ pc.out \in {"cleanup", "message", "exited"} => rio # "pending"

\* Every string but the last has been raised, and that one too once OutRaise
\* is done.
RaisedOK ==
    /\ raised \in Seq(1 .. MaxChunks)
    /\ \A i \in 1 .. Len(raised) : raised[i] = i
    /\ Len(raised) <= wstr
    /\ pc.out \in {"read", "raise"} => Len(raised) = IF wstr = 0 THEN 0 ELSE wstr - 1
    /\ pc.out \in {"result", "convert"} \cup WriteSteps => Len(raised) = wstr

IInv == ThreadOK /\ StateOK /\ WindowOK /\ LockOK /\ WriteOK /\ ReadOK /\ RaisedOK

\* The operations of _writeLock keep its queue, and its head is the thread that
\* is inside.
LEMMA LockSteps ==
    ASSUME LockOK, NEW t \in Writers
    PROVE  /\ writeLock!Ask(t) =>
                 /\ queue' \in Seq(Writers) /\ inside' = inside /\ queue' # <<>>
                 /\ queue # <<>> => Head(queue') = Head(queue)
           /\ writeLock!Leave(t) => queue' \in Seq(Writers) /\ inside' = FALSE /\ inside /\ Head(queue) = t
           /\ writeLock!Enter(t) =>
                 queue' = queue /\ inside' = TRUE /\ ~inside /\ queue # <<>> /\ Head(queue) = t
<1>1. ASSUME writeLock!Ask(t)
      PROVE  /\ queue' \in Seq(Writers) /\ inside' = inside /\ queue' # <<>>
             /\ queue # <<>> => Head(queue') = Head(queue)
  <2>1. queue' = Append(queue, t) /\ inside' = inside /\ queue \in Seq(Writers)
    BY <1>1 DEF writeLock!Ask, LockOK
  <2> QED
    BY <2>1, AppendProperties
<1>2. ASSUME writeLock!Leave(t)
      PROVE  queue' \in Seq(Writers) /\ inside' = FALSE /\ inside /\ Head(queue) = t
  <2>1. queue' = Tail(queue) /\ inside' = FALSE /\ inside /\ Head(queue) = t
    BY <1>2 DEF writeLock!Leave
  <2> QED
    BY <2>1, HeadTailProperties DEF LockOK
<1> QED
  BY <1>1, <1>2 DEF writeLock!Enter

\* The steps of Start.
LEMMA StartKeeps ==
    ASSUME IInv, StartConnecting \/ StartStep
    PROVE  IInv'
<1> USE DEF IInv, ptyVars, winVars, peerVars, readVars, writeVars, lockVars, Goto, Transition,
         NotConnected, Connecting, Connected, Closing, Closed, Failed, UiPlaces, OutPlaces,
         WriteSteps, IoStates, Writers, Critical
<1>1. CASE StartConnecting
  <2>1. ThreadOK' /\ StateOK' /\ WindowOK'
    BY <1>1 DEF StartConnecting, ThreadOK, StateOK, WindowOK
  <2>2. LockOK' /\ WriteOK'
    BY <1>1 DEF StartConnecting, LockOK, ThreadOK, WriteOK
  <2>3. ReadOK' /\ RaisedOK'
    BY <1>1 DEF StartConnecting, ReadOK, Ahead, ThreadOK, StateOK, RaisedOK
  <2> QED
    BY <2>1, <2>2, <2>3
<1>2. CASE StartLaunch
  <2>1. ThreadOK' /\ StateOK' /\ WindowOK'
    BY <1>2 DEF StartLaunch, ThreadOK, StateOK, WindowOK
  <2>2. LockOK' /\ WriteOK'
    BY <1>2 DEF StartLaunch, LockOK, ThreadOK, WriteOK
  <2>3. ReadOK' /\ RaisedOK'
    BY <1>2 DEF StartLaunch, ReadOK, Ahead, ThreadOK, StateOK, RaisedOK
  <2> QED
    BY <2>1, <2>2, <2>3
<1>3. CASE StartThrows
  <2>1. ThreadOK'
    <3>1. pc.out = "none" /\ pc' = [pc EXCEPT !.ui = "failed"] /\ thread' = thread
      BY <1>3 DEF StartThrows, ThreadOK
    <3>2. pipe' \in BOOLEAN /\ peer' \in BOOLEAN /\ hPC' \in {"none", "open"}
      BY <1>3 DEF StartThrows, ThreadOK
    <3> QED
      BY <3>1, <3>2 DEF ThreadOK
  <2>2. StateOK'
    BY <1>3 DEF StartThrows, StateOK, ThreadOK
  <2>3. WindowOK'
    BY <1>3 DEF StartThrows, WindowOK, StateOK, ThreadOK
  <2>4. LockOK' /\ WriteOK'
    BY <1>3 DEF StartThrows, LockOK, ThreadOK, WriteOK
  <2>5. ReadOK' /\ RaisedOK'
    BY <1>3 DEF StartThrows, ReadOK, Ahead, ThreadOK, StateOK, RaisedOK
  <2> QED
    BY <2>1, <2>2, <2>3, <2>4, <2>5
<1>4. CASE StartFailed
  <2>1. ThreadOK' /\ StateOK' /\ WindowOK'
    BY <1>4 DEF StartFailed, ThreadOK, StateOK, WindowOK
  <2>2. LockOK' /\ WriteOK'
    BY <1>4 DEF StartFailed, LockOK, ThreadOK, WriteOK
  <2>3. ReadOK' /\ RaisedOK'
    BY <1>4 DEF StartFailed, ReadOK, Ahead, ThreadOK, StateOK, RaisedOK
  <2> QED
    BY <2>1, <2>2, <2>3
<1>5. CASE StartThread
  <2>1. ThreadOK' /\ StateOK' /\ WindowOK'
    BY <1>5 DEF StartThread, ThreadOK, StateOK, WindowOK
  <2>2. LockOK' /\ WriteOK'
    BY <1>5 DEF StartThread, LockOK, ThreadOK, WriteOK
  <2>3. ReadOK' /\ RaisedOK'
    BY <1>5 DEF StartThread, ReadOK, Ahead, ThreadOK, StateOK, RaisedOK
  <2> QED
    BY <2>1, <2>2, <2>3
<1>6. CASE StartConnected
  <2>1. ThreadOK' /\ StateOK' /\ WindowOK'
    BY <1>6 DEF StartConnected, ThreadOK, StateOK, WindowOK
  <2>2. LockOK' /\ WriteOK'
    BY <1>6 DEF StartConnected, LockOK, ThreadOK, WriteOK
  <2>3. ReadOK' /\ RaisedOK'
    BY <1>6 DEF StartConnected, ReadOK, Ahead, ThreadOK, StateOK, RaisedOK
  <2> QED
    BY <2>1, <2>2, <2>3
<1> QED
  BY <1>1, <1>2, <1>3, <1>4, <1>5, <1>6 DEF StartStep

\* A change of the window.
LEMMA WindowKeeps ==
    ASSUME IInv, NEW s \in Sizes, NEW show \in BOOLEAN, Resize(s) \/ ShowHide(show)
    PROVE  IInv'
<1> USE DEF IInv, ptyVars, winVars, peerVars, readVars, writeVars, lockVars, Goto, Transition,
         NotConnected, Connecting, Connected, Closing, Closed, Failed, UiPlaces, OutPlaces,
         WriteSteps, IoStates, Writers, Critical
<1>1. CASE Resize(s)
  <2>1. ThreadOK' /\ StateOK' /\ WindowOK'
    BY <1>1 DEF Resize, ThreadOK, StateOK, WindowOK, PtyTold
  <2>2. LockOK' /\ WriteOK'
    BY <1>1 DEF Resize, LockOK, ThreadOK, WriteOK
  <2>3. ReadOK' /\ RaisedOK'
    BY <1>1 DEF Resize, ReadOK, Ahead, ThreadOK, StateOK, RaisedOK
  <2> QED
    BY <2>1, <2>2, <2>3
<1>2. CASE ShowHide(show)
  <2>1. ThreadOK' /\ StateOK' /\ WindowOK'
    BY <1>2 DEF ShowHide, ThreadOK, StateOK, WindowOK, PtyTold
  <2>2. LockOK' /\ WriteOK'
    BY <1>2 DEF ShowHide, LockOK, ThreadOK, WriteOK
  <2>3. ReadOK' /\ RaisedOK'
    BY <1>2 DEF ShowHide, ReadOK, Ahead, ThreadOK, StateOK, RaisedOK
  <2> QED
    BY <2>1, <2>2, <2>3
<1> QED
  BY <1>1, <1>2 DEF Resize

\* The steps of Close.
LEMMA CloseKeeps ==
    ASSUME IInv, CloseBegin \/ CloseStep
    PROVE  IInv'
<1> USE DEF IInv, ptyVars, winVars, peerVars, readVars, writeVars, lockVars, Goto, Transition,
         NotConnected, Connecting, Connected, Closing, Closed, Failed, UiPlaces, OutPlaces,
         WriteSteps, IoStates, Writers, Critical
<1>1. CASE CloseBegin
  <2>1. ThreadOK' /\ StateOK' /\ WindowOK'
    BY <1>1 DEF CloseBegin, ThreadOK, StateOK, WindowOK
  <2>2. LockOK' /\ WriteOK'
    BY <1>1 DEF CloseBegin, LockOK, ThreadOK, WriteOK
  <2>3. ReadOK' /\ RaisedOK'
    BY <1>1 DEF CloseBegin, ReadOK, Ahead, ThreadOK, StateOK, RaisedOK
  <2> QED
    BY <2>1, <2>2, <2>3
<1>2. CASE ClosePseudoConsole
  <2>1. ThreadOK' /\ StateOK' /\ WindowOK'
    BY <1>2 DEF ClosePseudoConsole, ThreadOK, StateOK, WindowOK
  <2>2. LockOK' /\ WriteOK'
    BY <1>2 DEF ClosePseudoConsole, LockOK, ThreadOK, WriteOK
  <2>3. ReadOK' /\ RaisedOK'
    BY <1>2 DEF ClosePseudoConsole, ReadOK, Ahead, ThreadOK, StateOK, RaisedOK
  <2> QED
    BY <2>1, <2>2, <2>3
<1>3. CASE CloseCancel
  <2>1. ThreadOK' /\ StateOK' /\ WindowOK'
    BY <1>3 DEF CloseCancel, Cancelled, ThreadOK, StateOK, WindowOK
  <2>2. LockOK' /\ WriteOK'
    BY <1>3 DEF CloseCancel, Cancelled, LockOK, ThreadOK, WriteOK
  <2>3. ReadOK' /\ RaisedOK'
    BY <1>3 DEF CloseCancel, Cancelled, ReadOK, Ahead, ThreadOK, StateOK, RaisedOK
  <2> QED
    BY <2>1, <2>2, <2>3
<1>4. CASE CloseJoin
  <2>1. ThreadOK' /\ StateOK' /\ WindowOK'
    BY <1>4 DEF CloseJoin, ThreadOK, StateOK, WindowOK
  <2>2. LockOK' /\ WriteOK'
    BY <1>4 DEF CloseJoin, LockOK, ThreadOK, WriteOK
  <2>3. ReadOK' /\ RaisedOK'
    BY <1>4 DEF CloseJoin, ReadOK, Ahead, ThreadOK, StateOK, RaisedOK
  <2> QED
    BY <2>1, <2>2, <2>3
<1>5. CASE CloseReset
  <2>1. ThreadOK' /\ StateOK' /\ WindowOK'
    <3>1. ThreadOK'
      BY <1>5 DEF CloseReset, ThreadOK
    <3>2. StateOK' /\ WindowOK'
      BY <1>5 DEF CloseReset, ThreadOK, StateOK, WindowOK
    <3> QED
      BY <3>1, <3>2
  <2>2. LockOK' /\ WriteOK'
    BY <1>5 DEF CloseReset, LockOK, ThreadOK, WriteOK
  <2>3. ReadOK' /\ RaisedOK'
    BY <1>5 DEF CloseReset, ReadOK, Ahead, ThreadOK, StateOK, RaisedOK
  <2> QED
    BY <2>1, <2>2, <2>3
<1> QED
  BY <1>1, <1>2, <1>3, <1>4, <1>5 DEF CloseStep

\* The steps of _OutputThread but for WriteInput.
LEMMA OutKeeps ==
    ASSUME IInv, OutRead \/ OutRaise \/ OutResult \/ OutConvert \/ OutCleanup \/ OutMessage
    PROVE  IInv'
<1> USE DEF IInv, ptyVars, winVars, peerVars, readVars, writeVars, lockVars, Goto, Transition,
         NotConnected, Connecting, Connected, Closing, Closed, Failed, UiPlaces, OutPlaces,
         WriteSteps, IoStates, Writers, Critical
<1>1. CASE OutRead
  <2>1. ThreadOK' /\ StateOK' /\ WindowOK'
    BY <1>1 DEF OutRead, ThreadOK, StateOK, WindowOK
  <2>2. LockOK' /\ WriteOK'
    BY <1>1 DEF OutRead, LockOK, ThreadOK, WriteOK
  <2>3. ReadOK' /\ RaisedOK'
    BY <1>1 DEF OutRead, ReadOK, Ahead, ThreadOK, StateOK, RaisedOK
  <2> QED
    BY <2>1, <2>2, <2>3
<1>2. CASE OutRaise
  <2>1. ThreadOK' /\ StateOK' /\ WindowOK'
    BY <1>2 DEF OutRaise, ThreadOK, StateOK, WindowOK
  <2>2. LockOK' /\ WriteOK'
    BY <1>2 DEF OutRaise, LockOK, ThreadOK, WriteOK
  <2>3. ReadOK'
    BY <1>2 DEF OutRaise, ReadOK, Ahead, ThreadOK, StateOK
  <2>4. RaisedOK'
    <3>1. CASE wstr = 0
      BY <1>2, <3>1 DEF OutRaise, RaisedOK, ReadOK, ThreadOK
    <3>2. CASE wstr # 0
      <4>1. /\ raised \in Seq(1 .. MaxChunks) /\ wstr \in 1 .. MaxChunks /\ Len(raised) = wstr - 1
            /\ raised' = Append(raised, wstr) /\ wstr' = wstr
        BY <1>2, <3>2, ConptyAssumption DEF OutRaise, RaisedOK, ReadOK
      <4>2. /\ raised' \in Seq(1 .. MaxChunks) /\ Len(raised') = wstr /\ raised'[wstr] = wstr
            /\ \A i \in 1 .. Len(raised) : raised'[i] = raised[i]
        BY <4>1, AppendProperties
      <4>3. \A i \in 1 .. Len(raised') : raised'[i] = i
        BY <4>1, <4>2 DEF RaisedOK
      <4>4. pc'.out \in {"result", "check"}
        BY <1>2, <3>2 DEF OutRaise, ThreadOK
      <4> QED
        BY <4>1, <4>2, <4>3, <4>4 DEF RaisedOK
    <3> QED
      BY <3>1, <3>2
  <2> QED
    BY <2>1, <2>2, <2>3, <2>4
<1>3. CASE OutResult
  <2>1. ThreadOK' /\ StateOK' /\ WindowOK'
    BY <1>3 DEF OutResult, ThreadOK, StateOK, WindowOK
  <2>2. LockOK' /\ WriteOK'
    BY <1>3 DEF OutResult, LockOK, ThreadOK, WriteOK
  <2>3. ReadOK' /\ RaisedOK'
    BY <1>3 DEF OutResult, ReadOK, Ahead, ThreadOK, StateOK, RaisedOK
  <2> QED
    BY <2>1, <2>2, <2>3
<1>4. CASE OutConvert
  <2>1. ThreadOK' /\ StateOK' /\ WindowOK'
    BY <1>4 DEF OutConvert, ThreadOK, StateOK, WindowOK
  <2>2. LockOK' /\ WriteOK'
    BY <1>4 DEF OutConvert, LockOK, ThreadOK, WriteOK
  <2>3. ReadOK' /\ RaisedOK'
    BY <1>4 DEF OutConvert, ReadOK, Ahead, ThreadOK, StateOK, RaisedOK
  <2> QED
    BY <2>1, <2>2, <2>3
<1>5. CASE OutCleanup
  <2>1. ThreadOK' /\ StateOK' /\ WindowOK'
    BY <1>5 DEF OutCleanup, ThreadOK, StateOK, WindowOK
  <2>2. LockOK' /\ WriteOK'
    BY <1>5 DEF OutCleanup, LockOK, ThreadOK, WriteOK
  <2>3. ReadOK' /\ RaisedOK'
    BY <1>5 DEF OutCleanup, ReadOK, Ahead, ThreadOK, StateOK, RaisedOK
  <2> QED
    BY <2>1, <2>2, <2>3
<1>6. CASE OutMessage
  <2>1. ThreadOK' /\ StateOK' /\ WindowOK'
    BY <1>6 DEF OutMessage, ThreadOK, StateOK, WindowOK
  <2>2. LockOK' /\ WriteOK'
    BY <1>6 DEF OutMessage, LockOK, ThreadOK, WriteOK
  <2>3. ReadOK' /\ RaisedOK'
    BY <1>6 DEF OutMessage, ReadOK, Ahead, ThreadOK, StateOK, RaisedOK
  <2> QED
    BY <2>1, <2>2, <2>3
<1> QED
  BY <1>1, <1>2, <1>3, <1>4, <1>5, <1>6 DEF IInv

\* The console host and the completions.
LEMMA PeerKeeps ==
    ASSUME IInv, Peer
    PROVE  IInv'
<1> USE DEF IInv, ptyVars, winVars, peerVars, readVars, writeVars, lockVars, Goto, Transition,
         NotConnected, Connecting, Connected, Closing, Closed, Failed, UiPlaces, OutPlaces,
         WriteSteps, IoStates, Writers, Critical
<1>1. CASE PeerWrites
  <2>1. ThreadOK' /\ StateOK' /\ WindowOK'
    BY <1>1 DEF PeerWrites, ThreadOK, StateOK, WindowOK
  <2>2. LockOK' /\ WriteOK'
    BY <1>1 DEF PeerWrites, LockOK, ThreadOK, WriteOK
  <2>3. ReadOK' /\ RaisedOK'
    BY <1>1, ConptyAssumption DEF PeerWrites, ReadOK, Ahead, RaisedOK
  <2> QED
    BY <2>1, <2>2, <2>3
<1>2. CASE ClientExits
  <2>1. ThreadOK' /\ StateOK' /\ WindowOK'
    BY <1>2 DEF ClientExits, ThreadOK, StateOK, WindowOK
  <2>2. LockOK' /\ WriteOK'
    BY <1>2 DEF ClientExits, LockOK, ThreadOK, WriteOK
  <2>3. ReadOK' /\ RaisedOK'
    BY <1>2 DEF ClientExits, ReadOK, Ahead, ThreadOK, StateOK, RaisedOK
  <2> QED
    BY <2>1, <2>2, <2>3
<1>3. CASE PeerExits
  <2>1. ThreadOK' /\ StateOK' /\ WindowOK'
    <3>1. ThreadOK'
      BY <1>3 DEF PeerExits, ThreadOK
    <3>2. StateOK' /\ WindowOK'
      BY <1>3 DEF PeerExits, ThreadOK, StateOK, WindowOK
    <3> QED
      BY <3>1, <3>2
  <2>2. LockOK' /\ WriteOK'
    BY <1>3 DEF PeerExits, LockOK, ThreadOK, WriteOK
  <2>3. ReadOK' /\ RaisedOK'
    BY <1>3 DEF PeerExits, ReadOK, Ahead, ThreadOK, StateOK, RaisedOK
  <2> QED
    BY <2>1, <2>2, <2>3
<1>4. CASE ReadCompletes
  <2>1. ThreadOK' /\ StateOK' /\ WindowOK'
    BY <1>4 DEF ReadCompletes, ThreadOK, StateOK, WindowOK
  <2>2. LockOK' /\ WriteOK'
    BY <1>4 DEF ReadCompletes, LockOK, ThreadOK, WriteOK
  <2>3. ReadOK' /\ RaisedOK'
    BY <1>4 DEF ReadCompletes, ReadOK, Ahead, ThreadOK, StateOK, RaisedOK
  <2> QED
    BY <2>1, <2>2, <2>3
<1>5. CASE WriteCompletes
  <2>1. ThreadOK' /\ StateOK' /\ WindowOK'
    BY <1>5 DEF WriteCompletes, ThreadOK, StateOK, WindowOK
  <2>2. LockOK' /\ WriteOK'
    BY <1>5 DEF WriteCompletes, LockOK, ThreadOK, WriteOK
  <2>3. ReadOK' /\ RaisedOK'
    BY <1>5 DEF WriteCompletes, ReadOK, Ahead, ThreadOK, StateOK, RaisedOK
  <2> QED
    BY <2>1, <2>2, <2>3
<1> QED
  BY <1>1, <1>2, <1>3, <1>4, <1>5 DEF Peer

\* The steps of WriteInput.
LEMMA WriteKeeps ==
    ASSUME IInv, NEW t \in Writers, WriteStep(t)
    PROVE  IInv'
<1> USE DEF IInv, ptyVars, winVars, peerVars, readVars, writeVars, lockVars, Goto, Transition,
         NotConnected, Connecting, Connected, Closing, Closed, Failed, UiPlaces, OutPlaces,
         WriteSteps, IoStates, Writers, Critical
<1>1. CASE WriteCheck(t)
  <2>1. ThreadOK' /\ StateOK' /\ WindowOK'
    BY <1>1 DEF WriteCheck, Caller, ThreadOK, StateOK, WindowOK
  <2>2. LockOK' /\ WriteOK'
    BY <1>1 DEF WriteCheck, Caller, LockOK, ThreadOK, WriteOK
  <2>3. ReadOK' /\ RaisedOK'
    BY <1>1 DEF WriteCheck, Caller, ReadOK, Ahead, ThreadOK, StateOK, RaisedOK
  <2> QED
    BY <2>1, <2>2, <2>3
<1>2. CASE WriteLock(t)
  <2>0. UNCHANGED <<state, ptyVars, winVars, peerVars, readVars, wio>>
    BY <1>2 DEF WriteLock
  <2>1. CASE pc[t] = "lock" /\ writeLock!Ask(t) /\ Goto(t, "queued") /\ UNCHANGED writePending
    <3>1. LockOK'
      <4>1. /\ queue' \in Seq(Writers) /\ inside' = inside /\ queue' # <<>>
            /\ queue # <<>> => Head(queue') = Head(queue)
        BY <2>1, LockSteps
      <4>2. \A u \in Writers : pc'[u] \in Critical => pc[u] \in Critical
        BY <2>1 DEF ThreadOK
      <4> QED
        BY <4>1, <4>2 DEF LockOK
    <3>2. WriteOK'
      BY <2>0, <2>1 DEF WriteOK, ThreadOK
    <3>3. ThreadOK' /\ StateOK' /\ WindowOK'
      BY <2>0, <2>1 DEF ThreadOK, StateOK, WindowOK
    <3>4. ReadOK' /\ RaisedOK'
      BY <2>0, <2>1 DEF ThreadOK, ReadOK, Ahead, RaisedOK
    <3> QED
      BY <3>1, <3>2, <3>3, <3>4
  <2>2. CASE /\ pc[t] = "queued" /\ writeLock!Enter(t)
             /\ Goto(t, IF writePending THEN "wait" ELSE "write") /\ writePending' = FALSE
    <3>0. /\ queue' = queue /\ inside' = TRUE /\ ~inside /\ queue # <<>> /\ Head(queue) = t
          /\ \A u \in Writers : pc[u] \notin Critical
      BY <2>2, LockSteps DEF LockOK
    <3>1. LockOK'
      BY <2>2, <3>0 DEF LockOK, ThreadOK
    <3>2. WriteOK'
      BY <2>0, <2>2, <3>0 DEF WriteOK, ThreadOK
    <3>3. ThreadOK' /\ StateOK' /\ WindowOK'
      BY <2>0, <2>2 DEF ThreadOK, StateOK, WindowOK
    <3>4. ReadOK' /\ RaisedOK'
      BY <2>0, <2>2 DEF ThreadOK, ReadOK, Ahead, RaisedOK
    <3> QED
      BY <3>1, <3>2, <3>3, <3>4
  <2> QED
    BY <1>2, <2>1, <2>2 DEF WriteLock
<1>3. CASE WriteWait(t)
  <2>1. ThreadOK' /\ StateOK' /\ WindowOK'
    BY <1>3 DEF WriteWait, Caller, ThreadOK, StateOK, WindowOK
  <2>2. LockOK' /\ WriteOK'
    BY <1>3, LockSteps DEF WriteWait, Caller, LockOK, ThreadOK, WriteOK
  <2>3. ReadOK' /\ RaisedOK'
    BY <1>3 DEF WriteWait, Caller, ReadOK, Ahead, ThreadOK, StateOK, RaisedOK
  <2> QED
    BY <2>1, <2>2, <2>3
<1>4. CASE WriteFile(t)
  <2>1. ThreadOK' /\ StateOK' /\ WindowOK'
    BY <1>4 DEF WriteFile, Caller, ThreadOK, StateOK, WindowOK
  <2>2. LockOK' /\ WriteOK'
    BY <1>4, LockSteps DEF WriteFile, Caller, LockOK, ThreadOK, WriteOK
  <2>3. ReadOK' /\ RaisedOK'
    BY <1>4 DEF WriteFile, Caller, ReadOK, Ahead, ThreadOK, StateOK, RaisedOK
  <2> QED
    BY <2>1, <2>2, <2>3
<1> QED
  BY <1>1, <1>2, <1>3, <1>4 DEF WriteStep

\* Every step preserves the invariant.
LEMMA NextIInv == IInv /\ [Next]_vars => IInv'
<1> SUFFICES ASSUME IInv, [Next]_vars PROVE IInv'
  OBVIOUS
<1>1. CASE StartConnecting \/ StartStep
  BY <1>1, StartKeeps
<1>2. CASE WriteBegin
  BY <1>2 DEF WriteBegin, Goto, ptyVars, winVars, peerVars, readVars, writeVars, UiPlaces, WriteSteps,
     NotConnected, Connecting, Connected, Closing, Closed, Failed, Writers, Critical,
     IInv, ThreadOK, StateOK, WindowOK, LockOK, WriteOK, ReadOK, Ahead, RaisedOK
<1>3. ASSUME NEW t \in Writers, WriteStep(t) PROVE IInv'
  BY <1>3, WriteKeeps
<1>4. ASSUME NEW s \in Sizes, Resize(s) PROVE IInv'
  BY <1>4, WindowKeeps
<1>5. ASSUME NEW show \in BOOLEAN, ShowHide(show) PROVE IInv'
  BY <1>5, WindowKeeps DEF IInv, WindowOK
<1>6. CASE CloseBegin \/ CloseStep
  BY <1>6, CloseKeeps
<1>7. CASE OutStep
  BY <1>7, <1>3, OutKeeps DEF OutStep, Writers
<1>8. CASE Peer
  BY <1>8, PeerKeeps
<1>9. CASE UNCHANGED vars
  BY <1>9 DEF vars, ptyVars, winVars, peerVars, readVars, writeVars,
     IInv, ThreadOK, StateOK, WindowOK, LockOK, WriteOK, ReadOK, Ahead, RaisedOK
<1> QED
  BY <1>1, <1>2, <1>3, <1>4, <1>5, <1>6, <1>7, <1>8, <1>9 DEF Next, Done, Writers

\* A new connection, handed off or not, satisfies the invariant.
LEMMA InitIInv == Init => IInv
<1> SUFFICES ASSUME Init PROVE IInv
  OBVIOUS
<1>1. queue = <<>> /\ inside = FALSE /\ pc = [ui |-> "new", out |-> "none"]
  BY DEF Init, writeLock!Init
<1>2. LockOK /\ WriteOK
  <2>1. \A t \in Writers : pc[t] \in {"new", "none"}
    BY <1>1 DEF Writers
  <2> QED
    BY <1>1, <2>1, EmptySeq DEF Init, LockOK, WriteOK, Critical, IoStates
<1>3. ThreadOK /\ StateOK /\ WindowOK
  <2>1. pc \in [ui : UiPlaces, out : OutPlaces] /\ pc.ui = "new" /\ pc.out = "none"
    BY <1>1 DEF UiPlaces, OutPlaces
  <2>2. pipe \in BOOLEAN /\ peer \in BOOLEAN /\ hPC \in {"none", "open"}
    BY DEF Init
  <2>3. ThreadOK
    BY <2>1, <2>2 DEF Init, ThreadOK
  <2>4. StateOK
    BY <2>1 DEF Init, StateOK, NotConnected, Failed
  <2>5. /\ size \in Sizes /\ ptySize \in Sizes /\ visible \in BOOLEAN /\ ptyVisible = FALSE
        /\ state # Connected
    BY DEF Init, NotConnected, Connected
  <2>6. WindowOK
    BY <2>1, <2>5 DEF WindowOK
  <2> QED
    BY <2>3, <2>4, <2>6
<1>4. ReadOK /\ RaisedOK
  BY <1>1, ConptyAssumption DEF Init, ReadOK, RaisedOK, Ahead, IoStates, WriteSteps
<1> QED
  BY <1>2, <1>3, <1>4 DEF IInv

\* The inductive invariant: what the two threads know of the pipe, the buffers,
\* _writeLock and the window, at every place they can be.
THEOREM InvariantHolds == Spec => []IInv
  BY InitIInv, NextIInv, PTL DEF Spec

\* Output is raised in the order in which the host wrote it, for any number of
\* chunks, although _OutputThread starts the next read into the buffer before it
\* raises the string made from the previous one.
THEOREM OutputInOrderHolds == Spec => []OutputInOrder
<1>1. IInv => OutputInOrder
  <2> SUFFICES ASSUME IInv PROVE OutputInOrder
    OBVIOUS
  <2>1. state \in NotConnected .. Failed /\ pc \in [ui : UiPlaces, out : OutPlaces]
    BY DEF IInv, StateOK, ThreadOK
  <2>2. {pipe, thread, visible, ptyVisible, peer, writePending} \subseteq BOOLEAN
    BY DEF IInv, ThreadOK, WindowOK, WriteOK
  <2>3. hPC \in {"none", "open"} /\ {size, ptySize} \subseteq Sizes /\ exitCode \in {"active", "zero", "error"}
    BY DEF IInv, ThreadOK, WindowOK, StateOK
  <2>4. {sent, consumed, rd, wstr} \subseteq 0 .. MaxChunks /\ rio \in IoStates /\ wio \in IoStates
    BY ConptyAssumption DEF IInv, ReadOK, WriteOK
  <2>5. raised \in Seq(1 .. MaxChunks) /\ writeLock!TypeOK
    BY DEF IInv, RaisedOK, LockOK, writeLock!TypeOK, Writers
  <2>6. Len(raised) <= sent /\ \A i \in 1 .. Len(raised) : raised[i] = i
    BY ConptyAssumption DEF IInv, ReadOK, RaisedOK
  <2> QED
    BY <2>1, <2>2, <2>3, <2>4, <2>5, <2>6 DEF OutputInOrder, TypeOK
<1> QED
  BY <1>1, InvariantHolds, PTL

\* Close releases the pipe and the thread's handle only after the output thread
\* has ended, also when it has to cancel its I/O over and over.
THEOREM HandlesOutliveThreadHolds == Spec => []HandlesOutliveThread
<1>1. IInv => HandlesOutliveThread
  BY DEF IInv, ThreadOK, HandlesOutliveThread
<1> QED
  BY <1>1, InvariantHolds, PTL

\* WriteInput, from either thread, waits for a pending write before it reuses
\* _writeBuffer.
THEOREM WriteBufferIsStableHolds == Spec => []WriteBufferIsStable
<1>1. IInv => WriteBufferIsStable
  BY DEF IInv, WriteOK, Writers, WriteBufferIsStable
<1> QED
  BY <1>1, InvariantHolds, PTL

\* A connected pseudoconsole has the size and the visibility of the window, for
\* every set of sizes and whenever they were changed.
THEOREM WindowIsInSyncHolds == Spec => []WindowIsInSync
<1>1. IInv => WindowIsInSync
  BY DEF IInv, WindowOK, WindowIsInSync
<1> QED
  BY <1>1, InvariantHolds, PTL

=============================================================================

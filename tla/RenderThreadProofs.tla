------------------------- MODULE RenderThreadProofs -------------------------
(***************************************************************************)
(* The render thread for every number of attempts: no invalidation is lost *)
(* and the handle of the thread tells whether it runs.                     *)
(***************************************************************************)
EXTENDS RenderThread, SequenceTheorems, TLAPS

Lockers == {"render", "vt", "host"}

Flags ==
    /\ enable \in BOOLEAN /\ redraw \in BOOLEAN /\ keepRunning \in BOOLEAN /\ hThread \in BOOLEAN
    /\ waitOk \in BOOLEAN /\ sync \in BOOLEAN /\ mode \in BOOLEAN
    /\ dirty \in BOOLEAN /\ abandoned \in BOOLEAN /\ exiting \in BOOLEAN

Places ==
    /\ rt \in {"none", "enable", "redraw", "check", "lock", "frame", "compare", "asleep",
               "woken", "relock", "recheck", "draw", "present", "backoff", "giveup", "exited"}
    /\ vt \in {"idle", "lock", "in", "notify", "wake", "yield", "reask", "gone"}
    /\ host \in {"idle", "lock", "enable", "stop", "redraw", "resume", "join", "exit"}

\* The console lock is held by the head of its queue.
LockOK == lockQueue \in Seq(Lockers) /\ lockHeld \in BOOLEAN /\ (lockHeld => lockQueue # <<>>)

\* In PaintFrame's loop there is an attempt left.
Attempts ==
    /\ tries \in 0 .. MaxTries
    /\ rt \in {"lock", "frame", "compare", "asleep", "woken", "relock", "recheck", "draw",
               "present", "backoff"} => tries > 0

\* The handle is reset when the thread has exited, which it does when
\* _keepRunning has been reset, which TriggerTeardown does before it waits.
Handle ==
    /\ ~hThread => rt = "none"
    /\ hThread /\ host # "exit" => rt # "none"
    /\ hThread /\ host \in {"idle", "lock", "enable", "stop"} => keepRunning
    /\ rt = "exited" => ~keepRunning

FrameIsComing ==
    dirty /\ host # "exit" =>
        \/ redraw \/ abandoned \/ vt = "notify"
        \/ rt \notin {"none", "enable", "redraw", "present", "exited"}

IInv == Flags /\ Places /\ LockOK /\ Attempts /\ Handle /\ FrameIsComing

\* The operations of the console lock keep its queue.
LEMMA LockSteps ==
    ASSUME LockOK, NEW t \in Lockers,
           \/ console!Ask(t) \/ console!Enter(t) \/ console!Leave(t) \/ UNCHANGED consoleVars
    PROVE  LockOK'
<1>1. CASE console!Ask(t)
  <2>1. lockQueue' = Append(lockQueue, t) /\ lockHeld' = lockHeld
    BY <1>1 DEF console!Ask
  <2>2. Append(lockQueue, t) \in Seq(Lockers) /\ Append(lockQueue, t) # <<>>
    BY AppendProperties DEF LockOK
  <2> QED
    BY <2>1, <2>2 DEF LockOK
<1>2. CASE console!Enter(t)
  BY <1>2 DEF console!Enter, LockOK
<1>3. CASE console!Leave(t)
  <2>1. lockQueue' = Tail(lockQueue) /\ lockHeld' = FALSE /\ lockQueue # <<>>
    BY <1>3 DEF console!Leave, LockOK
  <2>2. Tail(lockQueue) \in Seq(Lockers)
    BY <2>1, HeadTailProperties DEF LockOK
  <2> QED
    BY <2>1, <2>2 DEF LockOK
<1>4. CASE UNCHANGED consoleVars
  BY <1>4 DEF consoleVars, LockOK
<1> QED
  BY <1>1, <1>2, <1>3, <1>4

\* The steps of the render thread.
LEMMA RenderKeeps ==
    ASSUME IInv, Render
    PROVE  IInv'
<1> USE RenderAssumption DEF IInv, eventVars, syncVars, paintVars, hostVars, consoleVars
<1>0. LockOK'
  <2>1. \/ console!Ask("render") \/ console!Enter("render") \/ console!Leave("render")
        \/ UNCHANGED consoleVars
    BY DEF Render, RtEnable, RtRedraw, RtCheck, RtEnter, RtFrame, RtCompare, RtReturn,
       RtUpdateEnded, RtElapsed, RtWaitAgain, RtDraw, RtPresent, RtBackoff, RtGiveUp,
       FrameFails, RtStopWaiting
  <2> QED
    BY <2>1, LockSteps DEF Lockers
<1>1. CASE RtEnable
  BY <1>1, <1>0 DEF RtEnable, Flags, Places, Attempts, Handle, FrameIsComing
<1>2. CASE RtRedraw
  <2>1. Flags'
    BY <1>2 DEF RtRedraw, Flags
  <2>2. Places'
    BY <1>2 DEF RtRedraw, Places
  <2>3. Attempts'
    BY <1>2 DEF RtRedraw, Attempts, Places
  <2>4. Handle'
    BY <1>2 DEF RtRedraw, Handle, Flags, Places
  <2>5. FrameIsComing'
    BY <1>2 DEF RtRedraw, FrameIsComing, Flags, Places
  <2> QED
    BY <1>0, <2>1, <2>2, <2>3, <2>4, <2>5
<1>3. CASE RtCheck
  <2>1. Flags'
    BY <1>3 DEF RtCheck, Flags
  <2>2. Places'
    BY <1>3 DEF RtCheck, Places
  <2>3. Attempts'
    BY <1>3 DEF RtCheck, Attempts, Places
  <2>4. Handle'
    BY <1>3 DEF RtCheck, Handle, Flags, Places
  <2>5. FrameIsComing'
    BY <1>3 DEF RtCheck, FrameIsComing, Flags, Places
  <2> QED
    BY <1>0, <2>1, <2>2, <2>3, <2>4, <2>5
<1>4. CASE RtEnter
  BY <1>4, <1>0 DEF RtEnter, Flags, Places, Attempts, Handle, FrameIsComing
<1>5. CASE RtFrame
  BY <1>5, <1>0 DEF RtFrame, Flags, Places, Attempts, Handle, FrameIsComing
<1>6. CASE RtCompare
  <2>1. Flags'
    BY <1>6 DEF RtCompare, Flags
  <2>2. Places'
    BY <1>6 DEF RtCompare, Places
  <2>3. Attempts'
    BY <1>6 DEF RtCompare, Attempts, Places
  <2>4. Handle'
    BY <1>6 DEF RtCompare, Handle, Flags, Places
  <2>5. FrameIsComing'
    BY <1>6 DEF RtCompare, FrameIsComing, Flags, Places
  <2> QED
    BY <1>0, <2>1, <2>2, <2>3, <2>4, <2>5
<1>7. CASE RtReturn
  BY <1>7, <1>0 DEF RtReturn, Flags, Places, Attempts, Handle, FrameIsComing
<1>8. CASE RtUpdateEnded
  <2>1. Flags'
    BY <1>8 DEF RtUpdateEnded, RtStopWaiting, Flags
  <2>2. Places'
    BY <1>8 DEF RtUpdateEnded, RtStopWaiting, Places
  <2>3. Attempts'
    BY <1>8 DEF RtUpdateEnded, RtStopWaiting, Attempts, Places
  <2>4. Handle'
    BY <1>8 DEF RtUpdateEnded, RtStopWaiting, Handle, Flags, Places
  <2>5. FrameIsComing'
    BY <1>8 DEF RtUpdateEnded, RtStopWaiting, FrameIsComing, Flags, Places
  <2> QED
    BY <1>0, <2>1, <2>2, <2>3, <2>4, <2>5
<1>9. CASE RtElapsed
  <2>1. Flags'
    BY <1>9 DEF RtElapsed, RtStopWaiting, Flags
  <2>2. Places'
    BY <1>9 DEF RtElapsed, RtStopWaiting, Places
  <2>3. Attempts'
    BY <1>9 DEF RtElapsed, RtStopWaiting, Attempts, Places
  <2>4. Handle'
    BY <1>9 DEF RtElapsed, RtStopWaiting, Handle, Flags, Places
  <2>5. FrameIsComing'
    BY <1>9 DEF RtElapsed, RtStopWaiting, FrameIsComing, Flags, Places
  <2> QED
    BY <1>0, <2>1, <2>2, <2>3, <2>4, <2>5
<1>10. CASE RtWaitAgain
  BY <1>10, <1>0 DEF RtWaitAgain, Flags, Places, Attempts, Handle, FrameIsComing
<1>11. CASE RtDraw
  <2>1. Flags'
    BY <1>11 DEF RtDraw, FrameFails, Flags
  <2>2. Places'
    BY <1>11 DEF RtDraw, FrameFails, Places
  <2>3. Attempts'
    BY <1>11 DEF RtDraw, FrameFails, Attempts, Places
  <2>4. Handle'
    BY <1>11 DEF RtDraw, FrameFails, Handle, Flags, Places
  <2>5. FrameIsComing'
    BY <1>11 DEF RtDraw, FrameFails, FrameIsComing, Flags, Places
  <2> QED
    BY <1>0, <2>1, <2>2, <2>3, <2>4, <2>5
<1>12. CASE RtPresent
  <2>1. Flags'
    BY <1>12 DEF RtPresent, FrameFails, Flags
  <2>2. Places'
    BY <1>12 DEF RtPresent, FrameFails, Places
  <2>3. Attempts'
    BY <1>12 DEF RtPresent, FrameFails, Attempts, Places
  <2>4. Handle'
    BY <1>12 DEF RtPresent, FrameFails, Handle, Flags, Places
  <2>5. FrameIsComing'
    BY <1>12 DEF RtPresent, FrameFails, FrameIsComing, Flags, Places
  <2> QED
    BY <1>0, <2>1, <2>2, <2>3, <2>4, <2>5
<1>13. CASE RtBackoff
  BY <1>13, <1>0 DEF RtBackoff, Flags, Places, Attempts, Handle, FrameIsComing
<1>14. CASE RtGiveUp
  <2>1. Flags'
    BY <1>14 DEF RtGiveUp, Flags
  <2>2. Places'
    BY <1>14 DEF RtGiveUp, Places
  <2>3. Attempts'
    BY <1>14 DEF RtGiveUp, Attempts, Places
  <2>4. Handle'
    BY <1>14 DEF RtGiveUp, Handle, Flags, Places
  <2>5. FrameIsComing'
    BY <1>14 DEF RtGiveUp, FrameIsComing, Flags, Places
  <2> QED
    BY <1>0, <2>1, <2>2, <2>3, <2>4, <2>5
<1> QED
  BY <1>1, <1>2, <1>3, <1>4, <1>5, <1>6, <1>7, <1>8, <1>9, <1>10, <1>11, <1>12, <1>13, <1>14
     DEF Render

\* The steps of the output thread.
LEMMA OutputKeeps ==
    ASSUME IInv, Output
    PROVE  IInv'
<1> USE RenderAssumption DEF IInv, eventVars, syncVars, paintVars, hostVars, consoleVars
<1>0. LockOK'
  <2>1. \/ console!Ask("vt") \/ console!Enter("vt") \/ console!Leave("vt")
        \/ UNCHANGED consoleVars
    BY DEF Output, VtLock, VtEnter, VtInvalidate, VtNotify, VtHardReset, VtWake, VtUnlock,
       VtSetMode, SynchronizedOutputChanged
  <2> QED
    BY <2>1, LockSteps DEF Lockers
<1>1. CASE VtLock
  BY <1>1, <1>0 DEF VtLock, Flags, Places, Attempts, Handle, FrameIsComing
<1>2. CASE VtEnter
  BY <1>2, <1>0 DEF VtEnter, Flags, Places, Attempts, Handle, FrameIsComing
<1>3. CASE VtInvalidate
  BY <1>3, <1>0 DEF VtInvalidate, Flags, Places, Attempts, Handle, FrameIsComing
<1>4. CASE VtNotify
  <2>1. Flags'
    BY <1>4 DEF VtNotify, Flags
  <2>2. Places'
    BY <1>4 DEF VtNotify, Places
  <2>3. Attempts'
    BY <1>4 DEF VtNotify, Attempts, Places
  <2>4. Handle'
    BY <1>4 DEF VtNotify, Handle, Flags, Places
  <2>5. FrameIsComing'
    BY <1>4 DEF VtNotify, FrameIsComing, Flags, Places
  <2> QED
    BY <1>0, <2>1, <2>2, <2>3, <2>4, <2>5
<1>5. CASE VtHardReset
  <2>1. Flags'
    BY <1>5 DEF VtHardReset, SynchronizedOutputChanged, Flags
  <2>2. Places'
    BY <1>5 DEF VtHardReset, SynchronizedOutputChanged, Places
  <2>3. Attempts'
    BY <1>5 DEF VtHardReset, SynchronizedOutputChanged, Attempts, Places
  <2>4. Handle'
    BY <1>5 DEF VtHardReset, SynchronizedOutputChanged, Handle, Flags, Places
  <2>5. FrameIsComing'
    BY <1>5 DEF VtHardReset, SynchronizedOutputChanged, FrameIsComing, Flags, Places
  <2> QED
    BY <1>0, <2>1, <2>2, <2>3, <2>4, <2>5
<1>6. CASE VtWake
  BY <1>6, <1>0 DEF VtWake, Flags, Places, Attempts, Handle, FrameIsComing
<1>7. CASE VtUnlock
  BY <1>7, <1>0 DEF VtUnlock, Flags, Places, Attempts, Handle, FrameIsComing
<1>8. ASSUME NEW enabled \in BOOLEAN, VtSetMode(enabled) PROVE IInv'
  <2>1. Flags'
    BY <1>8 DEF VtSetMode, SynchronizedOutputChanged, Flags
  <2>2. Places'
    BY <1>8 DEF VtSetMode, SynchronizedOutputChanged, Places
  <2>3. Attempts'
    BY <1>8 DEF VtSetMode, SynchronizedOutputChanged, Attempts, Places
  <2>4. Handle'
    BY <1>8 DEF VtSetMode, SynchronizedOutputChanged, Handle, Flags, Places
  <2>5. FrameIsComing'
    BY <1>8 DEF VtSetMode, SynchronizedOutputChanged, FrameIsComing, Flags, Places
  <2> QED
    BY <1>0, <2>1, <2>2, <2>3, <2>4, <2>5
<1> QED
  BY <1>1, <1>2, <1>3, <1>4, <1>5, <1>6, <1>7, <1>8 DEF Output

\* The steps of the host thread.
LEMMA HostKeeps ==
    ASSUME IInv, HostEnable \/ HostDetach \/ HostRundown \/ HostStep
    PROVE  IInv'
<1> USE RenderAssumption DEF IInv, eventVars, syncVars, paintVars, hostVars, consoleVars
<1>0. LockOK'
  <2>1. \/ console!Ask("host") \/ console!Enter("host") \/ console!Leave("host")
        \/ UNCHANGED consoleVars
    BY DEF HostStep, HostEnable, HostDetach, HostRundown, HostEnter, HostEnablePainting,
       HostStop, HostSetRedraw, HostSetEnable, HostJoin, TeardownReturned
  <2> QED
    BY <2>1, LockSteps DEF Lockers
<1>1. CASE HostEnable
  BY <1>1, <1>0 DEF HostEnable, Flags, Places, Attempts, Handle, FrameIsComing
<1>2. CASE HostDetach
  BY <1>2, <1>0 DEF HostDetach, Flags, Places, Attempts, Handle, FrameIsComing
<1>3. CASE HostRundown
  BY <1>3, <1>0 DEF HostRundown, Flags, Places, Attempts, Handle, FrameIsComing
<1>4. CASE HostEnter
  <2>1. Flags'
    BY <1>4 DEF HostEnter, Flags
  <2>2. Places'
    BY <1>4 DEF HostEnter, Places
  <2>3. Attempts'
    BY <1>4 DEF HostEnter, Attempts, Places
  <2>4. Handle'
    BY <1>4 DEF HostEnter, Handle, Flags, Places
  <2>5. FrameIsComing'
    BY <1>4 DEF HostEnter, FrameIsComing, Flags, Places
  <2> QED
    BY <1>0, <2>1, <2>2, <2>3, <2>4, <2>5
<1>5. CASE HostEnablePainting
  <2>1. Flags'
    BY <1>5 DEF HostEnablePainting, Flags
  <2>2. Places'
    BY <1>5 DEF HostEnablePainting, Places
  <2>3. Attempts'
    BY <1>5 DEF HostEnablePainting, Attempts, Places
  <2>4. Handle'
    BY <1>5 DEF HostEnablePainting, Handle, Flags, Places
  <2>5. FrameIsComing'
    BY <1>5 DEF HostEnablePainting, FrameIsComing, Handle, Flags, Places
  <2> QED
    BY <1>0, <2>1, <2>2, <2>3, <2>4, <2>5
<1>6. CASE HostStop
  <2>1. Flags'
    BY <1>6 DEF HostStop, TeardownReturned, Flags
  <2>2. Places'
    BY <1>6 DEF HostStop, TeardownReturned, Places
  <2>3. Attempts'
    BY <1>6 DEF HostStop, TeardownReturned, Attempts, Places
  <2>4. Handle'
    BY <1>6 DEF HostStop, TeardownReturned, Handle, Flags, Places
  <2>5. FrameIsComing'
    BY <1>6 DEF HostStop, TeardownReturned, FrameIsComing, Flags, Places
  <2> QED
    BY <1>0, <2>1, <2>2, <2>3, <2>4, <2>5
<1>7. CASE HostSetRedraw
  BY <1>7, <1>0 DEF HostSetRedraw, Flags, Places, Attempts, Handle, FrameIsComing
<1>8. CASE HostSetEnable
  BY <1>8, <1>0 DEF HostSetEnable, Flags, Places, Attempts, Handle, FrameIsComing
<1>9. CASE HostJoin
  BY <1>9, <1>0 DEF HostJoin, TeardownReturned, Flags, Places, Attempts, Handle,
     FrameIsComing
<1> QED
  BY <1>1, <1>2, <1>3, <1>4, <1>5, <1>6, <1>7, <1>8, <1>9 DEF HostStep

\* The inductive invariant holds when the console starts ...
LEMMA InitIInv == RenderInit => IInv
<1> SUFFICES ASSUME RenderInit PROVE IInv
  OBVIOUS
<1>1. LockOK
  BY EmptySeq DEF RenderInit, console!Init, LockOK
<1>2. Flags /\ Places
  BY DEF RenderInit, Flags, Places
<1>3. Attempts
  BY RenderAssumption DEF RenderInit, Attempts
<1>4. Handle /\ FrameIsComing
  BY DEF RenderInit, Handle, FrameIsComing
<1> QED
  BY <1>1, <1>2, <1>3, <1>4 DEF IInv

\* ... and every step of the three threads keeps it.
LEMMA NextIInv == IInv /\ [RenderNext]_renderVars => IInv'
<1> SUFFICES ASSUME IInv, [RenderNext]_renderVars PROVE IInv'
  OBVIOUS
<1>1. CASE UNCHANGED renderVars
  BY <1>1 DEF renderVars, eventVars, syncVars, paintVars, hostVars, consoleVars, IInv,
     Flags, Places, LockOK, Attempts, Handle, FrameIsComing
<1> QED
  BY <1>1, RenderKeeps, OutputKeeps, HostKeeps DEF RenderNext, Exited

\* For every number of attempts: an invalidation has a frame coming, whichever
\* thread sets, waits for and uses up the _redraw event in between.
THEOREM NoInvalidationIsLostHolds == RenderSpec => []NoInvalidationIsLost
<1>1. IInv => NoInvalidationIsLost
  <2> SUFFICES ASSUME IInv PROVE NoInvalidationIsLost
    OBVIOUS
  <2>1. {enable, redraw, keepRunning, hThread, waitOk, sync, mode, dirty, abandoned, exiting}
           \subseteq BOOLEAN
    BY DEF IInv, Flags
  <2>2. console!TypeOK
    BY DEF IInv, LockOK, Lockers, console!TypeOK
  <2>3. RenderTypeOK
    BY <2>1, <2>2 DEF IInv, Places, Attempts, RenderTypeOK
  <2> QED
    BY <2>3 DEF IInv, FrameIsComing, NoInvalidationIsLost
<1> QED
  BY <1>1, InitIInv, NextIInv, PTL DEF RenderSpec

\* For every number of attempts: whenever EnablePainting or TriggerTeardown can
\* be called, a handle means a thread that will paint, and no handle means none.
THEOREM HandleMeansRunningHolds == RenderSpec => []HandleMeansRunning
<1>1. IInv => HandleMeansRunning
  BY DEF IInv, Handle, HandleMeansRunning
<1> QED
  BY <1>1, InitIInv, NextIInv, PTL DEF RenderSpec

\* Every step that changes the mode of the render settings or the renderer's copy
\* of it leaves the two equal: DECSET and DECRST, RIS, and the end of the render
\* thread's wait.
LEMMA SyncStep ==
    ASSUME sync = mode, [RenderNext]_renderVars
    PROVE  (sync = mode)'
<1> USE DEF syncVars
<1>1. CASE UNCHANGED renderVars
  BY <1>1 DEF renderVars
<1>2. CASE Render
  <2>1. CASE RtUpdateEnded \/ RtElapsed
    BY <2>1 DEF RtUpdateEnded, RtElapsed, RtStopWaiting
  <2>2. CASE ~(RtUpdateEnded \/ RtElapsed)
    BY <1>2, <2>2 DEF Render, RtEnable, RtRedraw, RtCheck, RtEnter, RtFrame, RtCompare,
       RtReturn, RtWaitAgain, RtDraw, RtPresent, RtBackoff, RtGiveUp
  <2> QED
    BY <2>1, <2>2
<1>3. CASE Output
  <2>1. ASSUME NEW enabled \in BOOLEAN, VtSetMode(enabled) PROVE sync' = mode'
    BY <2>1 DEF VtSetMode, SynchronizedOutputChanged
  <2>2. CASE VtHardReset
    BY <2>2 DEF VtHardReset, SynchronizedOutputChanged
  <2>3. CASE VtLock \/ VtEnter \/ VtInvalidate \/ VtNotify \/ VtWake \/ VtUnlock
    BY <2>3 DEF VtLock, VtEnter, VtInvalidate, VtNotify, VtWake, VtUnlock
  <2> QED
    BY <1>3, <2>1, <2>2, <2>3 DEF Output
<1>4. CASE HostEnable \/ HostDetach \/ HostRundown \/ HostStep
  BY <1>4 DEF HostEnable, HostDetach, HostRundown, HostStep, HostEnter, HostEnablePainting,
     HostStop, HostSetRedraw, HostSetEnable, HostJoin
<1> QED
  BY <1>1, <1>2, <1>3, <1>4 DEF RenderNext, Exited

\* For every number of attempts: whoever takes the console lock finds the
\* renderer's _isSynchronizingOutput and the mode of the render settings equal,
\* whichever of the three places changed them last.
THEOREM SyncFollowsModeHolds == RenderSpec => []SyncFollowsMode
<1>1. RenderInit => sync = mode
  BY DEF RenderInit
<1>2. sync = mode => SyncFollowsMode
  BY DEF SyncFollowsMode
<1>3. sync = mode /\ [RenderNext]_renderVars => (sync = mode)'
  BY SyncStep
<1> QED
  BY <1>1, <1>2, <1>3, PTL DEF RenderSpec

=============================================================================

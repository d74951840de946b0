---------------------------- MODULE RenderThread ----------------------------
(***************************************************************************)
(* Microsoft::Console::Render::RenderThread (src/src/renderer/base/        *)
(* thread.cpp) with the parts of Renderer (renderer.cpp) that it runs or   *)
(* that talk to it, composed with the console lock (FifoLock, which        *)
(* TicketLock implements).  Three threads:                                 *)
(*   "render"  _ThreadProc, PaintFrame with its retries, and the wait for  *)
(*             the end of a synchronized update (DECSET 2026);             *)
(*   "vt"      the output thread, which writes text and switches           *)
(*             synchronized output on and off under the console lock;      *)
(*   "host"    the thread that enables painting, tears it down, and runs   *)
(*             RundownAndExit (ServiceLocator.cpp).                        *)
(* Only the host thread calls EnablePainting and TriggerTeardown, so the   *)
(* _threadMutex between those two is never contended and is left out.      *)
(***************************************************************************)
EXTENDS Integers, Sequences

CONSTANTS
    MaxTries        \* maxRetriesForRenderEngine

ASSUME RenderAssumption == MaxTries \in Nat \ {0}

VARIABLES
    enable,         \* the manual-reset event _enable
    redraw,         \* the auto-reset event _redraw
    keepRunning,    \* _keepRunning
    hThread,        \* _thread holds a handle
    rt,             \* where the render thread is
    tries,          \* PaintFrame's local `tries`
    waitOk,         \* _synchronizeWithOutput's local `ok`
    sync,           \* _isSynchronizingOutput
    mode,           \* RenderSettings::Mode::SynchronizedOutput
    dirty,          \* an engine has invalid regions that no frame has shown
    abandoned,      \* history: the last notification was used up without a frame
    vt,             \* where the output thread is
    host,           \* where the host thread is
    exiting,        \* the host thread is in RundownAndExit
    lockQueue, lockHeld    \* the console lock

eventVars == <<enable, redraw, keepRunning, hThread>>
syncVars == <<waitOk, sync, mode>>
paintVars == <<tries, dirty, abandoned>>
hostVars == <<host, exiting>>
consoleVars == <<lockQueue, lockHeld>>
renderVars == <<eventVars, rt, syncVars, paintVars, vt, hostVars, consoleVars>>

console == INSTANCE FifoLock
    WITH Threads <- {"render", "vt", "host"}, queue <- lockQueue, inside <- lockHeld

Holds(t) == lockHeld /\ Head(lockQueue) = t

RenderTypeOK ==
    /\ {enable, redraw, keepRunning, hThread, waitOk, sync, mode, dirty, abandoned, exiting}
         \subseteq BOOLEAN
    /\ rt \in {"none", "enable", "redraw", "check", "lock", "frame", "compare", "asleep",
               "woken", "relock", "recheck", "draw", "present", "backoff", "giveup", "exited"}
    /\ tries \in 0 .. MaxTries
    /\ vt \in {"idle", "lock", "in", "notify", "wake", "yield", "reask", "gone"}
    /\ host \in {"idle", "lock", "enable", "stop", "redraw", "resume", "join", "exit"}
    /\ console!TypeOK

RenderInit ==
    /\ enable = FALSE /\ redraw = FALSE /\ keepRunning = FALSE /\ hThread = FALSE
    /\ rt = "none" /\ tries = 0
    /\ waitOk = FALSE /\ sync = FALSE /\ mode = FALSE
    /\ dirty = FALSE /\ abandoned = FALSE
    /\ vt = "idle" /\ host = "idle" /\ exiting = FALSE
    /\ console!Init

-----------------------------------------------------------------------------
(* The render thread. *)

\* _enable.wait(), then WaitUntilCanRender().
RtEnable ==
    /\ rt = "enable" /\ enable
    /\ rt' = "redraw"
    /\ UNCHANGED <<eventVars, syncVars, paintVars, vt, hostVars, consoleVars>>

\* _redraw.wait(): the event resets itself.
RtRedraw ==
    /\ rt = "redraw" /\ redraw
    /\ redraw' = FALSE
    /\ rt' = "check"
    /\ UNCHANGED <<enable, keepRunning, hThread, syncVars, paintVars, vt, hostVars, consoleVars>>

\* if (!_keepRunning) break; otherwise PaintFrame() queues for the console lock.
RtCheck ==
    /\ rt = "check"
    /\ IF keepRunning
       THEN /\ tries' = MaxTries
            /\ console!Ask("render")
            /\ rt' = "lock"
            /\ UNCHANGED abandoned
       ELSE /\ abandoned' = TRUE
            /\ rt' = "exited"
            /\ UNCHANGED <<tries, consoleVars>>
    /\ UNCHANGED <<eventVars, syncVars, dirty, vt, hostVars>>

\* The console lock is granted, to _PaintFrame or to _synchronizeWithOutput.
RtEnter ==
    /\ rt \in {"lock", "relock"}
    /\ console!Enter("render")
    /\ rt' = IF rt = "lock" THEN "frame" ELSE "recheck"
    /\ UNCHANGED <<eventVars, syncVars, paintVars, vt, hostVars>>

\* _PaintFrame: a synchronized update in progress is waited for without the lock.
RtFrame ==
    /\ rt = "frame"
    /\ IF sync
       THEN console!Leave("render") /\ rt' = "compare"
       ELSE rt' = "draw" /\ UNCHANGED consoleVars
    /\ UNCHANGED <<eventVars, syncVars, paintVars, vt, hostVars>>

\* WaitOnAddress(&_isSynchronizingOutput, &wrong, ...) with wrong == false: it
\* returns at once when the flag is true, and sleeps when it is false.
RtCompare ==
    /\ rt = "compare"
    /\ IF sync
       THEN waitOk' = TRUE /\ console!Ask("render") /\ rt' = "relock"
       ELSE rt' = "asleep" /\ UNCHANGED <<waitOk, consoleVars>>
    /\ UNCHANGED <<eventVars, sync, mode, paintVars, vt, hostVars>>

\* WaitOnAddress returns, woken or after the rest of the 100 ms.
RtReturn ==
    /\ rt \in {"asleep", "woken"}
    /\ waitOk' = (rt = "woken")
    /\ console!Ask("render")
    /\ rt' = "relock"
    /\ UNCHANGED <<eventVars, sync, mode, paintVars, vt, hostVars>>

\* The end of _synchronizeWithOutput: the update counts as finished.
RtStopWaiting ==
    /\ sync' = FALSE /\ mode' = FALSE
    /\ rt' = "draw"
    /\ UNCHANGED <<eventVars, waitOk, paintVars, vt, hostVars, consoleVars>>

\* The wait failed, or the flag is off.
RtUpdateEnded ==
    /\ rt = "recheck"
    /\ ~waitOk \/ ~sync
    /\ RtStopWaiting

\* Woken with the flag on, before the 100 ms: unlock and wait again.
RtWaitAgain ==
    /\ rt = "recheck"
    /\ waitOk /\ sync
    /\ console!Leave("render")
    /\ rt' = "compare"
    /\ UNCHANGED <<eventVars, syncVars, paintVars, vt, hostVars>>

\* The elapsed time never looked at.
RtElapsedIgnored == RtWaitAgain

\* Woken with the flag on, after the 100 ms.
RtElapsed ==
    /\ rt = "recheck"
    /\ waitOk /\ sync
    /\ RtStopWaiting

\* A frame that could not be shown: back off and retry, or give up.
FrameFails ==
    /\ tries' = tries - 1
    /\ rt' = IF tries = 1 THEN "giveup" ELSE "backoff"
    /\ UNCHANGED abandoned

\* _PaintFrameForEngine for the engines, under the lock: what is invalid is
\* drawn, or an engine fails.  An engine may ask for another frame.
RtDraw ==
    /\ rt = "draw"
    /\ redraw' \in {redraw, TRUE}
    /\ \/ dirty' = FALSE /\ rt' = "present" /\ UNCHANGED <<tries, abandoned>>
       \/ FrameFails /\ UNCHANGED dirty
    /\ console!Leave("render")
    /\ UNCHANGED <<enable, keepRunning, hThread, syncVars, vt, hostVars>>

\* _redraw reset when the frame is done, not when it begins.
RtPresentResetsRedraw ==
    /\ rt = "present"
    /\ \/ rt' = "enable" /\ UNCHANGED paintVars
       \/ dirty' = TRUE /\ FrameFails
    /\ redraw' = FALSE
    /\ UNCHANGED <<enable, keepRunning, hThread, syncVars, vt, hostVars, consoleVars>>

\* Present() for the engines, without the lock; a failed frame is still due.
RtPresent ==
    /\ rt = "present"
    /\ \/ rt' = "enable" /\ UNCHANGED paintVars
       \/ dirty' = TRUE /\ FrameFails
    /\ UNCHANGED <<eventVars, syncVars, vt, hostVars, consoleVars>>

\* After the backoff Sleep, the next _PaintFrame.
RtBackoff ==
    /\ rt = "backoff"
    /\ console!Ask("render")
    /\ rt' = "lock"
    /\ UNCHANGED <<eventVars, syncVars, paintVars, vt, hostVars>>

\* "Stop trying": DisablePainting() and the error callback.
RtGiveUp ==
    /\ rt = "giveup"
    /\ enable' = FALSE
    /\ abandoned' = TRUE
    /\ rt' = "enable"
    /\ UNCHANGED <<redraw, keepRunning, hThread, syncVars, tries, dirty, vt, hostVars, consoleVars>>

Render ==
    \/ RtEnable \/ RtRedraw \/ RtCheck \/ RtEnter \/ RtFrame \/ RtCompare \/ RtReturn
    \/ RtUpdateEnded \/ RtElapsed \/ RtWaitAgain \/ RtDraw \/ RtPresent \/ RtBackoff \/ RtGiveUp

-----------------------------------------------------------------------------
(* The output thread. *)

VtLock ==
    /\ vt \in {"idle", "reask"}
    /\ console!Ask("vt")
    /\ vt' = "lock"
    /\ UNCHANGED <<eventVars, rt, syncVars, paintVars, hostVars>>

VtEnter ==
    /\ vt = "lock"
    /\ console!Enter("vt")
    /\ vt' = "in"
    /\ UNCHANGED <<eventVars, rt, syncVars, paintVars, hostVars>>

\* TriggerRedraw: the engines' Invalidate ...
VtInvalidate ==
    /\ vt = "in"
    /\ dirty' = TRUE
    /\ vt' = "notify"
    /\ UNCHANGED <<eventVars, rt, syncVars, tries, abandoned, hostVars, consoleVars>>

\* ... followed by NotifyPaintFrame.
VtNotify ==
    /\ vt = "notify"
    /\ redraw' = TRUE
    /\ abandoned' = FALSE
    /\ vt' = "in"
    /\ UNCHANGED <<enable, keepRunning, hThread, rt, syncVars, tries, dirty, hostVars, consoleVars>>

\* SynchronizedOutputChanged, up to its WakeByAddressSingle.
SynchronizedOutputChanged ==
    /\ sync' = mode'
    /\ vt' = IF sync /\ ~mode' THEN "wake" ELSE "in"

\* DECSET or DECRST 2026.
VtSetMode(enabled) ==
    /\ vt = "in"
    /\ mode' = enabled
    /\ SynchronizedOutputChanged
    /\ UNCHANGED <<eventVars, rt, waitOk, paintVars, hostVars, consoleVars>>

\* RIS that restores the settings without telling the renderer.
VtHardResetKeepsSync ==
    /\ vt = "in"
    /\ mode' = FALSE
    /\ dirty' = TRUE /\ redraw' = TRUE /\ abandoned' = FALSE
    /\ UNCHANGED <<enable, keepRunning, hThread, rt, waitOk, sync, tries, vt, hostVars,
                   consoleVars>>

\* RIS: RestoreDefaultSettings, TriggerRedrawAll, SynchronizedOutputChanged.
VtHardReset ==
    /\ vt = "in"
    /\ mode' = FALSE
    /\ dirty' = TRUE /\ redraw' = TRUE /\ abandoned' = FALSE
    /\ SynchronizedOutputChanged
    /\ UNCHANGED <<enable, keepRunning, hThread, rt, waitOk, tries, hostVars, consoleVars>>

\* WakeByAddressSingle(&_isSynchronizingOutput)
VtWake ==
    /\ vt = "wake"
    /\ rt' = IF rt = "asleep" THEN "woken" ELSE rt
    /\ vt' = "yield"
    /\ UNCHANGED <<eventVars, syncVars, paintVars, hostVars, consoleVars>>

\* UnlockConsole, at the end of the output or to let the render thread in.
VtUnlock ==
    /\ vt \in {"in", "yield"}
    /\ console!Leave("vt")
    /\ vt' = IF vt = "in" THEN "idle" ELSE "reask"
    /\ UNCHANGED <<eventVars, rt, syncVars, paintVars, hostVars>>

Output ==
    \/ VtLock \/ VtEnter \/ VtInvalidate \/ VtNotify \/ VtHardReset \/ VtWake \/ VtUnlock
    \/ \E enabled \in BOOLEAN : VtSetMode(enabled)

-----------------------------------------------------------------------------
(* The host thread. *)

\* EnablePainting, ResumeRendering: LockForWriting ...
HostEnable ==
    /\ host = "idle"
    /\ console!Ask("host")
    /\ host' = "enable"
    /\ UNCHANGED <<eventVars, rt, syncVars, paintVars, vt, exiting>>

\* EnablePainting that does not set _keepRunning for the new thread.
HostEnableKeepsStop ==
    /\ host = "enable"
    /\ Holds("host")
    /\ enable' = TRUE
    /\ hThread' = TRUE
    /\ rt' = IF hThread THEN rt ELSE "enable"
    /\ console!Leave("host")
    /\ host' = "idle"
    /\ UNCHANGED <<redraw, keepRunning, syncVars, paintVars, vt, exiting>>

\* ... then RenderThread::EnablePainting, which starts the thread if there is none.
HostEnablePainting ==
    /\ host = "enable"
    /\ Holds("host")
    /\ enable' = TRUE
    /\ hThread' = TRUE
    /\ IF hThread
       THEN UNCHANGED <<keepRunning, rt>>
       ELSE keepRunning' = TRUE /\ rt' = "enable"
    /\ console!Leave("host")
    /\ host' = "idle"
    /\ UNCHANGED <<redraw, syncVars, paintVars, vt, exiting>>

\* Detach(), or the destructor: TriggerTeardown() without the console lock.
HostDetach ==
    /\ host = "idle"
    /\ host' = "stop"
    /\ UNCHANGED <<eventVars, rt, syncVars, paintVars, vt, exiting, consoleVars>>

\* RundownAndExit: debug builds lock the console and destroy the renderer,
\* release builds leave it alone and exit.  The process exits once, so the
\* choice here is the choice of the build.
HostRundown ==
    /\ host = "idle"
    /\ exiting' = TRUE
    /\ \/ console!Ask("host") /\ host' = "lock" /\ UNCHANGED <<rt, vt>>
       \/ host' = "exit" /\ rt' = "none" /\ vt' = "gone" /\ UNCHANGED consoleVars
    /\ UNCHANGED <<eventVars, syncVars, paintVars>>

\* The console lock is granted to EnablePainting or to RundownAndExit.
HostEnter ==
    /\ host \in {"lock", "enable"}
    /\ console!Enter("host")
    /\ host' = IF host = "lock" THEN "stop" ELSE "enable"
    /\ UNCHANGED <<eventVars, rt, syncVars, paintVars, vt, exiting>>

\* TriggerTeardown has returned; in RundownAndExit the process ends with it.
TeardownReturned ==
    IF exiting
    THEN host' = "exit" /\ vt' = "gone"
    ELSE host' = "idle" /\ UNCHANGED vt

\* TriggerTeardown: without a thread only DisablePainting(); otherwise
\* _keepRunning = false ...
HostStop ==
    /\ host = "stop"
    /\ IF hThread
       THEN keepRunning' = FALSE /\ host' = "redraw" /\ UNCHANGED <<enable, vt>>
       ELSE enable' = FALSE /\ TeardownReturned /\ UNCHANGED keepRunning
    /\ UNCHANGED <<redraw, hThread, rt, syncVars, paintVars, exiting, consoleVars>>

\* The event left alone: a render thread that waits for it stays there.
HostSkipRedraw ==
    /\ host = "redraw"
    /\ host' = "resume"
    /\ UNCHANGED <<eventVars, rt, syncVars, paintVars, vt, exiting, consoleVars>>

\* ... _redraw.SetEvent() ...
HostSetRedraw ==
    /\ host = "redraw"
    /\ redraw' = TRUE
    /\ host' = "resume"
    /\ UNCHANGED <<enable, keepRunning, hThread, rt, syncVars, paintVars, vt, exiting, consoleVars>>

\* ... _enable.SetEvent() ...
HostSetEnable ==
    /\ host = "resume"
    /\ enable' = TRUE
    /\ host' = "join"
    /\ UNCHANGED <<redraw, keepRunning, hThread, rt, syncVars, paintVars, vt, exiting, consoleVars>>

\* ... WaitForSingleObject(_thread, INFINITE), _thread.reset(), DisablePainting().
HostJoin ==
    /\ host = "join"
    /\ rt = "exited"
    /\ hThread' = FALSE /\ rt' = "none" /\ enable' = FALSE
    /\ TeardownReturned
    /\ UNCHANGED <<redraw, keepRunning, syncVars, paintVars, exiting, consoleVars>>

HostStep ==
    \/ HostEnter \/ HostEnablePainting \/ HostStop \/ HostSetRedraw \/ HostSetEnable \/ HostJoin

\* The process is gone.
Exited == host = "exit" /\ UNCHANGED renderVars

RenderNext == Render \/ Output \/ HostEnable \/ HostDetach \/ HostRundown \/ HostStep \/ Exited

RenderSpec == RenderInit /\ [][RenderNext]_renderVars

\* Every thread is scheduled.  The 100 ms of the wait pass however often it is
\* repeated, and a chunk of output comes to its end.
RenderFairness ==
    /\ WF_renderVars(Render) /\ SF_renderVars(RtElapsed)
    /\ WF_renderVars(VtEnter \/ VtNotify \/ VtWake \/ (vt = "reask" /\ VtLock))
    /\ SF_renderVars(VtUnlock)
    /\ WF_renderVars(HostStep)

RenderFairSpec == RenderSpec /\ RenderFairness

-----------------------------------------------------------------------------
\* An invalidation always has a frame coming: the _redraw event is set, or the
\* output thread is about to set it, or the render thread has taken the event
\* and has yet to draw (RtRedraw resets it before the frame reads the buffer).
\* What a torn down or failed render thread used up is the only exception.
NoInvalidationIsLost ==
    /\ RenderTypeOK
    /\ dirty /\ host # "exit" =>
          \/ redraw \/ abandoned \/ vt = "notify"
          \/ rt \notin {"none", "enable", "redraw", "present", "exited"}

\* The renderer's copy of the synchronized-output mode agrees with the render
\* settings whenever somebody can take the console lock, although three places
\* change the two (DECSET/DECRST, RIS, and the render thread's timeout).
SyncFollowsMode == ~lockHeld => sync = mode

\* Outside TriggerTeardown there is a running render thread exactly when the
\* handle is set, so EnablePainting after a teardown leaves one that paints.
HandleMeansRunning ==
    host \in {"idle", "lock", "enable"} =>
        IF hThread THEN keepRunning /\ rt \notin {"none", "exited"} ELSE rt = "none"

\* TriggerTeardown returns: the render thread sees _keepRunning and exits.
\* "By doing it in reverse order here, we ensure that it's impossible for the
\* render thread to miss this" (thread.cpp:95-96).  Two things prevent it: the
\* last failed attempt of a frame disables painting again, and RundownAndExit of
\* a debug build waits with the console lock held.
TeardownReturns ==
    [](rt # "giveup") =>
        (host \in {"stop", "redraw", "resume", "join"} /\ ~exiting ~> host = "idle")

\* A change of which the render thread was notified is drawn, however the
\* application toggles synchronized output and however many attempts an engine
\* needs, unless the attempts are used up or painting is torn down.
NotifiedChangeIsDrawn ==
    [](rt # "giveup") =>
        (dirty /\ redraw /\ hThread /\ keepRunning ~> ~dirty \/ ~keepRunning \/ host = "exit")

\* The render thread does not sleep on a flag that is off: "Wait for
\* `_isSynchronizingOutput` to be set to false or for a timeout to occur"
\* (renderer.cpp:232).
SleepsOnlyDuringUpdate == rt = "asleep" => sync \/ vt = "wake"

=============================================================================

--------------------------- MODULE ConsoleSession ---------------------------
(***************************************************************************)
(* A console host in ConPTY mode, from its start to its exit: VtIo and its *)
(* signal and input threads, the process list, the connection requests the *)
(* I/O thread serves, and the ctrl events that the last UnlockConsole of a *)
(* thread dispatches (src/src/host/VtIo.cpp, PtySignalInputThread.cpp,     *)
(* VtInputThread.cpp, input.cpp, srvinit.cpp, src/src/server/).            *)
(*   "io"      ConsoleIoThread, one message of the driver at a time;       *)
(*   "signal"  PtySignalInputThread;                                       *)
(*   "vtin"    VtInputThread, started with the first client.               *)
(* All of this state is guarded by the console lock.  An action is what a  *)
(* thread does between taking the lock and giving it up, so the places     *)
(* where the code lets go of it half-way are the ends of actions: the wait *)
(* for the window thread, the wait for DA1, and the EndTask calls.         *)
(***************************************************************************)
EXTENDS Integers, Sequences, FiniteSets

CONSTANTS
    Clients,        \* the client processes, which are their own process IDs
    Sizes,          \* the window sizes
    Chunks,         \* what one read of the input pipe may contain: sets of
                    \* "c" (Ctrl+C), "break" (Ctrl+Break), "echo" (a key that is echoed)
    Generated,      \* the events clients generate: Ctrl+C, Ctrl+Break or both
    Visible         \* ConsoleConnectionDeservesVisibleWindow

Nobody == "nobody"
All == "all"        \* process group 0
Unset == "unset"

ASSUME SessionAssumption ==
    /\ IsFiniteSet(Clients)
    /\ Chunks \subseteq SUBSET {"c", "break", "echo"}
    /\ Generated \subseteq {"c", "break"}
    /\ Visible \in BOOLEAN
    /\ {Nobody, All} \cap Clients = {} /\ Unset \notin Sizes

VARIABLES
    host,           \* "running" or "exited"
    pc,             \* where the three threads are
    conn,           \* the client whose connection the I/O thread is setting up
    vtState,        \* VtIo::_state
    closeEventSent, \* VtIo::_closeEventSent
    hOutput,        \* VtIo::_hOutput is valid
    processes,      \* ConsoleProcessList::_processes, oldest first
    initialized,    \* CONSOLE_INITIALIZED
    CtrlFlags, LimitingProcessId,
    aim,            \* history: the groups the outstanding events are meant for
    closeLost,      \* history: CTRL_CLOSE_EVENT was discarded with another event
    task,           \* the EndTask calls a thread still has to make
    windowUp,       \* hConsoleInputInitEvent
    connected,      \* PtySignalInputThread::_consoleConnected
    size, earlyResize, wanted,  \* the window's size, the stashed one, the last one received
    pipes, reference,           \* what the terminal holds open
    life, group, parent,        \* the client processes
    told            \* those that were sent CTRL_CLOSE_EVENT

vtVars == <<vtState, closeEventSent, hOutput>>
ctrlVars == <<CtrlFlags, LimitingProcessId, aim, closeLost, task>>
sizeVars == <<connected, size, earlyResize, wanted>>
termVars == <<pipes, reference>>
clientVars == <<life, group, parent, told>>
vars == <<host, pc, conn, vtVars, processes, initialized, ctrlVars, windowUp, sizeVars,
          termVars, clientVars>>

Threads == {"io", "signal", "vtin"}
Events == {"c", "break", "close"}
NoTask == [event |-> "none", pids |-> <<>>, aim |-> {}, limit |-> All, then |-> "none"]

Groups == Clients \cup {All}
Entries == [pid : Clients, group : Clients, root : BOOLEAN]
Tasks == [event : Events \cup {"none"}, pids : Seq(Clients), aim : SUBSET Groups, limit : Groups,
          then : {"none", "read", "window", "done"}]
Places == [io : {"init", "read", "window", "da1", "endtask"}, signal : {"read", "endtask", "done"},
           vtin : {"none", "read", "endtask", "done"}]

TypeOK ==
    /\ host \in {"running", "exited"}
    /\ pc \in Places
    /\ conn \in Clients \cup {Nobody}
    /\ vtState \in {"Uninitialized", "Initialized", "Starting", "StartupFailed", "Running"}
    /\ {closeEventSent, hOutput, initialized, windowUp, connected, reference, closeLost} \subseteq BOOLEAN
    /\ processes \in Seq(Entries)
    /\ CtrlFlags \subseteq Events /\ LimitingProcessId \in Groups /\ aim \subseteq Groups
    /\ task \in [Threads -> Tasks]
    /\ {size, earlyResize, wanted} \subseteq Sizes \cup {Unset}
    /\ pipes \subseteq {"signal", "in", "out"}
    /\ life \in [Clients -> {"unborn", "starting", "connected", "exiting", "dead"}]
    /\ group \in [Clients -> Clients] /\ parent \in [Clients -> Clients \cup {Nobody}]
    /\ told \subseteq Clients

Init ==
    /\ host = "running"
    /\ pc = [io |-> "init", signal |-> "read", vtin |-> "none"]
    /\ conn = Nobody
    /\ vtState = "Uninitialized" /\ closeEventSent = FALSE /\ hOutput = TRUE
    /\ processes = <<>> /\ initialized = FALSE
    /\ CtrlFlags = {} /\ LimitingProcessId = All /\ aim = {} /\ closeLost = FALSE
    /\ task = [t \in Threads |-> NoTask]
    /\ windowUp = FALSE
    /\ connected = FALSE /\ size = Unset /\ earlyResize = Unset /\ wanted = Unset
    /\ pipes = {"signal", "in", "out"} /\ reference = TRUE
    /\ life = [p \in Clients |-> "unborn"] /\ group = [p \in Clients |-> p]
    /\ parent = [p \in Clients |-> Nobody] /\ told = {}

-----------------------------------------------------------------------------
(* The process list and the ctrl events *)

Listed(ps, p) == \E i \in DOMAIN ps : ps[i].pid = p
\* FreeProcessData erases the first entry found.
Without(ps, p) ==
    IF ~Listed(ps, p) THEN ps
    ELSE LET k == CHOOSE i \in DOMAIN ps : ps[i].pid = p /\ \A j \in 1 .. i - 1 : ps[j].pid # p
         IN  [i \in 1 .. Len(ps) - 1 |-> IF i < k THEN ps[i] ELSE ps[i + 1]]

\* GetTerminationRecordsByGroupId, newest first.
Records(ps, g) ==
    LET of[n \in 0 .. Len(ps)] ==
          IF n = 0 THEN <<>>
          ELSE IF g = All \/ ps[n].group = g THEN <<ps[n].pid>> \o of[n - 1] ELSE of[n - 1]
    IN  of[Len(ps)]

\* ProcessCtrlEvents that keeps the limit for the next event.
UnlockKeepsLimit(t, next, flags, limit, to, ps) ==
    LET pids == Records(ps, limit) IN
    /\ LimitingProcessId' = limit /\ UNCHANGED closeLost
    /\ IF flags = {} \/ pids = <<>>
       THEN CtrlFlags' = flags /\ aim' = to /\ pc' = [pc EXCEPT ![t] = next] /\ UNCHANGED task
       ELSE /\ CtrlFlags' = {} /\ aim' = {}
            /\ task' = [task EXCEPT ![t] = [event |-> CHOOSE e \in flags : TRUE, pids |-> pids,
                                            aim |-> to, limit |-> limit, then |-> next]]
            /\ pc' = [pc EXCEPT ![t] = "endtask"]

\* ProcessCtrlEvents, from the last UnlockConsole of thread t: `flags`, `limit`,
\* `to` and `ps` are CtrlFlags, LimitingProcessId, the groups meant and the
\* process list at that moment.  Without a process to tell, the flags stay
\* and the limit goes.  A combination of flags is no event at all.
Unlock(t, next, flags, limit, to, ps) ==
    LET pids == Records(ps, limit)
        dispatch == flags # {} /\ pids # <<>>
        single == Cardinality(flags) = 1
    IN
    /\ LimitingProcessId' = IF flags = {} THEN limit ELSE All
    /\ CtrlFlags' = IF dispatch THEN {} ELSE flags
    /\ aim' = IF dispatch THEN {} ELSE to
    /\ closeLost' = (closeLost \/ (dispatch /\ ~single /\ "close" \in flags))
    /\ IF dispatch /\ single
       THEN /\ task' = [task EXCEPT ![t] = [event |-> CHOOSE e \in flags : TRUE, pids |-> pids,
                                            aim |-> to, limit |-> limit, then |-> next]]
            /\ pc' = [pc EXCEPT ![t] = "endtask"]
       ELSE pc' = [pc EXCEPT ![t] = next] /\ UNCHANGED task

\* Unlock with no event but those outstanding.
UnlockConsole(t, next, ps) == Unlock(t, next, CtrlFlags, LimitingProcessId, aim, ps)

\* One call of EndTask, without the lock.  Only a client that has finished
\* connecting reacts to CTRL_CLOSE_EVENT (VtIo.cpp:219-220).
EndTask(t) ==
    /\ host = "running" /\ pc[t] = "endtask"
    /\ LET p == Head(task[t].pids)
           rest == Tail(task[t].pids)
       IN  /\ told' = IF task[t].event = "close" /\ life[p] = "connected" THEN told \cup {p} ELSE told
           /\ task' = [task EXCEPT ![t] = IF rest = <<>> THEN NoTask ELSE [@ EXCEPT !.pids = rest]]
           /\ pc' = [pc EXCEPT ![t] = IF rest = <<>> THEN task[t].then ELSE @]
    /\ UNCHANGED <<host, conn, vtVars, processes, initialized, CtrlFlags, LimitingProcessId, aim,
                   closeLost, windowUp, sizeVars, termVars, life, group, parent>>

\* RundownAndExit
Rundown ==
    /\ host' = "exited"
    /\ UNCHANGED <<pc, conn, vtVars, processes, initialized, ctrlVars, windowUp, sizeVars, termVars,
                   clientVars>>

\* SendCloseEvent and the unlock that follows it, with `keys` the ctrl events
\* of the same critical section: a startup in progress is failed, otherwise
\* the first call closes the console, which exits if it has no processes.
SendCloseEvent(t, next, keys) ==
    IF vtState = "Starting" \/ closeEventSent
    THEN /\ vtState' = IF vtState = "Starting" THEN "StartupFailed" ELSE vtState
         /\ UNCHANGED <<host, closeEventSent>>
         /\ Unlock(t, next, CtrlFlags \cup keys, LimitingProcessId,
                   IF keys = {} THEN aim ELSE aim \cup {All}, processes)
    ELSE /\ closeEventSent' = TRUE /\ UNCHANGED vtState
         /\ IF processes = <<>>
            THEN host' = "exited" /\ UNCHANGED <<pc, ctrlVars>>
            ELSE /\ UNCHANGED host
                 /\ Unlock(t, next, CtrlFlags \cup keys \cup {"close"}, LimitingProcessId,
                           aim \cup {All}, processes)

-----------------------------------------------------------------------------
(* VtIo::Initialize, StartIfNeeded and the connection requests *)

\* The signal thread is started before the state changes.
Initialize ==
    /\ host = "running" /\ pc.io = "init"
    /\ vtState' = "Initialized"
    /\ pc' = [pc EXCEPT !.io = "read"]
    /\ UNCHANGED <<host, conn, closeEventSent, hOutput, processes, initialized, ctrlVars, windowUp,
                   sizeVars, termVars, clientVars>>

\* A connection that is never taken for the console's first.
ConnectedForgetsInit(p, ps) ==
    /\ life' = [life EXCEPT ![p] = IF @ = "starting" THEN "connected" ELSE @]
    /\ processes' = IF life[p] = "starting" THEN ps ELSE Without(ps, p)
    /\ conn' = Nobody
    /\ UNCHANGED initialized
    /\ UnlockConsole("io", "read", IF life[p] = "starting" THEN ps ELSE Without(ps, p))

\* The rest of ConsoleHandleConnectionRequest: the console is set up, and the
\* reply reaches the client unless it has died, when its entry is freed.
Connected(p, ps) ==
    LET listed == IF life[p] = "starting" THEN ps ELSE Without(ps, p) IN
    /\ life' = [life EXCEPT ![p] = IF @ = "starting" THEN "connected" ELSE @]
    /\ processes' = listed
    /\ conn' = Nobody
    /\ initialized' = TRUE
    /\ UnlockConsole("io", "read", listed)

\* An error reply: the entry, if one was made, is freed, and the client gives up.
Refused(p, ps) ==
    /\ life' = [life EXCEPT ![p] = "dead"]
    /\ processes' = ps
    /\ conn' = Nobody
    /\ UNCHANGED initialized
    /\ UnlockConsole("io", "read", ps)

\* A flush of VtIo's buffer finds that the terminal has closed the output pipe.
OutputBroken == hOutput /\ "out" \notin pipes

\* StartIfNeeded up to the suspension of the lock; a VtIo that is not waiting
\* to be started is left alone, and the connection goes on.
StartIfNeeded(p, ps) ==
    /\ IF vtState = "Initialized"
       THEN /\ vtState' = IF OutputBroken THEN "StartupFailed" ELSE "Starting"
            /\ hOutput' = (hOutput /\ ~OutputBroken)
            /\ pc' = [pc EXCEPT !.io = "da1", !.vtin = "read"]
            /\ conn' = p /\ processes' = ps
            /\ UNCHANGED <<initialized, ctrlVars, life>>
       ELSE Connected(p, ps) /\ UNCHANGED <<vtState, hOutput>>
    /\ UNCHANGED closeEventSent

\* ConsoleHandleConnectionRequest.  AllocProcessData returns S_FALSE for a
\* process that is in the list, which as an NTSTATUS is an error.  The first
\* client makes the console allocate itself, for which the lock is given up
\* when there is a window thread to wait for.
Connect(p) ==
    /\ host = "running" /\ pc.io = "read" /\ life[p] = "starting"
    /\ LET ps == Append(processes, [pid |-> p, group |-> group[p], root |-> ~initialized]) IN
       IF Listed(processes, p) THEN Refused(p, processes) /\ UNCHANGED vtVars
       ELSE IF initialized THEN Connected(p, ps) /\ UNCHANGED vtVars
       ELSE IF ~Visible THEN StartIfNeeded(p, ps)
       ELSE /\ conn' = p /\ processes' = ps
            /\ UnlockConsole("io", "window", ps)
            /\ UNCHANGED <<vtVars, initialized, life>>
    /\ UNCHANGED <<host, windowUp, sizeVars, termVars, group, parent, told>>

\* The window thread is done initializing under the lock.
WindowReady ==
    /\ host = "running" /\ pc.io = "window" /\ ~windowUp
    /\ windowUp' = TRUE
    /\ UNCHANGED <<host, pc, conn, vtVars, processes, initialized, ctrlVars, sizeVars, termVars,
                   clientVars>>

\* ConsoleAllocateConsole after the wait.
WindowWaited ==
    /\ host = "running" /\ pc.io = "window" /\ windowUp
    /\ StartIfNeeded(conn, processes)
    /\ UNCHANGED <<host, windowUp, sizeVars, termVars, group, parent, told>>

\* StartIfNeeded that does not report what happened during the wait.
StartedRegardless ==
    /\ host = "running" /\ pc.io = "da1"
    /\ connected' = TRUE /\ earlyResize' = Unset
    /\ size' = IF earlyResize # Unset THEN earlyResize ELSE size
    /\ vtState' = (IF vtState = "Starting" THEN "Running" ELSE vtState) /\ Connected(conn, processes)
    /\ UNCHANGED <<host, closeEventSent, hOutput, windowUp, wanted, termVars, group, parent, told>>

\* ConnectConsole without the size that was stashed.
StartedForgetsResize ==
    /\ host = "running" /\ pc.io = "da1"
    /\ connected' = TRUE /\ earlyResize' = Unset /\ UNCHANGED size
    /\ vtState' = "Running" /\ Connected(conn, processes)
    /\ UNCHANGED <<host, closeEventSent, hOutput, windowUp, wanted, termVars, group, parent, told>>

\* The answer to DA1 has come, or the timeout: the signal thread is told that
\* the console is connected, and a startup that failed meanwhile is reported.
\* The stashed size, which nothing reads any more, is forgotten.
Started ==
    /\ host = "running" /\ pc.io = "da1"
    /\ connected' = TRUE /\ earlyResize' = Unset
    /\ size' = IF earlyResize # Unset THEN earlyResize ELSE size
    /\ IF vtState = "Starting"
       THEN vtState' = "Running" /\ Connected(conn, processes)
       ELSE UNCHANGED vtState /\ Refused(conn, Without(processes, conn))
    /\ UNCHANGED <<host, closeEventSent, hOutput, windowUp, wanted, termVars, group, parent, told>>

\* ConsoleClientDisconnectRoutine and RemoveConsole.
Disconnect(p) ==
    /\ host = "running" /\ pc.io = "read" /\ life[p] = "exiting"
    /\ life' = [life EXCEPT ![p] = "dead"]
    /\ processes' = Without(processes, p)
    /\ UnlockConsole("io", "read", Without(processes, p))
    /\ UNCHANGED <<host, conn, vtVars, initialized, windowUp, sizeVars, termVars, group, parent, told>>

\* ServerGenerateConsoleCtrlEvent: a group nobody in the list belongs to is
\* accepted when it names a live process whose parent is in the list; the
\* process is then added to the list unless it is in there.
GenerateConsoleCtrlEvent(p, e, g) ==
    /\ host = "running" /\ pc.io = "read" /\ life[p] = "connected"
    /\ LET known == g = All \/ \E i \in DOMAIN processes : processes[i].group = g
           child == g # All /\ life[g] \in {"starting", "connected"} /\ Listed(processes, parent[g])
           ps == IF known \/ ~child \/ Listed(processes, g) THEN processes
                 ELSE Append(processes, [pid |-> g, group |-> g, root |-> FALSE])
       IN  /\ processes' = ps
           /\ IF known \/ child
              THEN Unlock("io", "read", CtrlFlags \cup {e}, g, aim \cup {g}, ps)
              ELSE UnlockConsole("io", "read", ps)
    /\ UNCHANGED <<host, conn, vtVars, initialized, windowUp, sizeVars, termVars, clientVars>>

\* A client's output finds the output pipe broken.
ClientOutput ==
    /\ host = "running" /\ pc.io = "read" /\ \E p \in Clients : life[p] = "connected"
    /\ OutputBroken
    /\ hOutput' = FALSE
    /\ SendCloseEvent("io", "read", {})
    /\ UNCHANGED <<conn, processes, initialized, windowUp, sizeVars, termVars, clientVars>>

\* ReadIo fails: no process and no reference is left.
NotConnected ==
    /\ host = "running" /\ pc.io = "read"
    /\ ~reference /\ \A p \in Clients : life[p] \in {"unborn", "dead"}
    /\ Rundown

-----------------------------------------------------------------------------
(* PtySignalInputThread and VtInputThread *)

\* _DoResizeWindow; before the console is connected the size is stashed.
\* Visibility is handled the same way.
ResizeWindow(s) ==
    /\ host = "running" /\ pc.signal = "read" /\ "signal" \in pipes
    /\ wanted' = s
    /\ earlyResize' = IF connected THEN earlyResize ELSE s
    /\ size' = IF connected THEN s ELSE size
    /\ UnlockConsole("signal", "read", processes)
    /\ UNCHANGED <<host, conn, vtVars, processes, initialized, windowUp, connected, termVars, clientVars>>

\* _Shutdown
SignalPipeBroken ==
    /\ host = "running" /\ pc.signal = "read" /\ "signal" \notin pipes
    /\ SendCloseEvent("signal", "done", {})
    /\ UNCHANGED <<conn, hOutput, processes, initialized, windowUp, sizeVars, termVars, clientVars>>

\* The input thread handles what it has read, under one lock.
ProcessInput(chunk) ==
    LET keys == chunk \ {"echo"} IN
    /\ host = "running" /\ pc.vtin = "read" /\ "in" \in pipes
    /\ IF "echo" \in chunk /\ OutputBroken
       THEN hOutput' = FALSE /\ SendCloseEvent("vtin", "read", keys)
       ELSE /\ Unlock("vtin", "read", CtrlFlags \cup keys, LimitingProcessId,
                      IF keys = {} THEN aim ELSE aim \cup {All}, processes)
            /\ UNCHANGED <<host, vtVars>>
    /\ UNCHANGED <<conn, processes, initialized, windowUp, sizeVars, termVars, clientVars>>

InputPipeBroken ==
    /\ host = "running" /\ pc.vtin = "read" /\ "in" \notin pipes
    /\ SendCloseEvent("vtin", "done", {})
    /\ UNCHANGED <<conn, hOutput, processes, initialized, windowUp, sizeVars, termVars, clientVars>>

-----------------------------------------------------------------------------
(* The terminal and the client processes *)

hostVars == <<host, pc, conn, vtVars, processes, initialized, ctrlVars, windowUp, sizeVars>>

ClosePseudoConsole ==
    /\ "signal" \in pipes
    /\ pipes' = pipes \ {"signal"} /\ reference' = FALSE
    /\ UNCHANGED <<hostVars, clientVars>>

ReleasePseudoConsole ==
    /\ reference
    /\ reference' = FALSE
    /\ UNCHANGED <<hostVars, pipes, clientVars>>

ClosePipe(x) ==
    /\ x \in pipes
    /\ pipes' = pipes \ {x}
    /\ UNCHANGED <<hostVars, reference, clientVars>>

\* The terminal or a connected client starts a process, which leads a group of
\* its own or joins that of its parent.
Launch(q, p) ==
    /\ life[q] = "unborn"
    /\ IF p = Nobody THEN reference ELSE life[p] = "connected"
    /\ life' = [life EXCEPT ![q] = "starting"]
    /\ parent' = [parent EXCEPT ![q] = p]
    /\ group' \in {group, [group EXCEPT ![q] = IF p # Nobody THEN group[p] ELSE @]}
    /\ UNCHANGED <<hostVars, termVars, told>>

ClientExits(p) ==
    /\ life[p] \in {"starting", "connected"}
    /\ life' = [life EXCEPT ![p] = IF @ = "starting" THEN "dead" ELSE "exiting"]
    /\ UNCHANGED <<hostVars, termVars, group, parent, told>>

IoStep ==
    \/ Initialize \/ WindowReady \/ WindowWaited \/ Started \/ NotConnected
    \/ \E p \in Clients : Connect(p)
    \/ \E p \in Clients : Disconnect(p)

Terminal == ClosePseudoConsole \/ ReleasePseudoConsole \/ ClosePipe("in") \/ ClosePipe("out")

Exited == host = "exited" /\ UNCHANGED vars

Next ==
    \/ IoStep
    \/ \E p \in Clients, e \in Generated, g \in Clients \cup {All} : GenerateConsoleCtrlEvent(p, e, g)
    \/ ClientOutput
    \/ \E s \in Sizes : ResizeWindow(s)
    \/ SignalPipeBroken
    \/ \E chunk \in Chunks : ProcessInput(chunk)
    \/ InputPipeBroken
    \/ \E t \in Threads : EndTask(t)
    \/ Terminal
    \/ \E q \in Clients, p \in Clients \cup {Nobody} : Launch(q, p)
    \/ \E p \in Clients : ClientExits(p)
    \/ Exited

Spec == Init /\ [][Next]_vars

\* The lock is fair and the threads are scheduled; a client that was sent
\* CTRL_CLOSE_EVENT ends, by itself or when the system's timeout expires.
Fairness ==
    /\ WF_vars(IoStep)
    /\ WF_vars(SignalPipeBroken)
    /\ WF_vars(InputPipeBroken)
    /\ \A t \in Threads : WF_vars(EndTask(t))
    /\ \A p \in Clients : WF_vars(p \in told /\ ClientExits(p))

FairSpec == Spec /\ Fairness

-----------------------------------------------------------------------------
\* The process list has one entry per process, one root at most, and an entry
\* for every client that has a handle to one, from the reply to its connect
\* request until its disconnect request has been served.
ListMatchesClients ==
    /\ TypeOK
    /\ \A i, j \in DOMAIN processes : i # j =>
         processes[i].pid # processes[j].pid /\ ~(processes[i].root /\ processes[j].root)
    /\ \A p \in Clients : life[p] \in {"connected", "exiting"} => Listed(processes, p)

\* The last size the terminal sent is the window's, also if it came before
\* the console was connected or while StartIfNeeded was waiting.
SizeIsCurrent == connected => size = wanted

\* A process of the groups an event is meant for.
MeantFor(p, to) == {p, group[p]} \cap to # {}

\* "Make sure the process group id is valid" (ApiDispatchersInternal.cpp:74),
\* "Will restrict the return to only processes containing this group ID"
\* (ProcessList.cpp:197): an event that was generated for process groups is sent
\* to processes of these groups only.
GroupEventStaysInGroup ==
    \A t \in Threads : pc[t] = "endtask" /\ All \notin task[t].aim =>
        \A i \in DOMAIN task[t].pids : MeantFor(task[t].pids[i], task[t].aim)

\* Whom ProcessCtrlEvents tells.  An event for everybody is not narrowed by the
\* group of an earlier one.  An event for process groups is sent to processes of
\* these groups only, unless one of the IDs names a process that leads no group,
\* which ServerGenerateConsoleCtrlEvent accepts.
CtrlStaysInGroup ==
    \A t \in Threads : pc[t] = "endtask" =>
        IF All \in task[t].aim THEN task[t].limit = All
        ELSE \/ \E g \in task[t].aim : group[g] # g
             \/ \A i \in DOMAIN task[t].pids : MeantFor(task[t].pids[i], task[t].aim)

\* No client is on its way in when the console is closed, but the first one,
\* whose connection StartIfNeeded refuses when a pipe breaks during its wait.
NoLateClient ==
    [](\A p \in Clients : life[p] = "starting" =>
         ~closeEventSent /\ (vtState = "StartupFailed" => p = conn))

\* When the terminal closes the pseudoconsole the host goes away in the end,
\* "as though the console window they were running in was closed"
\* (winconpty.cpp:551-552): before the first client, during StartIfNeeded's wait,
\* or with several clients connected and exiting, whichever of the three threads
\* notices it first.  Two things keep it alive: a client that connects late, and
\* a CTRL_CLOSE_EVENT that meets another ctrl event, when ProcessCtrlEvents
\* discards both and nothing sends it again.
SettledConsoleExits ==
    NoLateClient => ("signal" \notin pipes ~> host = "exited" \/ closeLost)

=============================================================================

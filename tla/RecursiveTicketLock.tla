------------------------ MODULE RecursiveTicketLock ------------------------
(***************************************************************************)
(* til::recursive_ticket_lock (src/src/inc/til/ticket_lock.h): the console *)
(* lock of conhost and the terminal lock of Windows Terminal.  It composes *)
(* the steps of TicketLock with an owner, a recursion count, and           *)
(* suspensions that give the lock up for a while and take it back.         *)
(***************************************************************************)
EXTENDS TicketLock

CONSTANTS
    NoThread,       \* the thread id 0: nobody
    MaxDepth,       \* bound on the lock() calls a thread has outstanding
    MaxSuspensions  \* bound on the suspensions alive at a time

\* No thread has the id 0.
ASSUME NoThreadAssumption ==
    NoThread \notin Threads /\ MaxDepth \in Nat /\ MaxSuspensions \in Nat

VARIABLES
    owner,          \* _owner
    recursion,      \* _recursion
    suspensions,    \* per thread, the live recursive_ticket_lock_suspension objects
    op,             \* which member function each thread is running
    calls           \* history: lock() calls minus unlock() calls of each thread

\* The variables of TicketLock are the _lock member.
lockVars == vars
recursiveVars == <<lockVars, owner, recursion, suspensions, op, calls>>

Suspension == [owned : BOOLEAN, recursion : 0 .. MaxDepth]

RecursiveTypeOK ==
    /\ TypeOK
    /\ owner \in Threads \cup {NoThread}
    /\ recursion \in 0 .. MaxDepth
    /\ suspensions \in [Threads -> Seq(Suspension)]
    /\ op \in [Threads -> {"client", "lock", "unlock", "restore"}]
    /\ calls \in [Threads -> 0 .. MaxDepth]

RecursiveInit ==
    /\ Init
    /\ owner = NoThread
    /\ recursion = 0
    /\ suspensions = [t \in Threads |-> <<>>]
    /\ op = [t \in Threads |-> "client"]
    /\ calls = [t \in Threads |-> 0]

-----------------------------------------------------------------------------
\* lock(): the owner only counts; anyone else queues for the ticket lock.
Lock(t) ==
    /\ op[t] = "client"
    /\ calls[t] < MaxDepth
    /\ \/ /\ owner = t
          /\ recursion' = recursion + 1
          /\ calls' = [calls EXCEPT ![t] = @ + 1]
          /\ UNCHANGED <<lockVars, owner, suspensions, op>>
       \/ /\ owner # t
          /\ TakeTicket(t)
          /\ op' = [op EXCEPT ![t] = "lock"]
          /\ UNCHANGED <<owner, recursion, suspensions, calls>>

\* lock(), after _lock.lock() returned.
LockAcquired(t) ==
    /\ op[t] = "lock"
    /\ pc[t] = "holding"
    /\ owner' = t
    /\ recursion' = recursion + 1
    /\ op' = [op EXCEPT ![t] = "client"]
    /\ calls' = [calls EXCEPT ![t] = @ + 1]
    /\ UNCHANGED <<lockVars, suspensions>>

\* unlock() that forgets to clear the owner.
UnlockKeepsOwner(t) ==
    /\ op[t] = "client"
    /\ owner = t
    /\ recursion' = recursion - 1
    /\ calls' = [calls EXCEPT ![t] = @ - 1]
    /\ op' = [op EXCEPT ![t] = IF recursion = 1 THEN "unlock" ELSE "client"]
    /\ UNCHANGED <<lockVars, owner, suspensions>>

\* unlock(), called by a client that holds the lock: the last one clears the
\* owner before it unlocks the ticket lock.
Unlock(t) ==
    /\ op[t] = "client"
    /\ owner = t
    /\ recursion' = recursion - 1
    /\ calls' = [calls EXCEPT ![t] = @ - 1]
    /\ IF recursion = 1
       THEN owner' = NoThread /\ op' = [op EXCEPT ![t] = "unlock"]
       ELSE UNCHANGED <<owner, op>>
    /\ UNCHANGED <<lockVars, suspensions>>

\* The bound on the suspensions that are alive, nested or of several threads.
MoreSuspensions ==
    Cardinality({o \in Threads \X (1 .. MaxSuspensions) : o[2] <= Len(suspensions[o[1]])})
        < MaxSuspensions

\* suspend(): the owner saves its recursion count and gives the lock up; for
\* anyone else the suspension is empty.
Suspend(t) ==
    /\ op[t] = "client"
    /\ MoreSuspensions
    /\ IF owner = t
       THEN /\ suspensions' = [suspensions EXCEPT ![t] =
                                 Append(@, [owned |-> TRUE, recursion |-> recursion])]
            /\ owner' = NoThread
            /\ recursion' = 0
            /\ op' = [op EXCEPT ![t] = "unlock"]
       ELSE /\ suspensions' = [suspensions EXCEPT ![t] =
                                 Append(@, [owned |-> FALSE, recursion |-> 0])]
            /\ UNCHANGED <<owner, recursion, op>>
    /\ UNCHANGED <<lockVars, calls>>

\* _lock.unlock(), called by unlock() and by suspend().
InnerUnlock(t) ==
    /\ op[t] = "unlock"
    /\ \/ ServeNext(t) /\ UNCHANGED op
       \/ NotifyAll(t) /\ op' = [op EXCEPT ![t] = "client"]
    /\ UNCHANGED <<owner, recursion, suspensions, calls>>

\* The loop of _lock.lock(), called by lock() and by the suspension's destructor.
InnerLock(t) == LockStep(t) /\ UNCHANGED <<owner, recursion, suspensions, op, calls>>

\* The sleep in that loop ends for no reason.
InnerWake(t) == SpuriousWake(t) /\ UNCHANGED <<owner, recursion, suspensions, op, calls>>

\* The suspension whose destructor a thread runs next, and those it leaves.
Newest(t) == suspensions[t][Len(suspensions[t])]
Older(t) == SubSeq(suspensions[t], 1, Len(suspensions[t]) - 1)

\* The destructor overwriting what was locked since the suspension.
RestoreOverwrites(t) ==
    /\ op[t] = "client"
    /\ suspensions[t] # <<>>
    /\ LET s == Newest(t)
       IN IF s.owned /\ owner # t
          THEN /\ TakeTicket(t)
               /\ op' = [op EXCEPT ![t] = "restore"]
               /\ UNCHANGED <<recursion, suspensions>>
          ELSE /\ recursion' = IF s.owned THEN s.recursion ELSE recursion
               /\ suspensions' = [suspensions EXCEPT ![t] = Older(t)]
               /\ UNCHANGED <<lockVars, op>>
    /\ UNCHANGED <<owner, calls>>

\* ~recursive_ticket_lock_suspension(): nothing for an empty suspension; the
\* lock is taken again unless this thread holds it already.
Restore(t) ==
    /\ op[t] = "client"
    /\ suspensions[t] # <<>>
    /\ LET s == Newest(t)
       IN IF s.owned /\ owner # t
          THEN /\ TakeTicket(t)
               /\ op' = [op EXCEPT ![t] = "restore"]
               /\ UNCHANGED <<recursion, suspensions>>
          ELSE /\ recursion' = recursion + s.recursion
               /\ suspensions' = [suspensions EXCEPT ![t] = Older(t)]
               /\ UNCHANGED <<lockVars, op>>
    /\ UNCHANGED <<owner, calls>>

\* The destructor, after _lock._lock.lock() returned.
RestoreAcquired(t) ==
    /\ op[t] = "restore"
    /\ pc[t] = "holding"
    /\ owner' = t
    /\ recursion' = recursion + Newest(t).recursion
    /\ suspensions' = [suspensions EXCEPT ![t] = Older(t)]
    /\ op' = [op EXCEPT ![t] = "client"]
    /\ UNCHANGED <<lockVars, calls>>

RecursiveNext == \E t \in Threads :
    \/ Lock(t) \/ LockAcquired(t) \/ Unlock(t) \/ InnerLock(t) \/ InnerWake(t) \/ InnerUnlock(t)
    \/ Suspend(t) \/ Restore(t) \/ RestoreAcquired(t)

\* The scheduler runs every thread that is inside _lock.lock() or _lock.unlock().
RecursiveFairness == \A t \in Threads :
    WF_recursiveVars(InnerLock(t)) /\ WF_recursiveVars(LockAcquired(t) \/ RestoreAcquired(t))
    /\ WF_recursiveVars(InnerUnlock(t))

RecursiveSpec == RecursiveInit /\ [][RecursiveNext]_recursiveVars /\ RecursiveFairness

-----------------------------------------------------------------------------
\* What a thread's live suspensions will add to the recursion count.
Total(ss) ==
    LET sum[n \in 0 .. Len(ss)] == IF n = 0 THEN 0 ELSE sum[n - 1] + ss[n].recursion
    IN  sum[Len(ss)]
Saved(t) == Total(suspensions[t])

\* The recursion count plus the counts saved by its suspensions is what the
\* thread has locked and not unlocked, also when it took the lock again inside
\* a suspension and still held it in the destructor (ticket_lock.h:79-86).
RecursionIsBalanced ==
    /\ RecursiveTypeOK
    /\ \A t \in Threads : calls[t] = Saved(t) + IF owner = t THEN recursion ELSE 0

\* _recursion is not atomic: it is 0 whenever somebody has just been given the
\* ticket lock, so no owner inherits another thread's count.
FreshOwnerStartsAtZero ==
    \A t \in Threads : op[t] \in {"lock", "restore"} /\ pc[t] = "holding" => recursion = 0

\* Whoever is recorded in _owner is inside the ticket lock, so that the
\* unsynchronised test `_owner == id` is true only for the thread inside.
OwnerIsInside ==
    owner # NoThread => pc[owner] = "holding" /\ op[owner] = "client" /\ recursion > 0

\* A thread that drew a ticket, in lock() or in the destructor of a suspension,
\* gets the lock, provided that no thread keeps it for ever: no wake-up is lost
\* between the fetch_add of unlock() and its notification.
QueuedThreadEnters ==
    (\A t \in Threads : []<>(pc[t] # "holding")) => LockIsGranted

=============================================================================

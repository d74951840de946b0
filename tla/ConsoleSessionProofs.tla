------------------------ MODULE ConsoleSessionProofs ------------------------
(***************************************************************************)
(* The console session for every set of clients and sizes: the process     *)
(* list matches the clients, the window has the size that was last asked   *)
(* for, and a ctrl event reaches whom it was meant for, as far as the code *)
(* keeps to that.                                                          *)
(***************************************************************************)
EXTENDS ConsoleSession, SequenceTheorems, NaturalsInduction, WellFoundedInduction, TLAPS

\* Where thread t is, or will be after its EndTask calls.
At(t) == IF pc[t] = "endtask" THEN task[t].then ELSE pc[t]

\* Where a thread may go on after its EndTask calls, of which at least one is left.
Returns == [io |-> {"read", "window"}, signal |-> {"read", "done"}, vtin |-> {"read", "done"}]

TaskOK == \A t \in Threads : pc[t] = "endtask" => task[t].pids # <<>> /\ task[t].then \in Returns[t]

Distinct(ps) ==
    \A i, j \in DOMAIN ps : i # j => ps[i].pid # ps[j].pid /\ ~(ps[i].root /\ ps[j].root)

\* A client is being connected while the I/O thread waits for the window or for
\* DA1; until the first one is connected nobody else has an entry.
ListOK ==
    /\ Distinct(processes)
    /\ \A p \in Clients : life[p] \in {"connected", "exiting"} => Listed(processes, p) /\ initialized
    /\ At("io") \in {"init", "read"} => conn = Nobody
    /\ At("io") \in {"window", "da1"} => conn \in Clients /\ Listed(processes, conn) /\ ~initialized
    /\ ~initialized => \A i \in DOMAIN processes : processes[i].pid = conn

\* The console is connected to the signal thread once, after the wait for DA1.
SizeOK ==
    /\ connected => size = wanted
    /\ ~connected => size = Unset /\ earlyResize = wanted
    /\ vtState \in {"Uninitialized", "Initialized"} => ~connected /\ pc.io # "da1"
    /\ pc.io \in {"init", "da1"} => ~connected

IInv == TypeOK /\ TaskOK /\ ListOK /\ SizeOK

\* The group an entry of the process list has is that of its process, or was made
\* up for it by ServerGenerateConsoleCtrlEvent.
Own(ps) ==
    \A i \in DOMAIN ps : /\ ps[i].group \in {ps[i].pid, group[ps[i].pid]}
                         /\ life[ps[i].pid] # "unborn"

\* One of the IDs names a process that leads no group.
Astray(to) == All \notin to /\ \E g \in to : group[g] # g

\* An event stays outstanding while there is nobody to send it to, or because the
\* group it was generated for has no entry.
CtrlOK ==
    /\ \A p \in Clients : life[p] = "unborn" => group[p] = p
    /\ Own(processes)
    /\ LimitingProcessId = All
    /\ CtrlFlags = {} => aim = {}
    /\ CtrlFlags # {} => Astray(aim) \/ (All \in aim /\ (processes = <<>> \/ pc.io = "da1"))

\* Only processes that exist are told.
PidsOK ==
    \A t \in Threads : pc[t] = "endtask" =>
        \A i \in DOMAIN task[t].pids : life[task[t].pids[i]] # "unborn"

\* What a step must keep of the ctrl events.
Ctrl == CtrlOK /\ PidsOK /\ CtrlStaysInGroup

CInv == IInv /\ Ctrl

-----------------------------------------------------------------------------
(* The process list *)

\* Induction over the natural numbers, for a set instead of a predicate.
LEMMA NatSetInduction ==
    ASSUME NEW S, 0 \in S, \A n \in Nat : n \in S => n + 1 \in S
    PROVE  Nat \subseteq S
<1> DEFINE T == Nat \ S
           Less == {ss \in Nat \X Nat : ss[1] < ss[2]}
<1> SUFFICES ASSUME T # {} PROVE FALSE
  OBVIOUS
<1>1. IsWellFoundedOn(Less, Nat)
  BY NatLessThanWellFounded DEF OpToRel
<1>2. PICK n \in T : \A m \in T : <<m, n>> \notin Less
  <2> HIDE DEF Less
  <2> QED
    BY <1>1, WFMin, Zenon
<1>3. n \in Nat /\ n \notin S /\ n # 0 /\ n - 1 \in Nat /\ n = (n - 1) + 1
  BY <1>2
<1>4. <<n - 1, n>> \in Less
  BY <1>3
<1>5. n - 1 \in S
  BY <1>2, <1>3, <1>4
<1> QED
  BY <1>3, <1>5

LEMMA ReturnsFacts ==
    /\ \A t \in Threads : Returns[t] \subseteq {"read", "window", "done"} /\ "read" \in Returns[t]
    /\ "done" \in Returns["signal"] /\ "done" \in Returns["vtin"]
    /\ {"read", "window"} \subseteq Returns["io"] /\ "done" \notin Returns["io"]
    /\ "window" \notin Returns["signal"] /\ "window" \notin Returns["vtin"]
<1>1. Returns["io"] = {"read", "window"} /\ Returns["signal"] = {"read", "done"} /\ Returns["vtin"] = {"read", "done"}
  BY DEF Returns
<1> QED
  BY <1>1 DEF Threads

\* GetTerminationRecordsByGroupId returns processes of the group only, and
\* some if there are any.
LEMMA RecordsFacts ==
    ASSUME NEW ps \in Seq(Entries), NEW g
    PROVE  /\ Records(ps, g) \in Seq(Clients)
           /\ \A k \in DOMAIN Records(ps, g) :
                \E i \in DOMAIN ps : Records(ps, g)[k] = ps[i].pid /\ (g = All \/ ps[i].group = g)
           /\ (\E i \in DOMAIN ps : g = All \/ ps[i].group = g) => Records(ps, g) # <<>>
<1> DEFINE Hit(n) == g = All \/ ps[n].group = g
           H == {ps[i].pid : i \in {j \in DOMAIN ps : Hit(j)}}
           Step(n, r) == IF Hit(n) THEN <<ps[n].pid>> \o r ELSE r
           Is(r, n) == r = [k \in 0 .. n |-> IF k = 0 THEN <<>> ELSE Step(k, r[k - 1])]
           Built == {n \in Nat : \E r : Is(r, n)}
<1>1. Nat \subseteq Built
  <2>1. 0 \in Built
    <3>1. Is([k \in 0 .. 0 |-> <<>>], 0)
      OBVIOUS
    <3> QED
      BY <3>1, Zenon
  <2>2. ASSUME NEW n \in Nat, n \in Built PROVE n + 1 \in Built
    <3>1. PICK r : Is(r, n)
      BY <2>2
    <3> DEFINE q == [k \in 0 .. n + 1 |-> IF k = n + 1 THEN Step(n + 1, r[n]) ELSE r[k]]
    <3> HIDE DEF Step
    <3>2. \A k \in 0 .. n : r[k] = IF k = 0 THEN <<>> ELSE Step(k, r[k - 1])
      BY <3>1
    <3>3. \A k \in 0 .. n + 1 : q[k] = IF k = 0 THEN <<>> ELSE Step(k, q[k - 1])
      BY <3>2
    <3>4. Is(q, n + 1)
      BY <3>3
    <3> HIDE DEF q, Is
    <3> QED
      BY <3>4
  <2> HIDE DEF Built
  <2> QED
    BY <2>1, <2>2, NatSetInduction
<1> DEFINE N == Len(ps)
           of == CHOOSE r : Is(r, N)
<1>2. N \in Nat
  BY LenProperties
<1>3. Is(of, N) /\ Records(ps, g) = of[N]
  <2>1. \E r : Is(r, N)
    BY <1>1, <1>2, Zenon
  <2>2. Records(ps, g) = of[N]
    BY DEF Records
  <2> HIDE DEF Is
  <2> QED
    BY <2>1, <2>2
<1>4. \A k \in 0 .. N : of[k] = IF k = 0 THEN <<>> ELSE Step(k, of[k - 1])
  <2> HIDE DEF Step, of
  <2> QED
    BY <1>2, <1>3
<1> DEFINE Good == {n \in Nat : n <= N => /\ of[n] \in Seq(H)
                                          /\ (\E i \in 1 .. n : Hit(i)) => of[n] # <<>>}
<1>5. Nat \subseteq Good
  <2> HIDE DEF of
  <2>1. 0 \in Good
    <3> HIDE DEF H, Hit, Step
    <3>1. of[0] = <<>>
      <4> HIDE DEF N
      <4>1. 0 \in 0 .. N
        BY <1>2
      <4> QED
        BY <1>4, <4>1
    <3>2. of[0] \in Seq(H)
      BY <3>1, EmptySeq
    <3>3. ~\E i \in 1 .. 0 : Hit(i)
      OBVIOUS
    <3> QED
      BY <3>2, <3>3
  <2>2. ASSUME NEW n \in Nat, n \in Good PROVE n + 1 \in Good
    <3> SUFFICES ASSUME n + 1 <= N PROVE n + 1 \in Good
      OBVIOUS
    <3>1. of[n] \in Seq(H) /\ ((\E i \in 1 .. n : Hit(i)) => of[n] # <<>>)
      BY <1>2, <2>2
    <3>2. of[n + 1] = Step(n + 1, of[n])
      BY <1>2, <1>4
    <3>3. CASE Hit(n + 1)
      <4>1. ps[n + 1].pid \in H
        BY <1>2, <3>3, LenProperties
      <4>2. of[n + 1] = <<ps[n + 1].pid>> \o of[n]
        BY <3>2, <3>3
      <4> HIDE DEF H
      <4>3. of[n + 1] \in Seq(H) /\ of[n + 1] # <<>>
        BY <4>1, <4>2, <3>1, ConcatProperties
      <4> QED
        BY <4>3
    <3>4. CASE ~Hit(n + 1)
      <4>1. of[n + 1] = of[n]
        BY <3>2, <3>4
      <4>2. \A i \in 1 .. n + 1 : Hit(i) => i \in 1 .. n
        BY <3>4
      <4> HIDE DEF Hit, H
      <4> QED
        BY <3>1, <4>1, <4>2
    <3> QED
      BY <3>3, <3>4
  <2> HIDE DEF Good
  <2> QED
    BY <2>1, <2>2, NatSetInduction
<1>6. Records(ps, g) \in Seq(H) /\ ((\E i \in 1 .. N : Hit(i)) => Records(ps, g) # <<>>)
  <2> HIDE DEF of, H, Hit
  <2>1. N \in Good /\ N <= N
    BY <1>2, <1>5
  <2> QED
    BY <1>3, <2>1
<1>7. DOMAIN ps = 1 .. N /\ H \subseteq Clients
  <2>1. DOMAIN ps = 1 .. N /\ \A i \in DOMAIN ps : ps[i] \in Entries
    BY LenProperties, ElementOfSeq
  <2> QED
    BY <2>1 DEF Entries
<1> HIDE DEF of, H
<1>8. Records(ps, g) \in Seq(Clients) /\ \A k \in DOMAIN Records(ps, g) : Records(ps, g)[k] \in H
  BY <1>6, <1>7, ElementOfSeq, LenProperties
<1> QED
  BY <1>6, <1>7, <1>8 DEF H

\* A new entry at the end of the list.
LEMMA AppendFacts ==
    ASSUME NEW ps \in Seq(Entries), Distinct(ps), NEW e \in Entries, ~Listed(ps, e.pid),
           e.root => \A i \in DOMAIN ps : ~ps[i].root
    PROVE  /\ Append(ps, e) \in Seq(Entries) /\ Distinct(Append(ps, e)) /\ Append(ps, e) # <<>>
           /\ \A q : Listed(Append(ps, e), q) <=> Listed(ps, q) \/ q = e.pid
           /\ \A i \in DOMAIN Append(ps, e) :
                Append(ps, e)[i] = e \/ \E j \in DOMAIN ps : Append(ps, e)[i] = ps[j]
<1> DEFINE a == Append(ps, e)
           n == Len(ps)
<1>1. /\ n \in Nat /\ DOMAIN ps = 1 .. n /\ a \in Seq(Entries) /\ a # <<>> /\ DOMAIN a = 1 .. n + 1
      /\ \A i \in 1 .. n : a[i] = ps[i]
      /\ a[n + 1] = e
  BY AppendProperties, LenProperties
<1> HIDE DEF a, n
<1>2. \A i \in DOMAIN a : (i \in DOMAIN ps /\ a[i] = ps[i]) \/ (i = n + 1 /\ a[i] = e)
  BY <1>1
<1>3. \A i \in DOMAIN ps : i \in DOMAIN a /\ a[i] = ps[i] /\ ps[i].pid # e.pid
  BY <1>1 DEF Listed
<1>4. Distinct(a)
  BY <1>2, <1>3 DEF Distinct
<1>5. \A q : Listed(a, q) <=> Listed(ps, q) \/ q = e.pid
  BY <1>1, <1>2, <1>3 DEF Listed
<1> QED
  BY <1>1, <1>2, <1>4, <1>5 DEF a

\* FreeProcessData removes the entry of the process and no other.
LEMMA WithoutFacts ==
    ASSUME NEW ps \in Seq(Entries), Distinct(ps), NEW p
    PROVE  /\ Without(ps, p) \in Seq(Entries) /\ Distinct(Without(ps, p))
           /\ \A q : Listed(Without(ps, p), q) <=> Listed(ps, q) /\ q # p
           /\ \A i \in DOMAIN Without(ps, p) : \E j \in DOMAIN ps : Without(ps, p)[i] = ps[j]
<1>1. CASE ~Listed(ps, p)
  BY <1>1 DEF Without
<1>2. CASE Listed(ps, p)
  <2> DEFINE n == Len(ps)
             k == CHOOSE i \in DOMAIN ps : ps[i].pid = p /\ \A j \in 1 .. i - 1 : ps[j].pid # p
             w == [i \in 1 .. n - 1 |-> IF i < k THEN ps[i] ELSE ps[i + 1]]
             old(i) == IF i < k THEN i ELSE i + 1
  <2>1. n \in Nat /\ DOMAIN ps = 1 .. n /\ \A i \in 1 .. n : ps[i] \in Entries
    BY LenProperties, ElementOfSeq
  <2>2. k \in 1 .. n /\ ps[k].pid = p /\ n - 1 \in Nat
    <3>1. PICK i \in 1 .. n : ps[i].pid = p
      BY <1>2, <2>1 DEF Listed
    <3>2. \A j \in 1 .. i - 1 : ps[j].pid # p
      BY <2>1, <3>1 DEF Distinct
    <3>3. k \in 1 .. n /\ ps[k].pid = p
      BY <2>1, <3>1, <3>2
    <3> HIDE DEF k
    <3> QED
      BY <2>1, <3>3
  <2>3. Without(ps, p) = w
    BY <1>2 DEF Without
  <2> HIDE DEF k, n
  <2>4. /\ DOMAIN w = 1 .. n - 1
        /\ \A i \in 1 .. n - 1 : old(i) \in 1 .. n /\ old(i) # k /\ w[i] = ps[old(i)]
        /\ \A i, j \in 1 .. n - 1 : i # j => old(i) # old(j)
        /\ \A j \in 1 .. n : j # k => \E i \in 1 .. n - 1 : old(i) = j
    <3>1. \A j \in 1 .. n : j # k =>
            IF j < k THEN j \in 1 .. n - 1 /\ old(j) = j
            ELSE j - 1 \in 1 .. n - 1 /\ old(j - 1) = j
      BY <2>1, <2>2
    <3>2. \A j \in 1 .. n : j # k => \E i \in 1 .. n - 1 : old(i) = j
      <4> HIDE DEF old
      <4> QED
        BY <3>1
    <3>3. \A i \in 1 .. n - 1 : old(i) \in 1 .. n /\ old(i) # k /\ w[i] = ps[old(i)]
      BY <2>1, <2>2
    <3>4. \A i, j \in 1 .. n - 1 : i # j => old(i) # old(j)
      BY <2>1, <2>2
    <3> QED
      BY <3>2, <3>3, <3>4
  <2> HIDE DEF w, old
  <2>5. w \in Seq(Entries)
    <3>1. w \in [1 .. n - 1 -> Entries]
      BY <2>1, <2>4 DEF w
    <3> QED
      BY <2>2, <3>1, SeqDef
  <2>6. Distinct(w)
    BY <2>1, <2>4 DEF Distinct
  <2>7. \A j \in 1 .. n : j # k => ps[j].pid # p
    BY <2>1, <2>2 DEF Distinct
  <2>8. \A q : Listed(w, q) <=> Listed(ps, q) /\ q # p
    <3>1. ASSUME NEW i \in DOMAIN w PROVE Listed(ps, w[i].pid) /\ w[i].pid # p
      BY <2>1, <2>4, <2>7 DEF Listed
    <3>2. ASSUME NEW j \in DOMAIN ps, ps[j].pid # p PROVE Listed(w, ps[j].pid)
      <4>1. PICK i \in 1 .. n - 1 : old(i) = j
        BY <2>1, <2>2, <2>4, <3>2
      <4> QED
        BY <2>4, <4>1 DEF Listed
    <3> QED
      BY <3>1, <3>2 DEF Listed
  <2> QED
    BY <2>1, <2>3, <2>4, <2>5, <2>6, <2>8
<1> QED
  BY <1>1, <1>2

-----------------------------------------------------------------------------
(* ProcessCtrlEvents and SendCloseEvent *)

Threading ==
    /\ pc \in Places /\ task \in [Threads -> Tasks] /\ TaskOK
    /\ CtrlFlags \subseteq Events /\ LimitingProcessId \in Groups /\ aim \subseteq Groups
    /\ closeLost \in BOOLEAN

\* What the other threads, and the places, of a step of thread t have in common:
\* t goes on at `next`, perhaps after some calls of EndTask.
Moves(t, next) ==
    /\ At(t)' = next /\ pc'[t] \in {next, "endtask"}
    /\ \A u \in Threads \ {t} : At(u)' = At(u) /\ pc'[u] = pc[u] /\ task'[u] = task[u]

\* The last UnlockConsole of a thread sends it on its way, with the processes to
\* tell, if there are any.
LEMMA UnlockFacts ==
    ASSUME Threading, NEW t \in Threads, NEW next \in Returns[t], NEW flags \in SUBSET Events,
           NEW limit \in Groups, NEW to \in SUBSET Groups, NEW ps \in Seq(Entries),
           Unlock(t, next, flags, limit, to, ps)
    PROVE  Threading' /\ Moves(t, next)
<1> DEFINE pids == Records(ps, limit)
           new == [event |-> CHOOSE e \in flags : TRUE, pids |-> pids, aim |-> to,
                   limit |-> limit, then |-> next]
           sent == pc' = [pc EXCEPT ![t] = "endtask"] /\ task' = [task EXCEPT ![t] = new]
           went == pc' = [pc EXCEPT ![t] = next] /\ task' = task
<1>0. next \in {"read", "window", "done"} /\ next # "endtask"
  BY DEF Returns, Threads
<1>1. /\ CtrlFlags' \subseteq Events /\ LimitingProcessId' \in Groups /\ aim' \subseteq Groups
      /\ closeLost' \in BOOLEAN
  <2>1. CtrlFlags' \subseteq Events /\ LimitingProcessId' \in Groups /\ aim' \subseteq Groups
    BY DEF Unlock, Groups
  <2>2. closeLost' \in BOOLEAN
    BY Zenon DEF Unlock
  <2> QED
    BY <2>1, <2>2
<1>2. (flags # {} /\ pids # <<>> /\ sent) \/ went
  BY DEF Unlock
<1>3. pids \in Seq(Clients)
  BY RecordsFacts
<1> HIDE DEF pids
<1>4. CASE flags # {} /\ pids # <<>> /\ sent
  <2>1. (CHOOSE e \in flags : TRUE) \in Events
    BY <1>4
  <2>2. new \in Tasks /\ new.pids # <<>> /\ new.then = next
    BY <1>0, <1>3, <1>4, <2>1 DEF Tasks
  <2> HIDE DEF new
  <2>3. task' \in [Threads -> Tasks] /\ task'[t] = new /\ \A u \in Threads \ {t} : task'[u] = task[u]
    BY <1>4, <2>2 DEF Threading
  <2>4. pc' \in Places /\ pc'[t] = "endtask" /\ \A u \in Threads \ {t} : pc'[u] = pc[u]
    BY <1>4 DEF Threading, Places, Threads
  <2>5. TaskOK'
    BY <2>2, <2>3, <2>4 DEF Threading, TaskOK
  <2> QED
    BY <1>1, <2>2, <2>3, <2>4, <2>5 DEF Threading, Moves, At
<1>5. CASE went
  <2>1. pc' \in Places /\ pc'[t] = next /\ \A u \in Threads \ {t} : pc'[u] = pc[u]
    BY <1>5 DEF Threading, Places, Threads, Returns
  <2>2. TaskOK'
    BY <1>0, <1>5, <2>1 DEF Threading, TaskOK
  <2> QED
    BY <1>0, <1>1, <1>5, <2>1, <2>2 DEF Threading, Moves, At
<1> QED
  BY <1>2, <1>4, <1>5

\* No process is unborn again.
LivesGoOn == \A p \in Clients : life[p] # "unborn" => life'[p] # "unborn"

LEMMA EntryFacts ==
    ASSUME NEW ps \in Seq(Entries)
    PROVE  \A i \in DOMAIN ps : ps[i].pid \in Clients
<1>1. \A i \in DOMAIN ps : ps[i] \in Entries
  BY ElementOfSeq, LenProperties
<1> QED
  BY <1>1 DEF Entries

LEMMA PidsAreClients ==
    ASSUME Threading
    PROVE  \A t \in Threads : \A i \in DOMAIN task[t].pids : task[t].pids[i] \in Clients
<1> SUFFICES ASSUME NEW t \in Threads, NEW i \in DOMAIN task[t].pids
             PROVE  task[t].pids[i] \in Clients
  OBVIOUS
<1>1. task[t].pids \in Seq(Clients)
  BY DEF Threading, Tasks
<1> QED
  BY <1>1, ElementOfSeq, LenProperties

\* The processes to tell are those the events are meant for.
LEMMA UnlockCtrl ==
    ASSUME Threading, NEW t \in Threads, NEW next \in Returns[t], NEW flags \in SUBSET Events,
           NEW limit \in Groups, NEW to \in SUBSET Groups, NEW ps \in Seq(Entries),
           Unlock(t, next, flags, limit, to, ps),
           flags = {} => to = {} /\ limit = All,
           flags # {} => \/ limit = All /\ (All \in to \/ Astray(to))
                         \/ /\ limit # All /\ All \notin to /\ limit \in to
                            /\ Astray(to) \/ \E i \in DOMAIN ps : ps[i].group = limit,
           Own(ps), PidsOK, CtrlStaysInGroup, LivesGoOn, UNCHANGED group
    PROVE  /\ LimitingProcessId' = All
           /\ CtrlFlags' = {} => aim' = {}
           /\ CtrlFlags' # {} => Astray(aim') \/ (All \in aim' /\ ps = <<>>)
           /\ PidsOK' /\ CtrlStaysInGroup'
<1> DEFINE pids == Records(ps, limit)
<1>1. /\ pids \in Seq(Clients)
      /\ \A k \in DOMAIN pids :
           \E i \in DOMAIN ps : pids[k] = ps[i].pid /\ (limit = All \/ ps[i].group = limit)
      /\ (\E i \in DOMAIN ps : limit = All \/ ps[i].group = limit) => pids # <<>>
  BY RecordsFacts
<1>2. ps # <<>> => 1 \in DOMAIN ps
  BY LenProperties, EmptySeq
<1>3. limit = All /\ ps # <<>> => pids # <<>>
  BY <1>1, <1>2
<1>4. limit # All => \A k \in DOMAIN pids : limit \in {pids[k], group[pids[k]]}
  BY <1>1 DEF Own
<1>44. \A k \in DOMAIN pids : pids[k] \in Clients /\ life[pids[k]] # "unborn"
  <2>1. \A k \in DOMAIN pids : pids[k] \in Clients
    BY <1>1, ElementOfSeq, LenProperties
  <2>2. \A k \in DOMAIN pids : life[pids[k]] # "unborn"
    BY <1>1 DEF Own
  <2> QED
    BY <2>1, <2>2
<1> HIDE DEF pids
<1>5. LimitingProcessId' = All /\ (CtrlFlags' = {} => aim' = {})
  BY DEF Unlock
<1>6. CtrlFlags' # {} => Astray(aim') \/ (All \in aim' /\ ps = <<>>)
  <2> SUFFICES ASSUME CtrlFlags' # {} PROVE Astray(aim') \/ (All \in aim' /\ ps = <<>>)
    OBVIOUS
  <2>1. flags # {} /\ pids = <<>> /\ aim' = to
    BY DEF Unlock, pids
  <2>2. Astray(to) \/ (All \in to /\ ps = <<>>)
    BY <1>1, <1>3, <2>1
  <2> QED
    BY <2>1, <2>2
<1>7. CASE pc' = [pc EXCEPT ![t] = next] /\ task' = task
  <2>1. \A u \in Threads : pc'[u] = "endtask" => pc[u] = "endtask"
    BY <1>7, ReturnsFacts DEF Threading, Places, Threads, Returns
  <2>2. PidsOK'
    BY <1>7, <2>1, PidsAreClients DEF PidsOK, LivesGoOn
  <2>3. CtrlStaysInGroup'
    BY <1>7, <2>1 DEF CtrlStaysInGroup, MeantFor
  <2> QED
    BY <1>5, <1>6, <2>2, <2>3
<1>8. CASE /\ flags # {} /\ pc' = [pc EXCEPT ![t] = "endtask"]
           /\ task' = [task EXCEPT ![t] = [event |-> CHOOSE e \in flags : TRUE, pids |-> pids,
                                           aim |-> to, limit |-> limit, then |-> next]]
  <2>1. task'[t].pids = pids /\ task'[t].aim = to /\ task'[t].limit = limit
    BY <1>8 DEF Threading
  <2>2. \A u \in Threads \ {t} : pc'[u] = pc[u] /\ task'[u] = task[u]
    BY <1>8 DEF Threading, Places, Threads
  <2>3. IF All \in to THEN limit = All
        ELSE \/ \E g \in to : group[g] # g
             \/ \A k \in DOMAIN pids : MeantFor(pids[k], to)
    BY <1>4, <1>8 DEF MeantFor, Astray
  <2>4. \A k \in DOMAIN pids : life'[pids[k]] # "unborn"
    BY <1>44 DEF LivesGoOn
  <2>5. PidsOK'
    BY <2>1, <2>2, <2>4, PidsAreClients DEF PidsOK, LivesGoOn
  <2>6. CtrlStaysInGroup'
    BY <2>1, <2>2, <2>3 DEF CtrlStaysInGroup, MeantFor
  <2> QED
    BY <1>5, <1>6, <2>5, <2>6
<1> QED
  BY <1>7, <1>8 DEF Unlock, pids

\* SendCloseEvent exits, or unlocks with the events that are outstanding.
LEMMA SendFacts ==
    ASSUME TypeOK, TaskOK, NEW t \in Threads, NEW next \in Returns[t],
           NEW keys \in SUBSET {"c", "break"}, SendCloseEvent(t, next, keys)
    PROVE  /\ Threading' /\ (Moves(t, next) \/ UNCHANGED <<pc, task>>)
           /\ host' \in {"running", "exited"} /\ closeEventSent' \in BOOLEAN
           /\ vtState' \in {vtState, "StartupFailed"}
<1>1. Threading /\ processes \in Seq(Entries)
  BY DEF TypeOK, Threading
<1>2. /\ host' \in {"running", "exited"} /\ closeEventSent' \in BOOLEAN
      /\ vtState' \in {vtState, "StartupFailed"}
  BY Zenon DEF SendCloseEvent, TypeOK
<1>3. CASE UNCHANGED <<pc, ctrlVars>>
  BY <1>1, <1>2, <1>3 DEF ctrlVars, Threading, TaskOK
<1>4. CASE \E flags \in SUBSET Events, to \in SUBSET Groups :
             Unlock(t, next, flags, LimitingProcessId, to, processes)
  BY <1>1, <1>2, <1>4, UnlockFacts, Zenon DEF Threading
<1>5. /\ CtrlFlags \cup keys \in SUBSET Events /\ CtrlFlags \cup keys \cup {"close"} \in SUBSET Events
      /\ aim \in SUBSET Groups /\ aim \cup {All} \in SUBSET Groups
  BY <1>1 DEF Threading, Events, Groups
<1> QED
  BY <1>3, <1>4, <1>5 DEF SendCloseEvent

-----------------------------------------------------------------------------
(* Steps that leave the list or the size alone *)

\* What the invariant says of the list and of the size depends on the place of
\* the I/O thread only.
LEMMA ListFrame ==
    ASSUME ListOK, UNCHANGED <<processes, life, initialized, conn>>, At("io")' = At("io")
    PROVE  ListOK'
  BY DEF ListOK, Distinct, Listed

\* Starting leaves Initialized for good.
LEMMA SizeFrame ==
    ASSUME SizeOK, UNCHANGED sizeVars, vtState' \in {vtState, "Starting", "StartupFailed", "Running"},
           \/ pc'.io \in {pc.io, "read", "window", "endtask"}
           \/ pc'.io = "da1" /\ vtState = "Initialized" /\ vtState' \in {"Starting", "StartupFailed"}
    PROVE  SizeOK'
  BY DEF SizeOK, sizeVars

\* The steps of the signal and the input thread, and a client's output.
LEMMA ThreadKeeps ==
    ASSUME IInv,
           \/ ClientOutput \/ SignalPipeBroken \/ InputPipeBroken
           \/ \E s \in Sizes : ResizeWindow(s)
           \/ \E chunk \in Chunks : ProcessInput(chunk)
    PROVE  IInv'
<1>0. TypeOK /\ TaskOK /\ ListOK /\ SizeOK /\ Threading /\ processes \in Seq(Entries)
  BY DEF IInv, TypeOK, Threading
<1>1. ASSUME NEW t \in Threads, NEW next \in Returns[t], Moves(t, next) \/ UNCHANGED <<pc, task>>,
             t = "io" => pc.io = "read" /\ next = "read",
             Threading', UNCHANGED <<processes, life, initialized, conn, sizeVars>>,
             vtState' \in {vtState, "StartupFailed"}, host' \in {"running", "exited"},
             closeEventSent' \in BOOLEAN, hOutput' \in BOOLEAN,
             UNCHANGED <<windowUp, termVars, clientVars>>
      PROVE  IInv'
  <2>1. At("io")' = At("io") /\ pc'.io \in {pc.io, "read", "endtask"}
    BY <1>1 DEF Moves, At, Threads
  <2>2. ListOK' /\ SizeOK'
    BY <1>0, <1>1, <2>1, ListFrame, SizeFrame
  <2>3. TypeOK'
    BY <1>0, <1>1 DEF TypeOK, Threading, sizeVars, termVars, clientVars
  <2> QED
    BY <1>1, <2>2, <2>3 DEF IInv, Threading
<1>2. CASE ClientOutput
  <2>1. SendCloseEvent("io", "read", {}) /\ pc.io = "read" /\ hOutput' = FALSE
    BY <1>2 DEF ClientOutput
  <2>2. "io" \in Threads /\ "read" \in Returns["io"]
    BY DEF Threads, Returns
  <2>3. /\ Threading' /\ (Moves("io", "read") \/ UNCHANGED <<pc, task>>)
        /\ host' \in {"running", "exited"} /\ closeEventSent' \in BOOLEAN
        /\ vtState' \in {vtState, "StartupFailed"}
    BY <1>0, <2>1, <2>2, SendFacts
  <2> QED
    BY <1>1, <1>2, <2>1, <2>2, <2>3, Zenon DEF ClientOutput, clientVars
<1>3. CASE SignalPipeBroken
  <2>1. SendCloseEvent("signal", "done", {}) /\ hOutput' = hOutput
    BY <1>3 DEF SignalPipeBroken
  <2>2. "signal" \in Threads /\ "done" \in Returns["signal"]
    BY DEF Threads, Returns
  <2>3. /\ Threading' /\ (Moves("signal", "done") \/ UNCHANGED <<pc, task>>)
        /\ host' \in {"running", "exited"} /\ closeEventSent' \in BOOLEAN
        /\ vtState' \in {vtState, "StartupFailed"}
    BY <1>0, <2>1, <2>2, SendFacts
  <2> QED
    BY <1>0, <1>1, <1>3, <2>1, <2>2, <2>3 DEF SignalPipeBroken, clientVars, TypeOK
<1>4. CASE InputPipeBroken
  <2>1. SendCloseEvent("vtin", "done", {}) /\ hOutput' = hOutput
    BY <1>4 DEF InputPipeBroken
  <2>2. "vtin" \in Threads /\ "done" \in Returns["vtin"]
    BY DEF Threads, Returns
  <2>3. /\ Threading' /\ (Moves("vtin", "done") \/ UNCHANGED <<pc, task>>)
        /\ host' \in {"running", "exited"} /\ closeEventSent' \in BOOLEAN
        /\ vtState' \in {vtState, "StartupFailed"}
    BY <1>0, <2>1, <2>2, SendFacts
  <2> QED
    BY <1>0, <1>1, <1>4, <2>1, <2>2, <2>3 DEF InputPipeBroken, clientVars, TypeOK
<1>5. ASSUME NEW chunk \in Chunks, ProcessInput(chunk) PROVE IInv'
  <2> DEFINE keys == chunk \ {"echo"}
  <2>1. "vtin" \in Threads /\ "read" \in Returns["vtin"] /\ keys \in SUBSET {"c", "break"}
    BY SessionAssumption DEF Threads, Returns
  <2>2. UNCHANGED <<conn, processes, initialized, windowUp, sizeVars, termVars, clientVars>>
    BY <1>5 DEF ProcessInput
  <2>3. CASE hOutput' = FALSE /\ SendCloseEvent("vtin", "read", keys)
    <3>1. /\ Threading' /\ (Moves("vtin", "read") \/ UNCHANGED <<pc, task>>)
          /\ host' \in {"running", "exited"} /\ closeEventSent' \in BOOLEAN
          /\ vtState' \in {vtState, "StartupFailed"}
      BY <1>0, <2>1, <2>3, SendFacts
    <3> QED
      BY <1>1, <2>1, <2>2, <2>3, <3>1, Zenon DEF clientVars
  <2>4. CASE /\ Unlock("vtin", "read", CtrlFlags \cup keys, LimitingProcessId,
                       IF keys = {} THEN aim ELSE aim \cup {All}, processes)
             /\ UNCHANGED <<host, vtVars>>
    <3>1. /\ CtrlFlags \cup keys \in SUBSET Events /\ LimitingProcessId \in Groups
          /\ (IF keys = {} THEN aim ELSE aim \cup {All}) \in SUBSET Groups
      BY <1>0, <2>1, Zenon DEF Threading, Events, Groups
    <3>2. Threading' /\ Moves("vtin", "read")
      BY <1>0, <2>1, <2>4, <3>1, UnlockFacts
    <3> QED
      BY <1>0, <1>1, <2>1, <2>2, <2>4, <3>2 DEF clientVars, vtVars, TypeOK
  <2> QED
    BY <1>5, <2>3, <2>4, Zenon DEF ProcessInput
<1>6. ASSUME NEW s \in Sizes, ResizeWindow(s) PROVE IInv'
  <2>1. "signal" \in Threads /\ "read" \in Returns["signal"]
    BY DEF Threads, Returns
  <2>2. Threading' /\ Moves("signal", "read")
    BY <1>0, <1>6, <2>1, UnlockFacts, Zenon DEF ResizeWindow, UnlockConsole, Threading
  <2>3. At("io")' = At("io") /\ pc'.io = pc.io
    BY <2>2 DEF Moves, Threads
  <2>4. ListOK'
    BY <1>0, <1>6, <2>3, ListFrame DEF ResizeWindow, clientVars
  <2>5. SizeOK'
    BY <1>0, <1>6, <2>3 DEF ResizeWindow, SizeOK, vtVars
  <2>6. {size', earlyResize', wanted'} \subseteq Sizes \cup {Unset}
    BY <1>0, <1>6 DEF ResizeWindow, TypeOK
  <2>7. TypeOK'
    BY <1>0, <1>6, <2>2, <2>6 DEF ResizeWindow, TypeOK, Threading, vtVars, termVars, clientVars
  <2> QED
    BY <2>2, <2>4, <2>5, <2>7 DEF IInv, Threading
<1> QED
  BY <1>2, <1>3, <1>4, <1>5, <1>6

-----------------------------------------------------------------------------
(* Connecting and disconnecting *)

LifeType == [Clients -> {"unborn", "starting", "connected", "exiting", "dead"}]

\* Every client that has a handle to an entry has one in ps.
Covers(ps) == \A q \in Clients : life[q] \in {"connected", "exiting"} => Listed(ps, q)

\* A connection that succeeds, or whose client is dead by now.
LEMMA ConnectedFacts ==
    ASSUME IInv, NEW p \in Clients, life[p] \notin {"connected", "exiting"},
           NEW ps \in Seq(Entries), Distinct(ps), Listed(ps, p), Covers(ps), Connected(p, ps)
    PROVE  /\ Threading' /\ Moves("io", "read") /\ ListOK'
           /\ processes' \in Seq(Entries) /\ life' \in LifeType /\ initialized' = TRUE /\ conn' = Nobody
<1> DEFINE listed == IF life[p] = "starting" THEN ps ELSE Without(ps, p)
<1>1. "io" \in Threads /\ "read" \in Returns["io"] /\ life \in LifeType
  BY DEF IInv, TypeOK, LifeType, Threads, Returns
<1>2. /\ listed \in Seq(Entries) /\ Distinct(listed)
      /\ \A q : Listed(listed, q) <=> Listed(ps, q) /\ (q = p => life[p] = "starting")
  BY WithoutFacts
<1>3. /\ life' = [life EXCEPT ![p] = IF @ = "starting" THEN "connected" ELSE @]
      /\ processes' = listed /\ conn' = Nobody /\ initialized' = TRUE
      /\ Unlock("io", "read", CtrlFlags, LimitingProcessId, aim, listed)
  BY DEF Connected, UnlockConsole
<1> HIDE DEF listed
<1>4. Threading' /\ Moves("io", "read")
  BY <1>1, <1>2, <1>3, UnlockFacts, Zenon DEF IInv, TypeOK, Threading
<1>5. At("io")' = "read"
  BY <1>4 DEF Moves
<1>6. life' \in LifeType
  BY <1>1, <1>3 DEF LifeType
<1>7. \A q \in Clients : life'[q] \in {"connected", "exiting"} => Listed(listed, q)
  <2> SUFFICES ASSUME NEW q \in Clients, life'[q] \in {"connected", "exiting"} PROVE Listed(listed, q)
    OBVIOUS
  <2>1. CASE q = p
    BY <1>1, <1>2, <1>3, <2>1 DEF LifeType
  <2>2. CASE q # p
    <3>1. life'[q] = life[q]
      BY <1>1, <1>3, <2>2 DEF LifeType
    <3> QED
      BY <1>2, <2>2, <3>1 DEF Covers
  <2> QED
    BY <2>1, <2>2
<1>8. ListOK'
  BY <1>2, <1>3, <1>5, <1>7 DEF ListOK
<1> QED
  BY <1>2, <1>3, <1>4, <1>6, <1>8

\* A connection that is refused.
LEMMA RefusedFacts ==
    ASSUME IInv, NEW p \in Clients, NEW ps \in Seq(Entries), Distinct(ps),
           \A q \in Clients \ {p} : life[q] \in {"connected", "exiting"} => Listed(ps, q),
           ~initialized => DOMAIN ps = {}, Refused(p, ps)
    PROVE  /\ Threading' /\ Moves("io", "read") /\ ListOK'
           /\ processes' = ps /\ life' \in LifeType /\ initialized' = initialized /\ conn' = Nobody
<1>1. "io" \in Threads /\ "read" \in Returns["io"] /\ life \in LifeType
  BY DEF IInv, TypeOK, LifeType, Threads, Returns
<1>2. /\ life' = [life EXCEPT ![p] = "dead"] /\ processes' = ps /\ conn' = Nobody
      /\ initialized' = initialized
      /\ Unlock("io", "read", CtrlFlags, LimitingProcessId, aim, ps)
  BY DEF Refused, UnlockConsole
<1>3. Threading' /\ Moves("io", "read")
  BY <1>1, <1>2, UnlockFacts, Zenon DEF IInv, TypeOK, Threading
<1>4. At("io")' = "read"
  BY <1>3 DEF Moves
<1>5. life' \in LifeType /\ life'[p] = "dead" /\ \A q \in Clients \ {p} : life'[q] = life[q]
  BY <1>1, <1>2 DEF LifeType
<1>6. \A q \in Clients : life'[q] \in {"connected", "exiting"} => Listed(ps, q) /\ initialized
  BY <1>5 DEF IInv, ListOK
<1>7. ListOK'
  BY <1>2, <1>4, <1>6 DEF ListOK
<1> QED
  BY <1>2, <1>3, <1>5, <1>7

\* The variables that a step of the connection protocol leaves alone.
ConnectionFrame == UNCHANGED <<host, windowUp, termVars, group, parent, told>>

\* The first client of the console: the start of VtIo, or nothing to start.
LEMMA StartKeeps ==
    ASSUME IInv, NEW p \in Clients, life[p] \notin {"connected", "exiting"}, ~initialized,
           NEW ps \in Seq(Entries), Distinct(ps), Listed(ps, p),
           \A i \in DOMAIN ps : ps[i].pid = p,
           StartIfNeeded(p, ps), ConnectionFrame, UNCHANGED sizeVars
    PROVE  IInv'
<1>0. TypeOK /\ TaskOK /\ ListOK /\ SizeOK
  BY DEF IInv
<1>1. \A q \in Clients : life[q] \notin {"connected", "exiting"}
  BY <1>0 DEF ListOK
<1>2. CASE vtState = "Initialized"
  <2>1. /\ vtState' \in {"StartupFailed", "Starting"} /\ hOutput' \in BOOLEAN
        /\ pc' = [pc EXCEPT !.io = "da1", !.vtin = "read"]
        /\ conn' = p /\ processes' = ps
        /\ UNCHANGED <<initialized, ctrlVars, life, closeEventSent>>
    BY <1>0, <1>2 DEF StartIfNeeded, TypeOK
  <2>2. /\ pc' \in Places /\ pc'.io = "da1" /\ pc'.vtin = "read" /\ pc'.signal = pc.signal
    BY <1>0, <2>1, Zenon DEF TypeOK, Places
  <2>3. TaskOK'
    BY <1>0, <2>1, <2>2, Zenon DEF TaskOK, Threads, ctrlVars
  <2>4. TypeOK'
    BY <1>0, <2>1, <2>2 DEF TypeOK, ctrlVars, ConnectionFrame, sizeVars, termVars
  <2>5. At("io")' = "da1"
    BY <2>2 DEF At
  <2>6. ListOK'
    BY <1>1, <2>1, <2>5 DEF ListOK
  <2>7. SizeOK'
    BY <1>0, <1>2, <2>1, SizeFrame
  <2> QED
    BY <2>3, <2>4, <2>6, <2>7 DEF IInv
<1>3. CASE vtState # "Initialized"
  <2>1. Connected(p, ps) /\ UNCHANGED vtVars
    BY <1>3 DEF StartIfNeeded, vtVars
  <2>2. /\ Threading' /\ Moves("io", "read") /\ ListOK'
        /\ processes' \in Seq(Entries) /\ life' \in LifeType /\ initialized' = TRUE /\ conn' = Nobody
    BY <1>1, <2>1, ConnectedFacts, Zenon DEF Covers
  <2>3. TypeOK'
    BY <1>0, <2>1, <2>2 DEF TypeOK, Threading, LifeType, vtVars, ConnectionFrame, sizeVars, termVars
  <2>4. SizeOK'
    BY <1>0, <2>1, <2>2, SizeFrame DEF Moves, vtVars
  <2> QED
    BY <2>2, <2>3, <2>4 DEF IInv, Threading
<1> QED
  BY <1>2, <1>3

\* ConsoleHandleConnectionRequest.
LEMMA ConnectKeeps ==
    ASSUME IInv, NEW p \in Clients, Connect(p)
    PROVE  IInv'
<1> DEFINE e == [pid |-> p, group |-> group[p], root |-> ~initialized]
           ps == Append(processes, e)
<1>0. TypeOK /\ TaskOK /\ ListOK /\ SizeOK /\ processes \in Seq(Entries) /\ pc.io = "read"
  BY Zenon DEF IInv, TypeOK, Connect
<1>1. conn = Nobody /\ Nobody \notin Clients /\ life[p] = "starting"
  BY <1>0, SessionAssumption DEF ListOK, At, Connect
<1>2. ~initialized => DOMAIN processes = {}
  <2>1. \A i \in DOMAIN processes : processes[i].pid \in Clients
    <3>1. \A i \in DOMAIN processes : processes[i] \in Entries
      BY <1>0, ElementOfSeq, LenProperties
    <3> QED
      BY <3>1 DEF Entries
  <2> QED
    BY <1>0, <1>1, <2>1 DEF ListOK
<1>3. ConnectionFrame /\ UNCHANGED sizeVars
  BY DEF Connect, ConnectionFrame
<1>4. Covers(processes)
  BY <1>0 DEF ListOK, Covers
<1>5. ASSUME Threading', Moves("io", "read"), ListOK', processes' \in Seq(Entries), life' \in LifeType,
             initialized' \in BOOLEAN, conn' = Nobody, UNCHANGED vtVars
      PROVE  IInv'
  <2>1. TypeOK'
    BY <1>0, <1>3, <1>5 DEF TypeOK, Threading, LifeType, vtVars, ConnectionFrame, sizeVars, termVars
  <2>2. SizeOK'
    BY <1>0, <1>3, <1>5, SizeFrame DEF Moves, vtVars
  <2> QED
    BY <1>5, <2>1, <2>2 DEF IInv, Threading
<1>6. CASE Listed(processes, p)
  <2>1. Refused(p, processes) /\ UNCHANGED vtVars
    BY <1>6 DEF Connect
  <2>2. /\ Threading' /\ Moves("io", "read") /\ ListOK'
        /\ processes' = processes /\ life' \in LifeType /\ initialized' = initialized /\ conn' = Nobody
    BY <1>0, <1>2, <1>4, <2>1, RefusedFacts DEF ListOK, Covers
  <2> QED
    BY <1>0, <1>5, <2>1, <2>2 DEF TypeOK
<1>7. CASE ~Listed(processes, p)
  <2>1. e \in Entries /\ e.pid = p /\ (e.root => ~initialized)
    BY <1>0, Zenon DEF Entries, TypeOK
  <2> HIDE DEF e
  <2>2. /\ ps \in Seq(Entries) /\ Distinct(ps) /\ ps # <<>>
        /\ \A q : Listed(ps, q) <=> Listed(processes, q) \/ q = p
        /\ \A i \in DOMAIN ps : ps[i] = e \/ \E j \in DOMAIN processes : ps[i] = processes[j]
    BY <1>0, <1>2, <1>7, <2>1, AppendFacts DEF ListOK
  <2> HIDE DEF ps
  <2>3. Covers(ps) /\ Listed(ps, p) /\ (~initialized => \A i \in DOMAIN ps : ps[i].pid = p)
    BY <1>2, <1>4, <2>1, <2>2 DEF Covers
  <2>4. CASE initialized
    <3>1. Connected(p, ps) /\ UNCHANGED vtVars
      BY <1>7, <2>4 DEF Connect, e, ps
    <3>2. /\ Threading' /\ Moves("io", "read") /\ ListOK' /\ processes' \in Seq(Entries)
          /\ life' \in LifeType /\ initialized' = TRUE /\ conn' = Nobody
      BY <1>1, <2>2, <2>3, <3>1, ConnectedFacts, Zenon
    <3> QED
      BY <1>5, <3>1, <3>2
  <2>5. CASE ~initialized /\ ~Visible
    <3>1. StartIfNeeded(p, ps)
      BY <1>7, <2>5 DEF Connect, e, ps
    <3> QED
      BY <1>1, <1>3, <2>2, <2>3, <2>5, <3>1, StartKeeps
  <2>6. CASE ~initialized /\ Visible
    <3>1. /\ conn' = p /\ processes' = ps /\ UNCHANGED <<vtVars, initialized, life>>
          /\ Unlock("io", "window", CtrlFlags, LimitingProcessId, aim, ps)
      BY <1>7, <2>6 DEF Connect, UnlockConsole, e, ps
    <3>2. "io" \in Threads /\ "window" \in Returns["io"]
      BY DEF Threads, Returns
    <3>3. Threading' /\ Moves("io", "window")
      BY <1>0, <2>2, <3>1, <3>2, UnlockFacts, Zenon DEF TypeOK, Threading
    <3>4. At("io")' = "window"
      BY <3>3 DEF Moves
    <3>5. ListOK'
      BY <1>0, <2>2, <2>3, <2>6, <3>1, <3>4 DEF ListOK
    <3>6. TypeOK'
      BY <1>0, <1>3, <2>2, <3>1, <3>3 DEF TypeOK, Threading, vtVars, ConnectionFrame, sizeVars, termVars
    <3>7. SizeOK'
      BY <1>0, <1>3, <3>1, <3>3, SizeFrame DEF Moves, vtVars
    <3> QED
      BY <3>3, <3>5, <3>6, <3>7 DEF IInv, Threading
  <2> QED
    BY <2>4, <2>5, <2>6
<1> QED
  BY <1>6, <1>7

\* The I/O thread goes on when the window is there, and when DA1 was answered.
LEMMA WaitKeeps ==
    ASSUME IInv, WindowWaited \/ Started
    PROVE  IInv'
<1>0. TypeOK /\ TaskOK /\ ListOK /\ SizeOK /\ processes \in Seq(Entries) /\ pc.io \in {"window", "da1"}
  BY Zenon DEF IInv, TypeOK, WindowWaited, Started
<1>1. /\ conn \in Clients /\ Listed(processes, conn) /\ ~initialized /\ Distinct(processes)
      /\ \A i \in DOMAIN processes : processes[i].pid = conn
      /\ \A q \in Clients : life[q] \notin {"connected", "exiting"}
  BY <1>0 DEF ListOK, At
<1>2. CASE WindowWaited
  BY <1>0, <1>1, <1>2, StartKeeps, Zenon DEF WindowWaited, ConnectionFrame
<1>3. CASE Started
  <2>1. /\ connected' = TRUE /\ (size' = IF earlyResize # Unset THEN earlyResize ELSE size)
        /\ UNCHANGED <<host, closeEventSent, hOutput, windowUp, wanted, termVars, group, parent, told>>
        /\ earlyResize' = Unset
        /\ vtState' \in {vtState, "Running"} /\ ~connected
    BY <1>0, <1>3 DEF Started, SizeOK
  <2>2. /\ Threading' /\ Moves("io", "read") /\ ListOK' /\ processes' \in Seq(Entries)
        /\ life' \in LifeType /\ initialized' \in BOOLEAN /\ conn' = Nobody
    <3>1. CASE Connected(conn, processes)
      BY <1>0, <1>1, <3>1, ConnectedFacts, Zenon DEF Covers
    <3>2. CASE Refused(conn, Without(processes, conn))
      <4>1. /\ Without(processes, conn) \in Seq(Entries) /\ Distinct(Without(processes, conn))
            /\ DOMAIN Without(processes, conn) = {}
        <5>1. /\ Without(processes, conn) \in Seq(Entries) /\ Distinct(Without(processes, conn))
              /\ ~Listed(Without(processes, conn), conn)
              /\ \A i \in DOMAIN Without(processes, conn) :
                   \E j \in DOMAIN processes : Without(processes, conn)[i] = processes[j]
          BY <1>0, <1>1, WithoutFacts
        <5> QED
          BY <1>1, <5>1 DEF Listed
      <4> QED
        BY <1>0, <1>1, <3>2, <4>1, RefusedFacts, Zenon DEF TypeOK
    <3> QED
      BY <1>3, <3>1, <3>2 DEF Started
  <2>3. size' = wanted /\ size' \in Sizes \cup {Unset}
    BY <1>0, <2>1 DEF SizeOK, TypeOK
  <2>4. pc'.io \notin {"init", "da1"}
    BY <2>2 DEF Moves
  <2>5. vtState' \notin {"Uninitialized", "Initialized"}
    BY <1>0, <1>3, <2>1 DEF Started, SizeOK
  <2>6. SizeOK'
    BY <2>1, <2>3, <2>4, <2>5 DEF SizeOK
  <2>7. TypeOK'
    BY <1>0, <2>1, <2>2, <2>3 DEF TypeOK, Threading, LifeType, termVars
  <2> QED
    BY <2>2, <2>6, <2>7 DEF IInv, Threading
<1> QED
  BY <1>2, <1>3

\* A client disconnects, or one sends an event to a group.
LEMMA ClientKeeps ==
    ASSUME IInv, NEW p \in Clients,
           \/ Disconnect(p)
           \/ \E e \in Generated, g \in Groups : GenerateConsoleCtrlEvent(p, e, g)
    PROVE  IInv'
<1>0. /\ TypeOK /\ TaskOK /\ ListOK /\ SizeOK /\ Threading /\ processes \in Seq(Entries)
      /\ life \in LifeType /\ pc.io = "read" /\ At("io") = "read"
      /\ "io" \in Threads /\ "read" \in Returns["io"]
  BY Zenon DEF IInv, TypeOK, Threading, LifeType, Disconnect, GenerateConsoleCtrlEvent, At, Threads, Returns
<1>1. initialized
  BY <1>0, Zenon DEF ListOK, Disconnect, GenerateConsoleCtrlEvent
<1>2. ASSUME Threading', Moves("io", "read"), processes' \in Seq(Entries), Distinct(processes'),
             life' \in LifeType,
             \A q \in Clients : life'[q] \in {"connected", "exiting"} => Listed(processes', q),
             UNCHANGED <<host, conn, vtVars, initialized, windowUp, sizeVars, termVars, group, parent, told>>
      PROVE  IInv'
  <2>1. At("io")' = "read"
    BY <1>2, Zenon DEF Moves
  <2>2. ListOK'
    BY <1>0, <1>1, <1>2, <2>1 DEF ListOK
  <2>3. SizeOK'
    BY <1>0, <1>2, SizeFrame DEF Moves, vtVars
  <2>4. TypeOK'
    BY <1>0, <1>2 DEF TypeOK, Threading, LifeType, vtVars, sizeVars, termVars
  <2> QED
    BY <1>2, <2>2, <2>3, <2>4 DEF IInv, Threading
<1>3. CASE Disconnect(p)
  <2> DEFINE ps == Without(processes, p)
  <2>1. /\ ps \in Seq(Entries) /\ Distinct(ps)
        /\ \A q : Listed(ps, q) <=> Listed(processes, q) /\ q # p
    BY <1>0, WithoutFacts DEF ListOK
  <2>2. /\ life' = [life EXCEPT ![p] = "dead"] /\ processes' = ps
        /\ Unlock("io", "read", CtrlFlags, LimitingProcessId, aim, ps)
        /\ UNCHANGED <<host, conn, vtVars, initialized, windowUp, sizeVars, termVars, group, parent, told>>
    BY <1>3 DEF Disconnect, UnlockConsole
  <2> HIDE DEF ps
  <2>3. life' \in LifeType /\ life'[p] = "dead" /\ \A q \in Clients \ {p} : life'[q] = life[q]
    BY <1>0, <2>2, Zenon DEF LifeType
  <2>4. \A q \in Clients : life'[q] \in {"connected", "exiting"} => Listed(ps, q)
    BY <1>0, <2>1, <2>3 DEF ListOK
  <2>5. Threading' /\ Moves("io", "read")
    BY <1>0, <2>1, <2>2, UnlockFacts, Zenon DEF Threading
  <2> QED
    BY <1>2, <2>1, <2>2, <2>3, <2>4, <2>5
<1>4. ASSUME NEW e \in Generated, NEW g \in Groups, GenerateConsoleCtrlEvent(p, e, g)
      PROVE  IInv'
  <2> DEFINE known == g = All \/ \E i \in DOMAIN processes : processes[i].group = g
             child == g # All /\ life[g] \in {"starting", "connected"} /\ Listed(processes, parent[g])
             new == [pid |-> g, group |-> g, root |-> FALSE]
             ps == IF known \/ ~child \/ Listed(processes, g) THEN processes ELSE Append(processes, new)
  <2>1. /\ processes' = ps /\ life' = life
        /\ UNCHANGED <<host, conn, vtVars, initialized, windowUp, sizeVars, termVars, group, parent, told>>
        /\ IF known \/ child THEN Unlock("io", "read", CtrlFlags \cup {e}, g, aim \cup {g}, ps)
           ELSE Unlock("io", "read", CtrlFlags, LimitingProcessId, aim, ps)
    BY <1>4, Zenon DEF GenerateConsoleCtrlEvent, UnlockConsole, clientVars
  <2>2. ps \in Seq(Entries) /\ Distinct(ps) /\ \A q : Listed(processes, q) => Listed(ps, q)
    <3>1. CASE ps = processes
      BY <1>0, <3>1, Zenon DEF ListOK
    <3>2. CASE g \in Clients /\ ~Listed(processes, g) /\ ps = Append(processes, new)
      <4>1. new \in Entries /\ new.pid = g /\ ~new.root
        BY <3>2, Zenon DEF Entries
      <4> HIDE DEF new, ps
      <4> QED
        BY <1>0, <3>2, <4>1, AppendFacts, Zenon DEF ListOK
    <3>3. g = All \/ g \in Clients
      BY DEF Groups
    <3> QED
      BY <3>1, <3>2, <3>3, Zenon
  <2> HIDE DEF ps, known, child
  <2>3. /\ CtrlFlags \cup {e} \in SUBSET Events /\ aim \cup {g} \in SUBSET Groups
        /\ CtrlFlags \in SUBSET Events /\ aim \in SUBSET Groups /\ LimitingProcessId \in Groups
    BY <1>0, SessionAssumption DEF Threading, Events
  <2>4. Threading' /\ Moves("io", "read")
    BY <1>0, <2>1, <2>2, <2>3, UnlockFacts, Zenon
  <2>5. \A q \in Clients : life'[q] \in {"connected", "exiting"} => Listed(ps, q)
    BY <1>0, <2>1, <2>2, Zenon DEF ListOK
  <2> QED
    BY <1>0, <1>2, <2>1, <2>2, <2>4, <2>5
<1> QED
  BY <1>3, <1>4

\* A call of EndTask.
LEMMA EndTaskKeeps ==
    ASSUME IInv, NEW t \in Threads, EndTask(t)
    PROVE  IInv'
<1> DEFINE rest == Tail(task[t].pids)
<1>0. /\ TypeOK /\ TaskOK /\ ListOK /\ SizeOK /\ task[t] \in Tasks /\ pc[t] = "endtask"
      /\ task[t].pids \in Seq(Clients) /\ task[t].pids # <<>> /\ task[t].then \in Returns[t]
  BY DEF IInv, TypeOK, TaskOK, Tasks, EndTask
<1>1. rest \in Seq(Clients) /\ Head(task[t].pids) \in Clients
  BY <1>0, HeadTailProperties, Zenon
<1> HIDE DEF rest
<1>2. told' \subseteq Clients
  BY <1>0, <1>1 DEF EndTask, TypeOK
<1>3. CASE rest = <<>>
  <2>1. task' = [task EXCEPT ![t] = NoTask] /\ pc' = [pc EXCEPT ![t] = task[t].then]
    BY <1>3 DEF EndTask, rest
  <2>2. task' \in [Threads -> Tasks] /\ task'[t] = NoTask /\ \A u \in Threads \ {t} : task'[u] = task[u]
    BY <1>0, <2>1, EmptySeq, Zenon DEF TypeOK, NoTask, Tasks, Groups
  <2>3. pc' \in Places /\ pc'[t] = task[t].then /\ \A u \in Threads \ {t} : pc'[u] = pc[u]
    <3>1. pc \in Places /\ DOMAIN pc = Threads
      BY <1>0 DEF TypeOK, Places, Threads
    <3>2. pc'[t] = task[t].then /\ \A u \in Threads \ {t} : pc'[u] = pc[u]
      BY <2>1, <3>1
    <3>3. CASE t = "io"
      BY <1>0, <2>1, <3>1, <3>3, ReturnsFacts DEF Places
    <3>4. CASE t = "signal"
      BY <1>0, <2>1, <3>1, <3>4, ReturnsFacts DEF Places
    <3>5. CASE t = "vtin"
      BY <1>0, <2>1, <3>1, <3>5, ReturnsFacts DEF Places
    <3> QED
      BY <3>2, <3>3, <3>4, <3>5 DEF Threads
  <2>4. task[t].then \notin {"endtask", "da1"}
    BY <1>0, ReturnsFacts
  <2>5. TaskOK' /\ (\A u \in Threads : At(u)' = At(u)) /\ pc'.io \in {pc.io, "read", "window"}
    BY <1>0, <2>2, <2>3, <2>4 DEF TaskOK, At, Threads, Returns
  <2> QED
    <3>1. ListOK' /\ SizeOK'
      BY <1>0, <2>5, ListFrame, SizeFrame DEF EndTask, vtVars, Threads
    <3>2. TypeOK'
      BY <1>0, <1>2, <2>2, <2>3 DEF TypeOK, EndTask, vtVars, sizeVars, termVars
    <3> QED
      BY <2>5, <3>1, <3>2 DEF IInv
<1>4. CASE rest # <<>>
  <2>1. task' = [task EXCEPT ![t] = [task[t] EXCEPT !.pids = rest]] /\ pc' = [pc EXCEPT ![t] = pc[t]]
    BY <1>0, <1>4 DEF EndTask, rest, TypeOK
  <2>2. /\ task' \in [Threads -> Tasks] /\ task'[t].pids = rest /\ task'[t].then = task[t].then
        /\ \A u \in Threads \ {t} : task'[u] = task[u]
    BY <1>0, <1>1, <2>1, Zenon DEF TypeOK, Tasks
  <2>3. pc' = pc
    BY <1>0, <2>1 DEF TypeOK, Places, Threads
  <2>4. TaskOK' /\ \A u \in Threads : At(u)' = At(u)
    BY <1>0, <1>4, <2>2, <2>3 DEF TaskOK, At
  <2> QED
    <3>1. ListOK' /\ SizeOK'
      BY <1>0, <2>3, <2>4, ListFrame, SizeFrame DEF EndTask, vtVars, Threads
    <3>2. TypeOK'
      BY <1>0, <1>2, <2>2, <2>3, Zenon DEF TypeOK, EndTask, vtVars, sizeVars, termVars
    <3> QED
      BY <2>4, <3>1, <3>2 DEF IInv
<1> QED
  BY <1>3, <1>4

\* The rest: the start of the host, the window thread, the terminal and the
\* lives of the clients.
LEMMA OtherKeeps ==
    ASSUME IInv,
           \/ Initialize \/ WindowReady \/ NotConnected \/ Terminal \/ Exited
           \/ \E q \in Clients, p \in Clients \cup {Nobody} : Launch(q, p)
           \/ \E p \in Clients : ClientExits(p)
    PROVE  IInv'
<1>0. TypeOK /\ TaskOK /\ ListOK /\ SizeOK
  BY DEF IInv
<1>1. CASE Initialize
  <2>1. /\ pc \in Places /\ pc' \in Places /\ pc.io = "init" /\ pc'.io = "read"
        /\ pc'.signal = pc.signal /\ pc'.vtin = pc.vtin
    BY <1>0, <1>1 DEF Initialize, TypeOK, Places
  <2>2. TaskOK' /\ At("io") = "init" /\ At("io")' = "read"
    BY <1>0, <1>1, <2>1 DEF Initialize, ctrlVars, TaskOK, Threads, At
  <2>3. ListOK'
    BY <1>0, <1>1, <2>2 DEF Initialize, ListOK, clientVars
  <2>4. ~connected
    BY <1>0, <1>1, <2>1 DEF Initialize, SizeOK
  <2>5. SizeOK'
    BY <1>0, <1>1, <2>1, <2>4 DEF Initialize, SizeOK, sizeVars
  <2>6. TypeOK'
    BY <1>0, <1>1, <2>1 DEF Initialize, TypeOK, ctrlVars, sizeVars, termVars, clientVars
  <2> QED
    BY <2>2, <2>3, <2>5, <2>6 DEF IInv
<1>2. ASSUME UNCHANGED <<pc, conn, vtVars, processes, initialized, ctrlVars, sizeVars, told>>,
             host' \in {"running", "exited"}, windowUp' \in BOOLEAN, reference' \in BOOLEAN,
             pipes' \subseteq pipes, life' \in LifeType, group' \in [Clients -> Clients],
             parent' \in [Clients -> Clients \cup {Nobody}],
             \A q \in Clients : life'[q] \in {"connected", "exiting"} => life[q] \in {"connected", "exiting"}
      PROVE  IInv'
  <2>1. TaskOK' /\ At("io")' = At("io")
    BY <1>0, <1>2 DEF TaskOK, At, ctrlVars
  <2>2. ListOK'
    BY <1>0, <1>2, <2>1 DEF ListOK
  <2>3. SizeOK'
    BY <1>0, <1>2 DEF SizeOK, vtVars, sizeVars
  <2>4. TypeOK'
    BY <1>0, <1>2, Zenon DEF TypeOK, vtVars, ctrlVars, sizeVars, LifeType
  <2> QED
    BY <2>1, <2>2, <2>3, <2>4 DEF IInv
<1>3. /\ host \in {"running", "exited"} /\ windowUp \in BOOLEAN /\ reference \in BOOLEAN
      /\ life \in LifeType /\ group \in [Clients -> Clients] /\ parent \in [Clients -> Clients \cup {Nobody}]
  BY <1>0 DEF TypeOK, LifeType
<1>4. CASE WindowReady \/ NotConnected \/ Exited
  BY <1>2, <1>3, <1>4, Zenon DEF WindowReady, NotConnected, Rundown, Exited, vars, termVars, clientVars
<1>5. CASE Terminal
  BY <1>2, <1>3, <1>5, Zenon DEF Terminal, ClosePseudoConsole, ReleasePseudoConsole, ClosePipe, hostVars, clientVars
<1>6. ASSUME NEW q \in Clients, NEW p \in Clients \cup {Nobody}, Launch(q, p) PROVE IInv'
  <2>1. life' \in LifeType /\ parent' \in [Clients -> Clients \cup {Nobody}]
    BY <1>3, <1>6 DEF Launch, LifeType
  <2>2. group' \in [Clients -> Clients]
    BY <1>3, <1>6 DEF Launch
  <2>3. \A r \in Clients : life'[r] \in {"connected", "exiting"} => life[r] \in {"connected", "exiting"}
    BY <1>3, <1>6 DEF Launch, LifeType
  <2> QED
    BY <1>2, <1>3, <1>6, <2>1, <2>2, <2>3 DEF Launch, hostVars, termVars
<1>7. ASSUME NEW p \in Clients, ClientExits(p) PROVE IInv'
  <2>1. life' \in LifeType
    BY <1>3, <1>7 DEF ClientExits, LifeType
  <2>2. \A r \in Clients : life'[r] \in {"connected", "exiting"} => life[r] \in {"connected", "exiting"}
    BY <1>3, <1>7 DEF ClientExits, LifeType
  <2> QED
    BY <1>2, <1>3, <1>7, <2>1, <2>2 DEF ClientExits, hostVars, termVars
<1> QED
  BY <1>1, <1>4, <1>5, <1>6, <1>7

\* The host before its first client.
LEMMA InitIInv == Init => IInv
<1> SUFFICES ASSUME Init PROVE IInv
  OBVIOUS
<1>1. pc \in Places /\ pc.io = "init" /\ \A t \in Threads : pc[t] # "endtask"
  BY DEF Init, Places, Threads
<1>2. processes = <<>> /\ processes \in Seq(Entries) /\ DOMAIN processes = {}
  BY EmptySeq DEF Init
<1>3. task \in [Threads -> Tasks]
  BY EmptySeq DEF Init, NoTask, Tasks, Groups
<1>4. TypeOK
  BY <1>1, <1>2, <1>3, Zenon DEF Init, TypeOK, Groups
<1>5. TaskOK /\ At("io") = "init"
  BY <1>1 DEF TaskOK, At
<1>6. ListOK
  BY <1>2, <1>5 DEF Init, ListOK, Distinct
<1>7. SizeOK
  BY <1>1 DEF Init, SizeOK
<1> QED
  BY <1>4, <1>5, <1>6, <1>7 DEF IInv

\* Every step preserves the invariant.
LEMMA NextIInv == IInv /\ [Next]_vars => IInv'
<1> SUFFICES ASSUME IInv, [Next]_vars PROVE IInv'
  OBVIOUS
<1>1. CASE UNCHANGED vars
  BY <1>1 DEF vars, vtVars, ctrlVars, sizeVars, termVars, clientVars, IInv, TypeOK, TaskOK, ListOK,
     SizeOK, At
<1>2. CASE IoStep
  BY <1>2, ConnectKeeps, WaitKeeps, ClientKeeps, OtherKeeps DEF IoStep
<1>3. ASSUME NEW p \in Clients, NEW e \in Generated, NEW g \in Groups,
             GenerateConsoleCtrlEvent(p, e, g)
      PROVE  IInv'
  BY <1>3, ClientKeeps
<1>4. CASE \/ ClientOutput \/ SignalPipeBroken \/ InputPipeBroken
           \/ \E s \in Sizes : ResizeWindow(s)
           \/ \E chunk \in Chunks : ProcessInput(chunk)
  BY <1>4, ThreadKeeps
<1>5. ASSUME NEW t \in Threads, EndTask(t) PROVE IInv'
  BY <1>5, EndTaskKeeps
<1>6. CASE \/ Terminal \/ Exited
           \/ \E q \in Clients, p \in Clients \cup {Nobody} : Launch(q, p)
           \/ \E p \in Clients : ClientExits(p)
  BY <1>6, OtherKeeps
<1> QED
  BY <1>1, <1>2, <1>3, <1>4, <1>5, <1>6 DEF Next, Groups

\* The inductive invariant, whatever the clients and the terminal do.
THEOREM InvariantHolds == Spec => []IInv
  BY InitIInv, NextIInv, PTL DEF Spec

\* One entry per process, one root, and an entry for every client that has a
\* handle to one: for any number of clients, whichever wait their connecting and
\* leaving falls into.
THEOREM ListMatchesClientsHolds == Spec => []ListMatchesClients
<1>1. IInv => ListMatchesClients
  BY DEF IInv, ListOK, Distinct, ListMatchesClients
<1> QED
  BY <1>1, InvariantHolds, PTL

\* The window has the size the terminal sent last, for any set of sizes.
THEOREM SizeIsCurrentHolds == Spec => []SizeIsCurrent
<1>1. IInv => SizeIsCurrent
  BY DEF IInv, SizeOK, SizeIsCurrent
<1> QED
  BY <1>1, InvariantHolds, PTL

-----------------------------------------------------------------------------
(* Ctrl events and process groups *)

LEMMA AppendOwn ==
    ASSUME NEW ps \in Seq(Entries), Own(ps), NEW e \in Entries,
           e.group \in {e.pid, group[e.pid]}, life[e.pid] # "unborn"
    PROVE  /\ Append(ps, e) \in Seq(Entries) /\ Own(Append(ps, e))
           /\ \E i \in DOMAIN Append(ps, e) : Append(ps, e)[i] = e
<1> DEFINE a == Append(ps, e)
           n == Len(ps)
<1>1. /\ n \in Nat /\ DOMAIN ps = 1 .. n /\ a \in Seq(Entries) /\ DOMAIN a = 1 .. n + 1
      /\ a[n + 1] = e /\ \A i \in 1 .. n : a[i] = ps[i]
  BY AppendProperties, LenProperties
<1> HIDE DEF a, n
<1>2. \A i \in DOMAIN a : a[i] = e \/ (i \in DOMAIN ps /\ a[i] = ps[i])
  BY <1>1
<1>3. n + 1 \in DOMAIN a
  BY <1>1
<1>4. Own(a)
  BY <1>2, Zenon DEF Own
<1> QED
  BY <1>1, <1>3, <1>4 DEF a

\* An unlock, with the events for everybody or for a group, keeps the invariant.
LEMMA UnlockKeeps ==
    ASSUME CInv, NEW t \in Threads, NEW next \in Returns[t], NEW flags \in SUBSET Events,
           NEW limit \in Groups, NEW to \in SUBSET Groups, NEW ps \in Seq(Entries),
           Unlock(t, next, flags, limit, to, ps),
           flags = {} => to = {} /\ limit = All,
           flags # {} => \/ limit = All /\ (All \in to \/ Astray(to))
                         \/ /\ limit # All /\ All \notin to /\ limit \in to
                            /\ Astray(to) \/ \E i \in DOMAIN ps : ps[i].group = limit,
           Own(ps), LivesGoOn, processes' = ps, UNCHANGED group
    PROVE  Ctrl'
<1>1. Threading /\ CtrlOK /\ PidsOK /\ CtrlStaysInGroup
  BY DEF CInv, Ctrl, IInv, TypeOK, Threading
<1>2. /\ LimitingProcessId' = All
      /\ CtrlFlags' = {} => aim' = {}
      /\ CtrlFlags' # {} => Astray(aim') \/ (All \in aim' /\ ps = <<>>)
      /\ PidsOK' /\ CtrlStaysInGroup'
  BY <1>1, UnlockCtrl
<1>3. \A p \in Clients : life'[p] = "unborn" => group'[p] = p
  BY <1>1 DEF CtrlOK, LivesGoOn
<1>4. Own(processes)'
  <2>1. \A i \in DOMAIN ps : ps[i].pid \in Clients
    BY EntryFacts
  <2> QED
    BY <2>1, Zenon DEF Own, LivesGoOn
<1>5. Astray(aim') => Astray(aim)'
  BY Zenon DEF Astray
<1> QED
  BY <1>2, <1>3, <1>4, <1>5 DEF Ctrl, CtrlOK

\* An unlock with nothing but the events that are outstanding.
LEMMA ConsoleCtrl ==
    ASSUME CInv, NEW t \in Threads, NEW next \in Returns[t], NEW ps \in Seq(Entries), Own(ps),
           UnlockConsole(t, next, ps), LivesGoOn, processes' = ps, UNCHANGED group
    PROVE  Ctrl'
<1>1. /\ CtrlFlags \in SUBSET Events /\ aim \in SUBSET Groups /\ LimitingProcessId \in Groups
      /\ Unlock(t, next, CtrlFlags, LimitingProcessId, aim, ps)
  BY DEF CInv, IInv, TypeOK, UnlockConsole
<1>2. /\ CtrlFlags = {} => aim = {} /\ LimitingProcessId = All
      /\ CtrlFlags # {} => LimitingProcessId = All /\ (All \in aim \/ Astray(aim))
  BY DEF CInv, Ctrl, CtrlOK
<1> QED
  BY <1>1, <1>2, UnlockKeeps

\* An unlock with an event for everybody.
LEMMA EverybodyCtrl ==
    ASSUME CInv, NEW t \in Threads, NEW next \in Returns[t], NEW flags \in SUBSET Events, flags # {},
           Unlock(t, next, flags, LimitingProcessId, aim \cup {All}, processes),
           LivesGoOn, UNCHANGED <<processes, group>>
    PROVE  Ctrl'
<1>1. processes \in Seq(Entries) /\ Own(processes) /\ LimitingProcessId = All
  BY DEF CInv, Ctrl, IInv, TypeOK, CtrlOK
<1>2. aim \cup {All} \in SUBSET Groups /\ LimitingProcessId \in Groups
  BY DEF CInv, IInv, TypeOK, Groups
<1> QED
  BY <1>1, <1>2, UnlockKeeps

\* SendCloseEvent, with the keys of the same critical section.
LEMMA CloseCtrl ==
    ASSUME CInv, NEW t \in Threads, NEW next \in Returns[t], NEW keys \in SUBSET {"c", "break"},
           SendCloseEvent(t, next, keys), UNCHANGED <<processes, group, life>>
    PROVE  Ctrl'
<1>1. /\ CtrlFlags \cup keys \in SUBSET Events /\ CtrlFlags \cup keys \cup {"close"} \in SUBSET Events
      /\ processes \in Seq(Entries) /\ Own(processes) /\ LivesGoOn
  BY DEF CInv, Ctrl, IInv, TypeOK, Events, CtrlOK, LivesGoOn
<1>2. CASE UNCHANGED <<pc, ctrlVars>>
  BY <1>2 DEF CInv, Ctrl, CtrlOK, PidsOK, Own, Astray, CtrlStaysInGroup, MeantFor, ctrlVars
<1>3. CASE Unlock(t, next, CtrlFlags \cup keys \cup {"close"}, LimitingProcessId, aim \cup {All}, processes)
  BY <1>1, <1>3, EverybodyCtrl, Zenon
<1>4. CASE Unlock(t, next, CtrlFlags \cup keys, LimitingProcessId, aim \cup {All}, processes) /\ keys # {}
  BY <1>1, <1>4, EverybodyCtrl, Zenon
<1>5. CASE Unlock(t, next, CtrlFlags \cup keys, LimitingProcessId, aim, processes) /\ keys = {}
  <2>1. CtrlFlags \cup keys = CtrlFlags
    BY <1>5
  <2>2. UnlockConsole(t, next, processes)
    BY <1>5, <2>1 DEF UnlockConsole
  <2> QED
    BY <1>1, <2>2, ConsoleCtrl
<1> QED
  BY <1>2, <1>3, <1>4, <1>5 DEF SendCloseEvent

\* The I/O thread makes no process unborn, and moves none to another group.
LEMMA IoLives ==
    ASSUME TypeOK, IoStep
    PROVE  LivesGoOn /\ UNCHANGED group
<1>1. life \in [Clients -> {"unborn", "starting", "connected", "exiting", "dead"}]
  BY DEF TypeOK
<1>2. ASSUME NEW q, \/ life' = [life EXCEPT ![q] = IF @ = "starting" THEN "connected" ELSE @]
                    \/ life' = [life EXCEPT ![q] = "dead"] \/ life' = life
      PROVE  LivesGoOn
  BY <1>1, <1>2 DEF LivesGoOn
<1>3. ASSUME NEW q, NEW ps, Connected(q, ps) PROVE LivesGoOn
  BY <1>2, <1>3 DEF Connected
<1>4. ASSUME NEW q, NEW ps, Refused(q, ps) PROVE LivesGoOn
  BY <1>2, <1>4 DEF Refused
<1>5. ASSUME NEW q, NEW ps, StartIfNeeded(q, ps) PROVE LivesGoOn
  BY <1>2, <1>3, <1>5, Zenon DEF StartIfNeeded
<1>6. CASE Initialize \/ WindowReady \/ NotConnected
  BY <1>2, <1>6, Zenon DEF Initialize, WindowReady, NotConnected, Rundown, clientVars
<1>7. CASE WindowWaited \/ Started
  BY <1>3, <1>4, <1>5, <1>7, Zenon DEF WindowWaited, Started
<1>8. ASSUME NEW p \in Clients, Connect(p) PROVE LivesGoOn /\ UNCHANGED group
  BY <1>2, <1>3, <1>4, <1>5, <1>8, Zenon DEF Connect
<1>9. ASSUME NEW p \in Clients, Disconnect(p) PROVE LivesGoOn /\ UNCHANGED group
  BY <1>2, <1>9, Zenon DEF Disconnect
<1> QED
  BY <1>6, <1>7, <1>8, <1>9, Zenon DEF IoStep

\* The requests of the I/O thread.
LEMMA IoCtrl ==
    ASSUME CInv, IoStep
    PROVE  Ctrl'
<1>0. /\ processes \in Seq(Entries) /\ Distinct(processes) /\ Own(processes)
      /\ "io" \in Threads /\ {"read", "window"} \subseteq Returns["io"]
      /\ TypeOK /\ CtrlOK /\ PidsOK /\ CtrlStaysInGroup
  BY DEF CInv, Ctrl, IInv, TypeOK, ListOK, CtrlOK, Threads, Returns
<1>00. LivesGoOn /\ UNCHANGED group
  BY <1>0, IoLives
<1>1. ASSUME NEW ps \in Seq(Entries), Distinct(ps), NEW p
      PROVE  Without(ps, p) \in Seq(Entries) /\ (Own(ps) => Own(Without(ps, p)))
  <2> DEFINE w == Without(ps, p)
  <2>1. w \in Seq(Entries) /\ \A i \in DOMAIN w : \E j \in DOMAIN ps : w[i] = ps[j]
    BY <1>1, WithoutFacts
  <2> HIDE DEF w
  <2>2. Own(ps) => Own(w)
    BY <2>1 DEF Own
  <2> QED
    BY <2>1, <2>2 DEF w
<1>2. ASSUME NEW p \in Clients, NEW ps \in Seq(Entries), Distinct(ps), Own(ps), Connected(p, ps)
      PROVE  Ctrl'
  <2> DEFINE listed == IF life[p] = "starting" THEN ps ELSE Without(ps, p)
  <2>1. listed \in Seq(Entries) /\ Own(listed)
    BY <1>1, <1>2
  <2>2. processes' = listed /\ UnlockConsole("io", "read", listed)
    BY <1>2 DEF Connected
  <2> HIDE DEF listed
  <2> QED
    BY <1>0, <1>00, <1>2, <2>1, <2>2, ConsoleCtrl
<1>3. ASSUME NEW p, NEW ps \in Seq(Entries), Own(ps), Refused(p, ps)
      PROVE  Ctrl'
  BY <1>0, <1>00, <1>3, ConsoleCtrl DEF Refused
<1>33. ASSUME UNCHANGED ctrlVars, Own(processes)', \A t \in Threads : pc'[t] = "endtask" => pc[t] = "endtask",
              pc.io = "da1" => pc'.io = "da1",
              processes' = processes \/ pc'.io = "da1"
       PROVE  Ctrl'
  <2>1. UNCHANGED <<CtrlFlags, LimitingProcessId, aim, task, group>>
    BY <1>00, <1>33 DEF ctrlVars
  <2>2. PidsOK'
    <3>1. Threading
      BY DEF CInv, IInv, TypeOK, Threading
    <3> QED
      BY <1>0, <1>00, <1>33, <2>1, <3>1, PidsAreClients DEF PidsOK, LivesGoOn
  <2>3. CtrlStaysInGroup'
    BY <1>0, <1>33, <2>1 DEF CtrlStaysInGroup, MeantFor
  <2>4. CtrlOK'
    BY <1>0, <1>00, <1>33, <2>1 DEF CtrlOK, Astray, LivesGoOn
  <2> QED
    BY <2>2, <2>3, <2>4 DEF Ctrl
<1>34. ASSUME NEW ps \in Seq(Entries), Own(ps), processes' = ps PROVE Own(processes)'
  <2>1. \A i \in DOMAIN ps : ps[i].pid \in Clients
    BY <1>34, EntryFacts
  <2> QED
    BY <1>00, <1>34, <2>1, Zenon DEF Own, LivesGoOn
<1>4. ASSUME NEW p \in Clients, NEW ps \in Seq(Entries), Distinct(ps), Own(ps), StartIfNeeded(p, ps)
      PROVE  Ctrl'
  <2>1. CASE vtState = "Initialized"
    <3>1. processes' = ps /\ UNCHANGED ctrlVars /\ pc' = [pc EXCEPT !.io = "da1", !.vtin = "read"]
      BY <2>1, <1>4 DEF StartIfNeeded
    <3>2. pc'.io = "da1" /\ pc'.vtin = "read" /\ pc'.signal = pc.signal
      BY <1>0, <3>1 DEF TypeOK, Places
    <3>3. \A t \in Threads : pc'[t] = "endtask" => pc[t] = "endtask"
      BY <3>2 DEF Threads
    <3> QED
      BY <1>33, <1>34, <1>4, <3>1, <3>2, <3>3
  <2>2. CASE vtState # "Initialized"
    BY <1>2, <1>4, <2>2 DEF StartIfNeeded
  <2> QED
    BY <2>1, <2>2
<1>5. ASSUME NEW p \in Clients, Connect(p) PROVE Ctrl'
  <2> DEFINE e == [pid |-> p, group |-> group[p], root |-> ~initialized]
             ps == Append(processes, e)
  <2>1. CASE Listed(processes, p)
    BY <1>0, <1>3, <1>5, <2>1, Zenon DEF Connect
  <2>2. CASE ~Listed(processes, p)
    <3>1. e \in Entries /\ e.pid = p /\ e.group = group[p] /\ (e.root => ~initialized)
      BY <1>0, Zenon DEF Entries, TypeOK
    <3>11. life[p] # "unborn"
      BY <1>5 DEF Connect
    <3>2. ~initialized => DOMAIN processes = {}
      <4>1. \A i \in DOMAIN processes : processes[i].pid \in Clients
        BY <1>0, EntryFacts
      <4>2. conn = Nobody /\ Nobody \notin Clients
        BY <1>5, SessionAssumption, Zenon DEF CInv, IInv, ListOK, At, Connect
      <4> QED
        BY <4>1, <4>2, Zenon DEF CInv, IInv, ListOK
    <3> HIDE DEF e
    <3>3. ps \in Seq(Entries) /\ Distinct(ps)
      BY <1>0, <2>2, <3>1, <3>2, AppendFacts
    <3>33. Own(ps)
      BY <1>0, <3>1, <3>11, AppendOwn
    <3>4. \/ Connected(p, ps) \/ StartIfNeeded(p, ps)
          \/ UnlockConsole("io", "window", ps) /\ processes' = ps
      BY <1>5, <2>2 DEF Connect, e
    <3> HIDE DEF ps
    <3> QED
      BY <1>0, <1>00, <1>2, <1>4, <3>3, <3>33, <3>4, ConsoleCtrl
  <2> QED
    BY <2>1, <2>2
<1>6. ASSUME NEW p \in Clients, Disconnect(p) PROVE Ctrl'
  <2>1. Without(processes, p) \in Seq(Entries) /\ Own(Without(processes, p))
    BY <1>0, <1>1
  <2> QED
    BY <1>0, <1>00, <1>6, <2>1, ConsoleCtrl DEF Disconnect
<1>7. CASE WindowWaited \/ Started
  <2>1. conn \in Clients
    BY <1>7 DEF CInv, IInv, ListOK, At, WindowWaited, Started
  <2>2. Without(processes, conn) \in Seq(Entries) /\ Own(Without(processes, conn))
    BY <1>0, <1>1
  <2>3. \/ StartIfNeeded(conn, processes) \/ Connected(conn, processes)
        \/ Refused(conn, Without(processes, conn))
    BY <1>7 DEF WindowWaited, Started
  <2> QED
    BY <1>0, <1>2, <1>3, <1>4, <2>1, <2>2, <2>3
<1>8. CASE Initialize
  <2>1. pc.io = "init" /\ pc' = [pc EXCEPT !.io = "read"] /\ UNCHANGED <<ctrlVars, processes>>
    BY <1>8 DEF Initialize
  <2>2. pc'.io = "read" /\ pc'.vtin = pc.vtin /\ pc'.signal = pc.signal
    BY <1>0, <2>1 DEF TypeOK, Places
  <2>3. \A t \in Threads : pc'[t] = "endtask" => pc[t] = "endtask"
    BY <2>2 DEF Threads
  <2> QED
    BY <1>0, <1>33, <1>34, <2>1, <2>2, <2>3
<1>9. CASE WindowReady \/ NotConnected
  <2>1. UNCHANGED <<pc, ctrlVars, processes>>
    BY <1>9, Zenon DEF WindowReady, NotConnected, Rundown
  <2> QED
    BY <1>0, <1>33, <1>34, <2>1
<1> QED
  BY <1>5, <1>6, <1>7, <1>8, <1>9 DEF IoStep

\* ServerGenerateConsoleCtrlEvent: when it is served no event for everybody is
\* outstanding.  A group that it accepts has a process in the list, or its ID
\* names a process that is in the list with another group.
LEMMA GenerateCtrl ==
    ASSUME CInv, NEW p \in Clients, NEW e \in Generated, NEW g \in Groups,
           GenerateConsoleCtrlEvent(p, e, g)
    PROVE  Ctrl'
<1> DEFINE known == g = All \/ \E i \in DOMAIN processes : processes[i].group = g
           child == g # All /\ life[g] \in {"starting", "connected"} /\ Listed(processes, parent[g])
           entry == [pid |-> g, group |-> g, root |-> FALSE]
           ps == IF known \/ ~child \/ Listed(processes, g) THEN processes ELSE Append(processes, entry)
<1>0. /\ TypeOK /\ CtrlOK /\ processes \in Seq(Entries) /\ Own(processes)
      /\ "io" \in Threads /\ "read" \in Returns["io"] /\ LimitingProcessId = All
  <2>1. TypeOK /\ CtrlOK
    BY DEF CInv, Ctrl, IInv
  <2>2. processes \in Seq(Entries)
    BY <2>1 DEF TypeOK
  <2>3. Own(processes) /\ LimitingProcessId = All
    BY <2>1 DEF CtrlOK
  <2>4. "io" \in Threads /\ "read" \in Returns["io"]
    BY ReturnsFacts DEF Threads
  <2> QED
    BY <2>1, <2>2, <2>3, <2>4
<1>1. (CtrlFlags = {} => aim = {}) /\ (CtrlFlags # {} => Astray(aim)) /\ All \notin aim
  <2>1. life[p] = "connected" /\ pc.io = "read"
    BY DEF GenerateConsoleCtrlEvent
  <2>2. Listed(processes, p)
    BY <2>1 DEF CInv, IInv, ListOK
  <2>3. processes # <<>>
    BY <2>2, EmptySeq DEF Listed
  <2>4. (CtrlFlags = {} => aim = {}) /\ (CtrlFlags # {} => Astray(aim))
    BY <1>0, <2>1, <2>3 DEF CtrlOK
  <2> QED
    BY <2>4 DEF Astray
<1>2. /\ ps \in Seq(Entries) /\ Own(ps)
      /\ known \/ child => \/ g = All \/ \E i \in DOMAIN ps : ps[i].group = g
                           \/ g # All /\ group[g] # g
  <2>1. CASE ps = processes /\ (known \/ ~child)
    BY <1>0, <2>1, Zenon
  <2>2. CASE ps = processes /\ ~known /\ Listed(processes, g)
    BY <1>0, <2>2, Zenon DEF Own, Listed
  <2>3. CASE child /\ ~Listed(processes, g) /\ ps = Append(processes, entry)
    <3>1. g \in Clients /\ entry \in Entries /\ entry.pid = g /\ entry.group = g /\ entry.root = FALSE
      BY <2>3 DEF Groups, Entries
    <3>11. life[g] # "unborn"
      BY <2>3
    <3> DEFINE qs == Append(processes, entry)
    <3> HIDE DEF entry
    <3>2. qs \in Seq(Entries) /\ Own(qs) /\ \E i \in DOMAIN qs : qs[i] = entry
      BY <1>0, <3>1, <3>11, AppendOwn
    <3>3. \E i \in DOMAIN qs : qs[i].group = g
      BY <3>1, <3>2
    <3>4. ps = qs
      BY <2>3
    <3> HIDE DEF qs, ps
    <3> QED
      BY <3>2, <3>3, <3>4
  <2> QED
    BY <2>1, <2>2, <2>3, Zenon
<1>3. /\ processes' = ps /\ UNCHANGED <<group, life>>
      /\ IF known \/ child THEN Unlock("io", "read", CtrlFlags \cup {e}, g, aim \cup {g}, ps)
         ELSE UnlockConsole("io", "read", ps)
  BY Zenon DEF GenerateConsoleCtrlEvent, clientVars
<1> HIDE DEF ps, known, child
<1>33. LivesGoOn
  BY <1>3 DEF LivesGoOn
<1>4. CASE known \/ child
  <2>1. /\ CtrlFlags \cup {e} \in SUBSET Events /\ CtrlFlags \cup {e} # {}
        /\ aim \cup {g} \in SUBSET Groups
    BY <1>0, SessionAssumption DEF TypeOK, Events
  <2>2. \/ g = All /\ All \in aim \cup {g}
        \/ /\ g # All /\ All \notin aim \cup {g} /\ g \in aim \cup {g}
           /\ Astray(aim \cup {g}) \/ \E i \in DOMAIN ps : ps[i].group = g
    BY <1>1, <1>2, <1>4 DEF Astray
  <2> QED
    BY <1>0, <1>2, <1>3, <1>33, <1>4, <2>1, <2>2, UnlockKeeps
<1>5. CASE ~(known \/ child)
  BY <1>0, <1>2, <1>3, <1>33, <1>5, ConsoleCtrl, Zenon
<1> QED
  BY <1>4, <1>5

\* The calls of EndTask that are left are some of those there were.
LEMMA EndTaskCtrl ==
    ASSUME CInv, NEW t \in Threads, EndTask(t)
    PROVE  Ctrl'
<1> DEFINE pids == task[t].pids
           rest == Tail(pids)
<1>0. /\ TypeOK /\ TaskOK /\ CtrlOK /\ PidsOK /\ CtrlStaysInGroup /\ task[t] \in Tasks
      /\ pc[t] = "endtask" /\ pids \in Seq(Clients) /\ pids # <<>> /\ task[t].then \in Returns[t]
  BY DEF CInv, Ctrl, IInv, TypeOK, TaskOK, Tasks, EndTask
<1>1. rest \in Seq(Clients) /\ Len(rest) = Len(pids) - 1 /\ \A i \in 1 .. Len(rest) : rest[i] = pids[i + 1]
  BY <1>0, HeadTailProperties
<1>2. \A i \in DOMAIN rest : i + 1 \in DOMAIN pids /\ rest[i] = pids[i + 1]
  BY <1>0, <1>1, LenProperties
<1>3. UNCHANGED <<processes, CtrlFlags, LimitingProcessId, aim, group, life>>
  BY DEF EndTask
<1>4. task[t].then \notin {"endtask", "da1"}
  BY <1>0, ReturnsFacts
<1>5. pc'[t] = (IF rest = <<>> THEN task[t].then ELSE "endtask") /\ \A u \in Threads \ {t} : pc'[u] = pc[u]
  BY <1>0 DEF EndTask, TypeOK, Places, Threads
<1>6. \A u \in Threads \ {t} : task'[u] = task[u]
  BY <1>0 DEF EndTask, TypeOK
<1>7. rest # <<>> => task'[t] = [task[t] EXCEPT !.pids = rest]
  BY <1>0 DEF EndTask, TypeOK
<1>8. rest # <<>> => task'[t].pids = rest /\ task'[t].aim = task[t].aim /\ task'[t].limit = task[t].limit
  BY <1>0, <1>7, Zenon DEF Tasks
<1>88. pc'[t] = "endtask" => rest # <<>>
  BY <1>4, <1>5
<1> HIDE DEF rest
<1>9. CtrlStaysInGroup'
  <2> SUFFICES ASSUME NEW u \in Threads, pc'[u] = "endtask"
               PROVE  IF All \in task'[u].aim THEN task'[u].limit = All
                      ELSE \/ \E g \in task'[u].aim : group[g] # g
                           \/ \A i \in DOMAIN task'[u].pids : MeantFor(task'[u].pids[i], task'[u].aim)
    BY <1>3 DEF CtrlStaysInGroup, MeantFor
  <2>1. CASE u # t
    BY <1>0, <1>5, <1>6, <2>1 DEF CtrlStaysInGroup
  <2>2. CASE u = t
    <3>1. rest # <<>>
      BY <1>88, <2>2
    <3>2. IF All \in task[t].aim THEN task[t].limit = All
          ELSE \/ \E g \in task[t].aim : group[g] # g
               \/ \A i \in DOMAIN pids : MeantFor(pids[i], task[t].aim)
      BY <1>0 DEF CtrlStaysInGroup
    <3> HIDE DEF pids
    <3> QED
      BY <1>2, <1>8, <2>2, <3>1, <3>2
  <2> QED
    BY <2>1, <2>2
<1>10. PidsOK'
  <2>1. \A i \in DOMAIN pids : life[pids[i]] # "unborn"
    BY <1>0 DEF PidsOK
  <2> HIDE DEF pids
  <2>2. rest # <<>> => \A i \in DOMAIN task'[t].pids : life[task'[t].pids[i]] # "unborn"
    BY <1>2, <1>8, <2>1
  <2> QED
    BY <1>0, <1>3, <1>5, <1>6, <1>88, <2>2 DEF PidsOK
<1> QED
  <2>1. pc.io = "da1" => pc'.io = "da1"
    BY <1>0, <1>5 DEF Threads
  <2>2. CtrlOK'
    BY <1>0, <1>3, <2>1, Zenon DEF CtrlOK, Own, Astray
  <2> QED
    BY <1>9, <1>10, <2>2 DEF Ctrl

\* A process that is started is in no list yet, and nobody has told it anything.
LEMMA LaunchCtrl ==
    ASSUME CInv, NEW q \in Clients, NEW p \in Clients \cup {Nobody}, Launch(q, p)
    PROVE  Ctrl'
<1>0. /\ TypeOK /\ CtrlOK /\ PidsOK /\ CtrlStaysInGroup /\ Threading
      /\ processes \in Seq(Entries) /\ Own(processes)
  BY DEF CInv, Ctrl, IInv, TypeOK, CtrlOK, Threading
<1>1. /\ life[q] = "unborn" /\ UNCHANGED <<pc, processes, CtrlFlags, LimitingProcessId, aim, task>>
      /\ \A r \in Clients \ {q} : group'[r] = group[r] /\ life'[r] = life[r]
      /\ life'[q] = "starting"
  <2>1. life[q] = "unborn" /\ UNCHANGED <<pc, processes, CtrlFlags, LimitingProcessId, aim, task>>
    BY Zenon DEF Launch, hostVars, ctrlVars
  <2>2. life' = [life EXCEPT ![q] = "starting"] /\ \E x : group' = [group EXCEPT ![q] = x]
    <3>1. group' \in {group, [group EXCEPT ![q] = IF p # Nobody THEN group[p] ELSE group[q]]}
      BY DEF Launch
    <3>2. group = [group EXCEPT ![q] = group[q]]
      BY <1>0 DEF TypeOK
    <3> QED
      BY <3>1, <3>2, Zenon DEF Launch
  <2>3. /\ \A r \in Clients \ {q} : group'[r] = group[r] /\ life'[r] = life[r]
        /\ life'[q] = "starting"
    BY <1>0, <2>2 DEF TypeOK
  <2> QED
    BY <2>1, <2>3
<1>2. group[q] = q
  BY <1>0, <1>1 DEF CtrlOK
<1>3. \A r \in Clients : life[r] # "unborn" => group'[r] = group[r] /\ life'[r] # "unborn"
  BY <1>1
<1>4. \A r \in Clients : group[r] # r => group'[r] # r
  BY <1>1, <1>2
<1>5. \A to \in SUBSET Groups : Astray(to) => Astray(to)'
  BY <1>4 DEF Astray, Groups
<1>6. Own(processes)'
  <2>1. \A i \in DOMAIN processes : processes[i].pid \in Clients
    BY <1>0, EntryFacts
  <2> QED
    BY <1>0, <1>1, <1>3, <2>1, Zenon DEF Own
<1>7. CtrlOK'
  <2>1. \A r \in Clients : life'[r] = "unborn" => group'[r] = r
    BY <1>0, <1>1 DEF CtrlOK
  <2>2. aim \in SUBSET Groups
    BY <1>0 DEF TypeOK
  <2> QED
    BY <1>0, <1>1, <1>5, <1>6, <2>1, <2>2 DEF CtrlOK
<1>8. PidsOK'
  BY <1>0, <1>1, <1>3, PidsAreClients DEF PidsOK
<1>9. CtrlStaysInGroup'
  <2> SUFFICES ASSUME NEW t \in Threads, pc[t] = "endtask"
               PROVE  IF All \in task[t].aim THEN task[t].limit = All
                      ELSE \/ \E g \in task[t].aim : group'[g] # g
                           \/ \A i \in DOMAIN task[t].pids : MeantFor(task[t].pids[i], task[t].aim)'
    BY <1>1 DEF CtrlStaysInGroup, MeantFor
  <2>1. task[t].aim \in SUBSET Groups
    BY <1>0 DEF Threading, Tasks
  <2>2. CASE All \in task[t].aim
    BY <1>0, <2>2 DEF CtrlStaysInGroup
  <2>3. CASE All \notin task[t].aim /\ \E g \in task[t].aim : group[g] # g
    BY <1>4, <2>1, <2>3 DEF Groups
  <2>4. CASE All \notin task[t].aim /\ \A i \in DOMAIN task[t].pids : MeantFor(task[t].pids[i], task[t].aim)
    <3>1. \A i \in DOMAIN task[t].pids : group'[task[t].pids[i]] = group[task[t].pids[i]]
      BY <1>0, <1>3, PidsAreClients DEF PidsOK
    <3> QED
      BY <1>1, <2>4, <3>1 DEF MeantFor
  <2> QED
    BY <1>0, <2>2, <2>3, <2>4 DEF CtrlStaysInGroup
<1> QED
  BY <1>7, <1>8, <1>9 DEF Ctrl

\* Every step keeps what is known of the ctrl events.
LEMMA NextCInv ==
    ASSUME CInv, [Next]_vars
    PROVE  CInv'
<1>0. /\ IInv' /\ TypeOK /\ CtrlOK /\ PidsOK /\ CtrlStaysInGroup
      /\ processes \in Seq(Entries) /\ Own(processes) /\ Threading
      /\ Threads = {"io", "signal", "vtin"} /\ \A t \in Threads : "read" \in Returns[t]
      /\ "done" \in Returns["signal"] /\ "done" \in Returns["vtin"]
  <2>1. IInv /\ CtrlOK /\ PidsOK /\ CtrlStaysInGroup
    BY DEF CInv, Ctrl
  <2>2. IInv'
    BY <2>1, NextIInv
  <2>3. TypeOK /\ processes \in Seq(Entries) /\ Threading
    BY <2>1 DEF IInv, TypeOK, Threading
  <2>4. Own(processes)
    BY <2>1 DEF CtrlOK
  <2> QED
    BY <2>1, <2>2, <2>3, <2>4, ReturnsFacts DEF Threads
<1> SUFFICES Ctrl'
  BY <1>0 DEF CInv
<1>1. ASSUME UNCHANGED <<pc, processes, ctrlVars, group>>, LivesGoOn PROVE Ctrl'
  <2>1. UNCHANGED <<CtrlFlags, LimitingProcessId, aim, task>>
    BY <1>1 DEF ctrlVars
  <2>2. Own(processes)'
    <3>1. \A i \in DOMAIN processes : processes[i].pid \in Clients
      BY <1>0, EntryFacts
    <3> QED
      BY <1>0, <1>1, <3>1, Zenon DEF Own, LivesGoOn
  <2>3. CtrlOK'
    BY <1>0, <1>1, <2>1, <2>2 DEF CtrlOK, Astray, LivesGoOn
  <2>4. PidsOK'
    BY <1>0, <1>1, <2>1, PidsAreClients DEF PidsOK, LivesGoOn
  <2>5. CtrlStaysInGroup'
    BY <1>0, <1>1, <2>1 DEF CtrlStaysInGroup, MeantFor
  <2> QED
    BY <2>3, <2>4, <2>5 DEF Ctrl
<1>11. ASSUME UNCHANGED life PROVE LivesGoOn
  BY <1>11 DEF LivesGoOn
<1>2. CASE UNCHANGED vars \/ Exited \/ Terminal
  BY <1>1, <1>11, <1>2, Zenon DEF vars, Exited, Terminal, ClosePseudoConsole, ReleasePseudoConsole, ClosePipe,
     hostVars, clientVars
<1>22. ASSUME NEW p \in Clients, ClientExits(p) PROVE Ctrl'
  <2>1. LivesGoOn
    BY <1>0, <1>22 DEF ClientExits, TypeOK, LivesGoOn
  <2> QED
    BY <1>1, <1>22, <2>1 DEF ClientExits, hostVars
<1>3. ASSUME NEW q \in Clients, NEW p \in Clients \cup {Nobody}, Launch(q, p) PROVE Ctrl'
  BY <1>3, LaunchCtrl
<1>4. CASE IoStep
  BY <1>4, IoCtrl
<1>5. ASSUME NEW p \in Clients, NEW e \in Generated, NEW g \in Groups,
             GenerateConsoleCtrlEvent(p, e, g)
      PROVE  Ctrl'
  BY <1>5, GenerateCtrl
<1>6. CASE ClientOutput
  BY <1>0, <1>6, CloseCtrl DEF ClientOutput, clientVars
<1>7. CASE SignalPipeBroken \/ InputPipeBroken
  BY <1>0, <1>7, CloseCtrl DEF SignalPipeBroken, InputPipeBroken, clientVars
<1>8. ASSUME NEW w \in Sizes, ResizeWindow(w) PROVE Ctrl'
  BY <1>0, <1>8, <1>11, ConsoleCtrl DEF ResizeWindow, clientVars
<1>9. ASSUME NEW chunk \in Chunks, ProcessInput(chunk) PROVE Ctrl'
  <2> DEFINE keys == chunk \ {"echo"}
  <2>1. keys \in SUBSET {"c", "break"} /\ CtrlFlags \cup keys \in SUBSET Events
    BY <1>0, SessionAssumption DEF TypeOK, Events
  <2>2. UNCHANGED <<processes, group, life>> /\ LivesGoOn
    BY <1>9, <1>11 DEF ProcessInput, clientVars
  <2>3. \/ SendCloseEvent("vtin", "read", keys)
        \/ Unlock("vtin", "read", CtrlFlags \cup keys, LimitingProcessId,
                  IF keys = {} THEN aim ELSE aim \cup {All}, processes)
    BY <1>9 DEF ProcessInput
  <2> HIDE DEF keys
  <2>4. CASE SendCloseEvent("vtin", "read", keys)
    BY <1>0, <2>1, <2>2, <2>4, CloseCtrl
  <2>5. CASE Unlock("vtin", "read", CtrlFlags \cup keys, LimitingProcessId, aim \cup {All}, processes)
             /\ keys # {}
    BY <1>0, <2>1, <2>2, <2>5, EverybodyCtrl, Zenon
  <2>6. CASE Unlock("vtin", "read", CtrlFlags \cup keys, LimitingProcessId, aim, processes) /\ keys = {}
    <3>1. CtrlFlags \cup keys = CtrlFlags
      BY <2>6
    <3>2. UnlockConsole("vtin", "read", processes)
      BY <2>6, <3>1 DEF UnlockConsole
    <3> QED
      BY <1>0, <2>2, <3>2, ConsoleCtrl
  <2> QED
    BY <2>3, <2>4, <2>5, <2>6
<1>10. ASSUME NEW t \in Threads, EndTask(t) PROVE Ctrl'
  BY <1>10, EndTaskCtrl
<1> QED
  BY <1>2, <1>22, <1>3, <1>4, <1>5, <1>6, <1>7, <1>8, <1>9, <1>10 DEF Next, Groups

\* Whom ProcessCtrlEvents tells, for any processes in any groups: events for
\* everybody are not narrowed, the limit of one event never survives into the
\* next, and an event leaves the groups it was generated for only if one of the
\* IDs it was generated with leads no group.
THEOREM CtrlStaysInGroupHolds == Spec => []CtrlStaysInGroup
<1>1. Init => CInv
  <2> SUFFICES ASSUME Init PROVE Ctrl
    BY InitIInv DEF CInv
  <2>1. DOMAIN processes = {}
    BY EmptySeq DEF Init
  <2>2. \A t \in Threads : pc[t] # "endtask"
    BY DEF Init, Threads
  <2>3. Own(processes)
    BY <2>1 DEF Own
  <2>4. \A p \in Clients : group[p] = p
    BY DEF Init
  <2>5. CtrlOK
    BY <2>3, <2>4 DEF Init, CtrlOK
  <2> QED
    BY <2>2, <2>5 DEF Ctrl, PidsOK, CtrlStaysInGroup
<1>2. CInv /\ [Next]_vars => CInv'
  BY NextCInv
<1>3. CInv => CtrlStaysInGroup
  BY DEF CInv, Ctrl
<1> QED
  BY <1>1, <1>2, <1>3, PTL DEF Spec

=============================================================================

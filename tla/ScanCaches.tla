----------------------------- MODULE ScanCaches -----------------------------
(***************************************************************************)
(* How the threads of a scavenge share copied objects that are still to be *)
(* scanned and find out that none are left: MM_Scavenger::completeScan and *)
(* getNextScanCache (gc/base/standard/Scavenger.cpp) over the scan list,   *)
(* an MM_CopyScanCacheList (CopyScanCacheList.cpp).                        *)
(*                                                                         *)
(* A cache has no identity: a sublist is the number of caches in it, and a *)
(* thread has a number of caches of its own with work (its copy and        *)
(* deferred caches, whose order does not matter here).  A sublist is       *)
(* changed under its lock, but its head, and all the counters, are read    *)
(* outside it.  A completeScan may follow another without a barrier, after *)
(* more objects were copied by the root scanner.                           *)
(*                                                                         *)
(* Definitions marked `mutant' are seeded faults, used to show that the    *)
(* properties can fail.                                                    *)
(***************************************************************************)
EXTENDS Naturals, FiniteSets

CONSTANTS
    Threads, NoThread,
    SublistCount,       \* _sublistCount
    SublistIndex,       \* getSublistIndex of each thread: [Threads -> 0..SublistCount-1]
    Rounds,             \* the calls of completeScan in one task
    MaxCopies           \* bound on the objects that are copied

ASSUME ScanCachesAssumption ==
    /\ IsFiniteSet(Threads) /\ NoThread \notin Threads
    /\ SublistCount \in Nat \ {0} /\ SublistIndex \in [Threads -> 0..(SublistCount - 1)]
    /\ Rounds \in Nat \ {0} /\ MaxCopies \in Nat

VARIABLES
    concurrent,         \* built with OMR_GC_CONCURRENT_SCAVENGER (fixed)
    entries, lock,      \* of each sublist: its caches, who has its _cacheLock
    cachedEntryCount,   \* _cachedEntryCount: the sublists with caches
    waitingCount, doneIndex,
    backOut, backOutDoneIndex,
    owner, waiters,     \* _scanCacheMonitor: its owner, who waits and was not notified
    copies,             \* objects copied so far, successfully or not
    env                 \* the locals of each thread

listVars == <<entries, lock, cachedEntryCount>>
countVars == <<waitingCount, doneIndex>>
backOutVars == <<backOut, backOutDoneIndex>>
monitorVars == <<owner, waiters>>
vars == <<concurrent, listVars, countVars, backOutVars, monitorVars, copies, env>>

Sublists == 0..(SublistCount - 1)

Locals ==
    [pc : {"roots", "scan", "get", "loop", "count", "pop", "popped", "more", "pushed", "anyWaiting", "try",
           "notify", "enter", "decide", "test", "sleep", "waiting", "leave", "return", "raise", "raised",
           "tell", "telling", "done", "backedOut"},
     from : {"roots", "scan"},          \* what it scans: a failed copy, and a push, return to it
     own : 0..MaxCopies,                \* caches of its own with work
     look : SUBSET Sublists, at : Sublists,     \* in popCache: still to be looked at; the next
     round : 1..Rounds,
     cycle : 0..Rounds, doneIndex : 0..Rounds]  \* doneIndex in completeScan, in getNextScanCache

TypeOK ==
    /\ concurrent \in BOOLEAN
    /\ entries \in [Sublists -> 0..MaxCopies] /\ lock \in [Sublists -> Threads \cup {NoThread}]
    /\ cachedEntryCount \in 0..SublistCount
    /\ waitingCount \in 0..Cardinality(Threads) /\ doneIndex \in 0..Rounds
    /\ backOut \in BOOLEAN /\ backOutDoneIndex \in 0..Rounds
    /\ owner \in Threads \cup {NoThread} /\ waiters \subseteq Threads
    /\ copies \in 0..MaxCopies /\ env \in [Threads -> Locals]

\* masterSetupForGC has run and the task has started.
Init ==
    /\ concurrent \in BOOLEAN
    /\ entries = [i \in Sublists |-> 0] /\ lock = [i \in Sublists |-> NoThread] /\ cachedEntryCount = 0
    /\ waitingCount = 0 /\ doneIndex = 0 /\ backOut = FALSE /\ backOutDoneIndex = 0
    /\ owner = NoThread /\ waiters = {} /\ copies = 0
    /\ env = [t \in Threads |->
                [pc |-> "roots", from |-> "roots", own |-> 0, look |-> {}, at |-> SublistIndex[t],
                 round |-> 1, cycle |-> 0, doneIndex |-> 0]]

At(t, place) == env[t].pc = place
Goto(t, place) == env' = [env EXCEPT ![t].pc = place]
Works(t) == env[t].pc \in {"roots", "scan"}
Enters(t) == owner = NoThread /\ owner' = t
Exits == owner' = NoThread
shouldAbortScanLoop == ~concurrent /\ backOut

-----------------------------------------------------------------------------
(* Scanning a cache, or the roots. *)

\* An object is copied, into a copy cache of the thread.
Copy(t) ==
    /\ Works(t) /\ copies < MaxCopies
    /\ copies' = copies + 1 /\ env' = [env EXCEPT ![t].own = @ + 1]
    /\ UNCHANGED <<concurrent, listVars, countVars, backOutVars, monitorVars>>

\* There is no memory for the copy, or a back-out is forced: setBackOutFlag is called.
CopyFails(t) ==
    /\ Works(t) /\ copies < MaxCopies
    /\ copies' = copies + 1 /\ Goto(t, "raise")
    /\ UNCHANGED <<concurrent, listVars, countVars, backOutVars, monitorVars>>

RaiseBackOut(t) ==
    /\ At(t, "raise")
    /\ IF backOut
       THEN Goto(t, "tell") /\ UNCHANGED backOutDoneIndex
       ELSE Goto(t, "raised") /\ backOutDoneIndex' = doneIndex
    /\ UNCHANGED <<concurrent, listVars, countVars, backOut, monitorVars, copies>>

BackOutRaised(t) ==
    /\ At(t, "raised")
    /\ backOut' = TRUE /\ Goto(t, "tell")
    /\ UNCHANGED <<concurrent, listVars, countVars, backOutDoneIndex, monitorVars, copies>>

TellOfBackOut(t) ==
    /\ At(t, "tell") /\ Enters(t) /\ Goto(t, "telling")
    /\ UNCHANGED <<concurrent, listVars, countVars, backOutVars, waiters, copies>>

NobodyTold == waiters   \* mutant
LeftByBackOut == IF waitingCount # 0 THEN {} ELSE waiters
ToldOfBackOut(t) ==
    /\ At(t, "telling")
    /\ waiters' = LeftByBackOut /\ Exits
    /\ Goto(t, env[t].from)
    /\ UNCHANGED <<concurrent, listVars, countVars, backOutVars, copies>>

\* The scan of the cache is over.
Scanned(t) ==
    /\ At(t, "scan") /\ Goto(t, "get")
    /\ UNCHANGED <<concurrent, listVars, countVars, backOutVars, monitorVars, copies>>

-----------------------------------------------------------------------------
(* addCacheEntryToScanListAndNotify *)

\* pushCache of a cache of the thread, under the lock: first the list, then the counts.
Push(t) ==
    LET i == SublistIndex[t]
    IN  /\ Works(t) /\ env[t].own > 0 /\ lock[i] = NoThread
        /\ lock' = [lock EXCEPT ![i] = t] /\ entries' = [entries EXCEPT ![i] = @ + 1]
        /\ env' = [env EXCEPT ![t].own = @ - 1, ![t].pc = "pushed"]
        /\ UNCHANGED <<concurrent, cachedEntryCount, countVars, backOutVars, monitorVars, copies>>

FirstEntry(i) == IF entries[i] = 1 THEN 1 ELSE 0
Pushed(t) ==
    LET i == SublistIndex[t]
    IN  /\ At(t, "pushed")
        /\ cachedEntryCount' = cachedEntryCount + FirstEntry(i)
        /\ lock' = [lock EXCEPT ![i] = NoThread]
        /\ Goto(t, "anyWaiting")
        /\ UNCHANGED <<concurrent, entries, countVars, backOutVars, monitorVars, copies>>

\* A thread that waits is notified, unless the monitor is taken.
AnyWaiting(t) ==
    /\ At(t, "anyWaiting")
    /\ Goto(t, IF waitingCount # 0 THEN "try" ELSE env[t].from)
    /\ UNCHANGED <<concurrent, listVars, countVars, backOutVars, monitorVars, copies>>

TryEnter(t) ==
    /\ At(t, "try")
    /\ \/ Enters(t) /\ Goto(t, "notify")
       \/ owner # NoThread /\ Goto(t, env[t].from) /\ UNCHANGED owner
    /\ UNCHANGED <<concurrent, listVars, countVars, backOutVars, waiters, copies>>

Notify(t) ==
    /\ At(t, "notify")
    /\ IF waitingCount # 0 /\ waiters # {}
       THEN \E u \in waiters : waiters' = waiters \ {u}
       ELSE UNCHANGED waiters
    /\ Exits /\ Goto(t, env[t].from)
    /\ UNCHANGED <<concurrent, listVars, countVars, backOutVars, copies>>

-----------------------------------------------------------------------------
(* completeScan() and getNextScanCache() *)

CompleteScan(t) ==
    /\ At(t, "roots")
    /\ env' = [env EXCEPT ![t].pc = "get", ![t].from = "scan", ![t].cycle = doneIndex]
    /\ UNCHANGED <<concurrent, listVars, countVars, backOutVars, monitorVars, copies>>

\* A cache of its own, if there is one.
GetNextScanCache(t) ==
    /\ At(t, "get")
    /\ env' = [env EXCEPT ![t].doneIndex = doneIndex,
                          ![t].pc = IF env[t].own > 0 THEN "scan" ELSE "loop",
                          ![t].own = IF @ > 0 THEN @ - 1 ELSE 0]
    /\ UNCHANGED <<concurrent, listVars, countVars, backOutVars, monitorVars, copies>>

Loop(t) ==
    /\ At(t, "loop")
    /\ Goto(t, IF shouldAbortScanLoop THEN "return" ELSE "count")
    /\ UNCHANGED <<concurrent, listVars, countVars, backOutVars, monitorVars, copies>>

CachedEntries(t) ==
    /\ At(t, "count")
    /\ env' = IF cachedEntryCount > 0
              THEN [env EXCEPT ![t].pc = "pop", ![t].look = Sublists, ![t].at = SublistIndex[t]]
              ELSE [env EXCEPT ![t].pc = "enter"]
    /\ UNCHANGED <<concurrent, listVars, countVars, backOutVars, monitorVars, copies>>

\* popCache: the head is read before the lock is taken, and again under it.  Seen empty at
\* the one or the other, the sublist is passed over.
PassSublist(t) ==
    /\ At(t, "pop") /\ entries[env[t].at] = 0
    /\ env' = [env EXCEPT ![t].look = @ \ {env[t].at}, ![t].at = (@ + 1) % SublistCount,
                          ![t].pc = IF env[t].look = {env[t].at} THEN "count" ELSE @]
    /\ UNCHANGED <<concurrent, listVars, countVars, backOutVars, monitorVars, copies>>

Pop(t) ==
    LET i == env[t].at
    IN  /\ At(t, "pop") /\ entries[i] > 0 /\ lock[i] = NoThread
        /\ lock' = [lock EXCEPT ![i] = t] /\ entries' = [entries EXCEPT ![i] = @ - 1]
        /\ Goto(t, "popped")
        /\ UNCHANGED <<concurrent, cachedEntryCount, countVars, backOutVars, monitorVars, copies>>

LastEntry(i) == IF entries[i] = 0 THEN 1 ELSE 0
Popped(t) ==
    LET i == env[t].at
    IN  /\ At(t, "popped")
        /\ cachedEntryCount' = cachedEntryCount - LastEntry(i)
        /\ lock' = [lock EXCEPT ![i] = NoThread]
        /\ env' = [env EXCEPT ![t].pc = "more", ![t].look = {}, ![t].at = SublistIndex[t]]
        /\ UNCHANGED <<concurrent, entries, countVars, backOutVars, monitorVars, copies>>

\* More threads are notified if there are more entries.
More(t) ==
    /\ At(t, "more")
    /\ Goto(t, IF cachedEntryCount > 0 THEN "anyWaiting" ELSE "scan")
    /\ UNCHANGED <<concurrent, listVars, countVars, backOutVars, monitorVars, copies>>

\* The thread enters _scanCacheMonitor to wait.
EnterToWait(t) ==
    /\ At(t, "enter") /\ Enters(t)
    /\ waitingCount' = waitingCount + 1 /\ Goto(t, "decide")
    /\ UNCHANGED <<concurrent, listVars, doneIndex, backOutVars, waiters, copies>>

OneMayScan == waitingCount + 1 >= Cardinality(Threads)      \* mutant
AllWait == waitingCount = Cardinality(Threads)
Decide(t) ==
    /\ At(t, "decide")
    /\ IF env[t].doneIndex = doneIndex /\ AllWait /\ cachedEntryCount = 0
       THEN waitingCount' = 0 /\ doneIndex' = doneIndex + 1 /\ waiters' = {} /\ Goto(t, "leave")
       ELSE /\ Goto(t, IF env[t].doneIndex = doneIndex THEN "test" ELSE "leave")
            /\ UNCHANGED <<countVars, waiters>>
    /\ UNCHANGED <<concurrent, listVars, backOutVars, owner, copies>>

TestToWait(t) ==
    /\ At(t, "test")
    /\ Goto(t, IF cachedEntryCount = 0 /\ env[t].doneIndex = doneIndex /\ ~shouldAbortScanLoop
               THEN "sleep" ELSE "leave")
    /\ UNCHANGED <<concurrent, listVars, countVars, backOutVars, monitorVars, copies>>

\* omrthread_monitor_wait.
Wait(t) ==
    /\ At(t, "sleep")
    /\ waiters' = waiters \cup {t} /\ Exits /\ Goto(t, "waiting")
    /\ UNCHANGED <<concurrent, listVars, countVars, backOutVars, copies>>

Awake(t) ==
    /\ At(t, "waiting") /\ t \notin waiters /\ Enters(t)
    /\ Goto(t, "test")
    /\ UNCHANGED <<concurrent, listVars, countVars, backOutVars, waiters, copies>>

OneLess == waitingCount - 1
Leave(t) ==
    /\ At(t, "leave")
    /\ IF env[t].doneIndex # doneIndex
       THEN Goto(t, "return") /\ UNCHANGED waitingCount
       ELSE Goto(t, "loop") /\ waitingCount' = OneLess
    /\ Exits
    /\ UNCHANGED <<concurrent, listVars, doneIndex, backOutVars, waiters, copies>>

\* completeScan returns; after a success there may be another one.
AnyBackOut(t) == backOut    \* mutant
backOutRaisedThisScanCycle(t) == backOut /\ env[t].cycle = backOutDoneIndex
ReturnFromScan(t) ==
    /\ At(t, "return")
    /\ env' = IF backOutRaisedThisScanCycle(t) THEN [env EXCEPT ![t].pc = "backedOut"]
              ELSE IF env[t].round = Rounds THEN [env EXCEPT ![t].pc = "done"]
              ELSE [env EXCEPT ![t].pc = "roots", ![t].from = "roots", ![t].round = @ + 1]
    /\ UNCHANGED <<concurrent, listVars, countVars, backOutVars, monitorVars, copies>>

-----------------------------------------------------------------------------
Step(t) ==
    \/ Copy(t) \/ CopyFails(t) \/ RaiseBackOut(t) \/ BackOutRaised(t) \/ TellOfBackOut(t) \/ ToldOfBackOut(t)
    \/ Scanned(t) \/ Push(t) \/ Pushed(t) \/ AnyWaiting(t) \/ TryEnter(t) \/ Notify(t)
    \/ CompleteScan(t) \/ GetNextScanCache(t) \/ Loop(t) \/ CachedEntries(t) \/ PassSublist(t) \/ Pop(t)
    \/ Popped(t) \/ More(t) \/ EnterToWait(t) \/ Decide(t) \/ TestToWait(t) \/ Wait(t) \/ Awake(t) \/ Leave(t)
    \/ ReturnFromScan(t)

Next == \E t \in Threads : Step(t)

Spec == Init /\ [][Next]_vars

\* Every thread that can run does.
FairSpec == Spec /\ \A t \in Threads : WF_vars(Step(t))

-----------------------------------------------------------------------------
(* Properties. *)

\* The threads that are counted in _waitingCount: the ones between their entry and their
\* exit of the monitor, until the scan is declared done.
Counted == {t \in Threads : env[t].pc \in {"decide", "test", "sleep", "waiting", "leave"}
                            /\ env[t].doneIndex = doneIndex}
\* The sublists that are counted in _cachedEntryCount: as they were before the change that
\* the holder of the lock has not counted yet.
NonEmpty == {i \in Sublists : IF lock[i] = NoThread THEN entries[i] > 0
                              ELSE env[lock[i]].pc = "popped" \/ entries[i] > 1}

\* The counters that decide who waits, who is notified and when the scan is over are exact
\* although they are read outside the locks, by threads that a back-out makes leave, and by
\* slow threads of the last scan beside fast ones of the next; nothing is taken from a
\* counter at 0.
CountersInv ==
    /\ TypeOK
    /\ waitingCount = Cardinality(Counted) /\ cachedEntryCount = Cardinality(NonEmpty)

\* All threads leave a scan with the same result, also when a fast one backs out of the next
\* scan while a slow one still leaves this one: otherwise some would wait for the others at
\* the barrier of completeBackOut.
SameResult ==
    \A t, u \in Threads :
        At(t, "backedOut") => env[u].round <= env[t].round /\ (At(u, "done") => env[u].round # env[t].round)

\* What the end of a scan and the barriers after it rest on: exact counters, and one result.
ScanInv == CountersInv /\ SameResult

\* A scan is declared done only when no thread scans, or is about to, and neither the list
\* nor any thread has a cache left.
DoneMeansDone ==
    [][doneIndex' # doneIndex =>
        \A t \in Threads : t \in Counted /\ env[t].own = 0 /\ \A i \in Sublists : entries[i] = 0]_vars

\* Every completeScan returns, backed out or not: no thread is left waiting, although a
\* notification is dropped when the monitor is taken.
ScansEnd == <>(\A t \in Threads : env[t].pc \in {"done", "backedOut"})
=============================================================================

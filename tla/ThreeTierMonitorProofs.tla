----------------------- MODULE ThreeTierMonitorProofs -----------------------
(***************************************************************************)
(* Theorems about ThreeTierMonitor, for any number of threads, every build *)
(* option and every bound: the spinlock has one holder, the queues are     *)
(* exact, a notification reaches a waiting thread, the three-tier monitor  *)
(* implements Monitor, and no thread is left asleep on a free monitor.     *)
(*                                                                         *)
(* Mutual exclusion of the spinlock is not inductive by itself: it needs   *)
(* to know where in the code a thread can be while monitor->owner names it *)
(* (OwnerPlaces), and that a waiting thread has an entry count to restore  *)
(* (SavedCount), because the restored count is what keeps an owner's count *)
(* positive: IInv.                                                         *)
(*                                                                         *)
(* The inductive invariant QInv is IInv and the exact queues, with what    *)
(* holds them together: the place of a thread and its flags decide which   *)
(* queue it is on (PlaceInv, FlagInv), the wait numbers grow along the     *)
(* queues (NumberInv), whoever is at a place under the mutex has it        *)
(* (MutexInv), and spinThreads counts the threads that spin (SpinInv).     *)
(***************************************************************************)
EXTENDS ThreeTierMonitor, FiniteSetTheorems, WellFoundedInduction, TLAPS

-----------------------------------------------------------------------------
(* Mutual exclusion of the spinlock. *)

\* The part of TypeOK that the argument needs.
LockType ==
    /\ spinlockState \in {"UNOWNED", "OWNED", "EXCEEDED"}
    /\ owner \in Threads \cup {NoThread} /\ count \in Nat
    /\ pc \in [Threads -> Places] /\ op \in [Threads -> Ops]
    /\ saved \in [Threads -> Nat]

\* A server thread runs interruptServer and nothing else.
ServerPlaces ==
    \A s \in Servers : pc[s] \notin {"idle", "iGot", "iBlocked"} /\ op[s] \in {"none", "interruptServer"}

\* monitor->owner names a thread between the step that takes the spinlock and
\* the step that prepares to release it, in between calls, and while it
\* interrupts a thread blocked on the monitor.
OwnerPlaces ==
    \A t \in Threads :
        /\ owner = t => pc[t] \in {"idle", "post", "iGot", "sGot", "iBlocked"}
        /\ pc[t] \in {"post", "iGot", "sGot"} => owner = t

SavedCount == \A t \in Threads : op[t] = "wait" => saved[t] > 0

IInv == LockType /\ ServerPlaces /\ OwnerPlaces /\ SavedCount /\ SpinlockHasOneHolder

-----------------------------------------------------------------------------
(* What a step of thread t can do to the spinlock: four things. *)

Held == {"spun", "post", "iGot", "sGot", "exSwap", "wLock"}

StepType ==
    /\ pc' \in [Threads -> Places] /\ op' \in [Threads -> Ops] /\ saved' \in [Threads -> Nat]
    /\ ServerPlaces'

\* t neither has the spinlock nor gets it; it may mark it EXCEEDED, and give a
\* new interruptServer its orders.
StaysOut(t) ==
    /\ StepType
    /\ owner # t /\ owner' = owner /\ count' = count
    /\ pc[t] \notin Held /\ pc'[t] \notin Held
    /\ spinlockState' \in {spinlockState, "EXCEEDED"}
    /\ spinlockState = "UNOWNED" => spinlockState' = "UNOWNED"
    /\ \A u \in Threads \ {t} : pc'[u] = pc[u] \/ (pc[u] = "unborn" /\ pc'[u] = "born")
    /\ \A u \in Threads : op'[u] = "wait" => op[u] = "wait" /\ saved'[u] = saved[u]

\* t is on its way with the spinlock: it becomes, stays or ceases to be the owner.
Keeps(t) ==
    /\ StepType
    /\ t \in Holders
    /\ spinlockState' \in {spinlockState, "EXCEEDED"}
    /\ count' \in Nat
    /\ \/ owner' = t /\ count' > 0 /\ pc'[t] \in {"idle", "post", "iGot", "sGot", "iBlocked"}
       \/ owner' = NoThread /\ pc'[t] \in {"exSwap", "wLock"}
    /\ op'[t] = "wait" => saved'[t] > 0
    /\ \A u \in Threads \ {t} : pc'[u] = pc[u] /\ op'[u] = op[u] /\ saved'[u] = saved[u]

Takes(t) ==
    /\ StepType /\ op' = op /\ saved' = saved
    /\ spinlockState = "UNOWNED" /\ spinlockState' \in {"OWNED", "EXCEEDED"}
    /\ \/ owner' = owner /\ pc'[t] = "spun"
       \/ owner' = t /\ count' = 1 /\ pc'[t] = "post"
    /\ count' \in Nat
    /\ \A u \in Threads \ {t} : pc'[u] = pc[u]

Releases(t) ==
    /\ StepType
    /\ pc[t] \in {"exSwap", "wLock"} /\ pc'[t] \notin Held
    /\ spinlockState' = "UNOWNED" /\ owner' = owner /\ count' = count
    /\ op'[t] = "wait" => saved'[t] > 0
    /\ \A u \in Threads \ {t} : pc'[u] = pc[u] /\ op'[u] = op[u] /\ saved'[u] = saved[u]

LEMMA StaysOutIInv == ASSUME NEW t \in Threads, IInv, StaysOut(t) PROVE IInv'
<1>1. Holders' = Holders
  BY DEF Holders, StaysOut, Held
<1>2. SpinlockHasOneHolder'
  BY <1>1 DEF IInv, SpinlockHasOneHolder, StaysOut
<1>3. OwnerPlaces' /\ SavedCount' /\ LockType' /\ ServerPlaces'
  BY DEF IInv, OwnerPlaces, SavedCount, LockType, StaysOut, StepType, Held
<1> QED BY <1>2, <1>3 DEF IInv

LEMMA OnlyHolder ==
    ASSUME NEW t \in Threads, IInv, t \in Holders
    PROVE  /\ spinlockState # "UNOWNED" /\ owner \in {t, NoThread}
           /\ \A u \in Threads \ {t} : pc[u] \notin Held
  BY DEF IInv, LockType, SpinlockHasOneHolder, Holders, Held

LEMMA KeepsIInv == ASSUME NEW t \in Threads, IInv, Keeps(t) PROVE IInv'
<1>1. spinlockState # "UNOWNED" /\ \A u \in Threads \ {t} : pc[u] \notin Held
  BY OnlyHolder DEF Keeps
<1>2. Holders' = {t}
  BY <1>1, ThreadsAssumption DEF Holders, Held, Keeps
<1>3. SpinlockHasOneHolder'
  BY <1>1, <1>2, ThreadsAssumption DEF SpinlockHasOneHolder, Keeps
<1>4. OwnerPlaces' /\ SavedCount' /\ LockType' /\ ServerPlaces'
  BY <1>1, ThreadsAssumption DEF IInv, OwnerPlaces, SavedCount, LockType, Keeps, StepType, Held
<1> QED BY <1>3, <1>4 DEF IInv

LEMMA TakesIInv == ASSUME NEW t \in Threads, IInv, Takes(t) PROVE IInv'
<1>1. Holders = {} /\ owner = NoThread
  BY DEF IInv, LockType, SpinlockHasOneHolder, Holders, Takes
<1>2. Holders' = {t}
  BY <1>1, ThreadsAssumption DEF Holders, Takes
<1>3. SpinlockHasOneHolder'
  BY <1>1, <1>2, ThreadsAssumption DEF SpinlockHasOneHolder, Takes
<1>4. OwnerPlaces' /\ SavedCount' /\ LockType' /\ ServerPlaces'
  BY <1>1, ThreadsAssumption DEF IInv, OwnerPlaces, SavedCount, LockType, Holders, Takes, StepType
<1> QED BY <1>3, <1>4 DEF IInv

LEMMA ReleasesIInv == ASSUME NEW t \in Threads, IInv, Releases(t) PROVE IInv'
<1>1. owner = NoThread /\ \A u \in Threads \ {t} : pc[u] \notin Held
  <2>1. t \in Holders /\ owner # t
    BY DEF Holders, IInv, OwnerPlaces, Releases
  <2> QED BY <2>1, OnlyHolder
<1>2. Holders' = {}
  BY <1>1, ThreadsAssumption DEF Holders, Releases, Held
<1>3. SpinlockHasOneHolder'
  BY <1>1, <1>2, ThreadsAssumption DEF SpinlockHasOneHolder, Releases
<1>4. OwnerPlaces' /\ SavedCount' /\ LockType' /\ ServerPlaces'
  BY <1>1, ThreadsAssumption DEF IInv, OwnerPlaces, SavedCount, LockType, Releases, StepType, Held
<1> QED BY <1>3, <1>4 DEF IInv

\* A step that touches none of it.
Untouched == UNCHANGED <<spinlockState, owner, count, pc, op, saved>>

LEMMA UntouchedIInv == IInv /\ Untouched => IInv'
<1> SUFFICES ASSUME IInv, Untouched PROVE IInv'
  OBVIOUS
<1>1. Holders' = Holders
  BY DEF Holders, Untouched
<1> QED BY <1>1 DEF IInv, LockType, ServerPlaces, OwnerPlaces, SavedCount, SpinlockHasOneHolder, Untouched

-----------------------------------------------------------------------------
(* Every action does one of them. *)

LEMMA ReturnType ==
    ASSUME LockType, ServerPlaces, NEW t \in Threads, Return(t)
    PROVE  /\ StepType
           /\ pc'[t] \in {"idle", "unborn"} /\ op'[t] = "none"
           /\ t \in Callers => pc'[t] = "idle"
           /\ \A u \in Threads \ {t} : pc'[u] = pc[u] /\ op'[u] = op[u] /\ saved'[u] = saved[u]
  BY ThreadsAssumption DEF LockType, ServerPlaces, Return, Goto, Places, Ops, Threads, StepType

\* omrthread_spinlock_acquire, omrthread_monitor_try_enter and the first half of
\* interrupt_waiting_thread.
LEMMA SpinIInv ==
    ASSUME IInv, NEW t \in Threads,
           SpinBound(t) \/ SpinAdd(t) \/ Spin(t) \/ Acquired(t) \/ NotAcquired(t)
    PROVE  StaysOut(t) \/ Keeps(t) \/ Takes(t)
<1>0. LockType /\ ServerPlaces /\ OwnerPlaces /\ SavedCount
  BY DEF IInv
<1> USE DEF LockType, ServerPlaces, Goto, Places, Ops, StepType, Held, Threads
<1>1. CASE SpinBound(t) \/ SpinAdd(t)
  BY <1>0, <1>1 DEF SpinBound, SpinAdd, lockVars, callVars, spinVars, OwnerPlaces, StaysOut
<1>2. CASE Spin(t)
  <2>1. CASE CompareExchange /\ pc' = [pc EXCEPT ![t] = "spun"]
    BY <1>0, <1>2, <2>1 DEF Spin, CompareExchange, callVars, Takes
  <2>2. CASE spinlockState' = spinlockState /\ pc' = [pc EXCEPT ![t] = "unspun"]
    BY <1>0, <1>2, <2>2 DEF Spin, callVars, OwnerPlaces, StaysOut
  <2> QED BY <1>2, <2>1, <2>2 DEF Spin
<1>3. CASE Acquired(t)
  <2>1. t \in Holders /\ owner' = t /\ count' = 1 /\ spinlockState' = spinlockState
    BY <1>3 DEF Acquired, Holders, NowOwnedBy
  <2>2. CASE Return(t) /\ op[t] = "try_enter"
    BY <1>0, <2>1, <2>2, ReturnType DEF Keeps
  <2>3. CASE Entering(t) /\ pc' = [pc EXCEPT ![t] = "post"] /\ UNCHANGED callVars
    BY <1>0, <2>1, <2>3 DEF callVars, SavedCount, Keeps
  <2>4. CASE op[t] = "interrupt" /\ pc' = [pc EXCEPT ![t] = "iGot"] /\ UNCHANGED callVars
    BY <1>0, <2>1, <2>4 DEF callVars, SavedCount, Keeps
  <2> QED BY <1>3, <2>2, <2>3, <2>4 DEF Acquired
<1>4. CASE NotAcquired(t)
  <2>1. CASE Return(t)
    BY <1>0, <1>4, <2>1, ReturnType DEF NotAcquired, lockVars, OwnerPlaces, StaysOut
  <2>2. CASE pc' = [pc EXCEPT ![t] = "mlock"] /\ UNCHANGED callVars
    BY <1>0, <1>4, <2>2 DEF NotAcquired, lockVars, callVars, OwnerPlaces, StaysOut
  <2>3. CASE op[t] = "interrupt"
    BY <1>0, <1>4, <2>3, ThreadsAssumption
    DEF NotAcquired, lockVars, OwnerPlaces, StaysOut, Entering, Return
  <2> QED BY <1>4, <2>1, <2>2, <2>3 DEF NotAcquired
<1> QED BY <1>1, <1>2, <1>3, <1>4

\* The rest of monitor_enter_three_tier.
LEMMA EnterIInv ==
    ASSUME IInv, NEW t \in Threads, EnterSlowly(t) \/ Block(t) \/ Unblock(t) \/ EnterDone(t)
    PROVE  StaysOut(t) \/ Keeps(t) \/ Takes(t)
<1>0. LockType /\ ServerPlaces /\ OwnerPlaces /\ SavedCount
  BY DEF IInv
<1> USE DEF LockType, ServerPlaces, Goto, Places, Ops, StepType, Held, Threads
<1>1. CASE EnterSlowly(t)
  <2>1. CASE FoundUnowned
    BY <1>0, <1>1, <2>1 DEF EnterSlowly, FoundUnowned, NowOwnedBy, callVars, Takes
  <2>2. CASE ~FoundUnowned
    BY <1>0, <1>1, <2>2 DEF EnterSlowly, FoundUnowned, callVars, OwnerPlaces, StaysOut
  <2> QED BY <2>1, <2>2
<1>2. CASE Block(t) \/ Unblock(t)
  <2>1. CASE Return(t)
    BY <1>0, <1>2, <2>1, ReturnType DEF Block, Unblock, lockVars, OwnerPlaces, StaysOut
  <2>2. CASE (\E place \in {"blocked", "bound"} : pc' = [pc EXCEPT ![t] = place]) /\ UNCHANGED callVars
    BY <1>0, <1>2, <2>2 DEF Block, Unblock, lockVars, callVars, OwnerPlaces, StaysOut
  <2> QED BY <1>2, <2>1, <2>2 DEF Block, Unblock
<1>3. CASE EnterDone(t)
  <2>1. t \in Holders /\ owner = t /\ count > 0 /\ spinlockState' = spinlockState
    BY <1>0, <1>3, ThreadsAssumption DEF EnterDone, Holders, OwnerPlaces, IInv, SpinlockHasOneHolder
  <2>2. CASE /\ UNCHANGED callVars
             /\ \/ owner' = NoThread /\ count' = 0 /\ pc' = [pc EXCEPT ![t] = "exSwap"]
                \/ UNCHANGED <<owner, count>> /\ pc' = [pc EXCEPT ![t] = "sGot"]
    BY <1>0, <2>1, <2>2 DEF callVars, SavedCount, Keeps
  <2>3. CASE Return(t) /\ op[t] \in {"enter", "wait"} /\ owner' = owner /\ count' = RestoredCount(t)
    <3>1. count' \in Nat /\ count' > 0
      BY <1>0, <2>1, <2>3 DEF RestoredCount, SavedCount
    <3> QED BY <1>0, <2>1, <2>3, <3>1, ReturnType DEF Keeps
  <2> QED BY <1>3, <2>2, <2>3 DEF EnterDone
<1> QED BY <1>1, <1>2, <1>3

\* omrthread_monitor_enter and _try_enter up to the spinlock, recursive entry,
\* and the beginning of monitor_exit and monitor_wait.
LEMMA CallIInv ==
    ASSUME IInv, NEW t \in Threads,
           EnterRecursively(t) \/ Enter(t) \/ TryEnter(t) \/ Exit(t) \/ Wait(t)
    PROVE  StaysOut(t) \/ Keeps(t) \/ Untouched
<1>0. LockType /\ ServerPlaces /\ OwnerPlaces /\ SavedCount /\ (owner = t => t \in Holders /\ count > 0)
  BY ThreadsAssumption DEF IInv, SpinlockHasOneHolder, Holders
<1> USE DEF LockType, ServerPlaces, Goto, Places, Ops, StepType, Held, Threads
<1>1. CASE EnterRecursively(t)
  BY <1>0, <1>1 DEF EnterRecursively, Idle, callVars, SavedCount, Keeps
<1>2. CASE Enter(t) \/ TryEnter(t)
  BY <1>0, <1>2 DEF Enter, TryEnter, Idle, BeginCall, lockVars, StaysOut
<1>3. CASE Exit(t)
  <2>1. CASE count = 1
    BY <1>0, <1>3, <2>1 DEF Exit, Idle, BeginCall, Keeps
  <2>2. CASE count # 1
    BY <1>0, <1>3, <2>2 DEF Exit, Idle, SavedCount, Keeps
  <2> QED BY <2>1, <2>2
<1>4. CASE Wait(t)
  <2>1. CASE UNCHANGED <<owner, count, pc, op, saved>>
    BY <1>4, <2>1 DEF Wait, Untouched
  <2>2. CASE /\ saved' = [saved EXCEPT ![t] = count] /\ owner' = NoThread /\ count' = 0
             /\ op' = [op EXCEPT ![t] = "wait"] /\ pc' = [pc EXCEPT ![t] = "wLock"]
    BY <1>0, <1>4, <2>2 DEF Wait, Keeps
  <2> QED BY <1>4, <2>1, <2>2 DEF Wait, WaitNot, BeginCall
<1> QED BY <1>1, <1>2, <1>3, <1>4

\* The rest of monitor_exit, monitor_wait and monitor_notify.
LEMMA WaitIInv ==
    ASSUME IInv, NEW t \in Threads,
           \/ ExitSwap(t) \/ ExitWake(t) \/ WaitRelease(t) \/ WaitEnqueue(t)
           \/ WaitEnds(t) \/ Resume(t) \/ Notify(t)
    PROVE  StaysOut(t) \/ Keeps(t) \/ Releases(t)
<1>0. LockType /\ ServerPlaces /\ OwnerPlaces /\ SavedCount /\ (owner = t => t \in Holders /\ count > 0)
  BY ThreadsAssumption DEF IInv, SpinlockHasOneHolder, Holders
<1> USE DEF LockType, ServerPlaces, Goto, Places, Ops, StepType, Held, Threads
<1>1. CASE ExitSwap(t)
  <2>1. CASE Return(t)
    BY <1>0, <1>1, <2>1, ReturnType DEF ExitSwap, Releases
  <2>2. CASE pc' = [pc EXCEPT ![t] = "exLock"] /\ UNCHANGED callVars
    BY <1>0, <1>1, <2>2 DEF ExitSwap, callVars, SavedCount, Releases
  <2> QED BY <1>1, <2>1, <2>2 DEF ExitSwap
<1>2. CASE ExitWake(t)
  BY <1>0, <1>2, ReturnType DEF ExitWake, lockVars, OwnerPlaces, StaysOut
<1>3. CASE WaitRelease(t)
  BY <1>0, <1>3 DEF WaitRelease, callVars, SavedCount, Releases
<1>4. CASE WaitEnqueue(t) \/ WaitEnds(t)
  BY <1>0, <1>4 DEF WaitEnqueue, WaitEnds, lockVars, callVars, OwnerPlaces, StaysOut
<1>5. CASE Resume(t)
  <2>1. \E place \in {"waiting", "bound"} : pc' = [pc EXCEPT ![t] = place]
    BY <1>5 DEF Resume
  <2>2. pc[t] \in {"wakeup", "timeout"} /\ UNCHANGED <<lockVars, callVars>>
    BY <1>5 DEF Resume
  <2> QED BY <1>0, <2>1, <2>2 DEF lockVars, callVars, OwnerPlaces, StaysOut
<1>6. CASE Notify(t)
  <2>1. spinlockState' \in {spinlockState, "EXCEEDED"}
    BY <1>6 DEF Notify, NotifyThreeTier, NotifyOriginal
  <2>2. owner = t /\ pc[t] = "idle" /\ UNCHANGED <<owner, count, pc, callVars>>
    BY <1>6 DEF Notify
  <2> QED BY <1>0, <2>1, <2>2 DEF callVars, SavedCount, Keeps
<1> QED BY <1>1, <1>2, <1>3, <1>4, <1>5, <1>6

\* omrthread_interrupt and its kin, and interruptServer.
LEMMA InterruptIInv ==
    ASSUME IInv, NEW t \in Threads,
           \/ InterruptBlocked(t) \/ InterruptWaiting(t) \/ ServerStart(t) \/ ServerInterrupts(t)
           \/ ClearInterrupted(t) \/ SpuriousWakeup(t)
           \/ \E u \in Callers \ {t}, f \in InterruptKinds : Interrupt(t, u, f)
    PROVE  StaysOut(t) \/ Keeps(t) \/ Untouched
<1>0. /\ LockType /\ ServerPlaces /\ OwnerPlaces /\ SavedCount
      /\ owner = t => t \in Holders /\ count > 0
  BY ThreadsAssumption DEF IInv, SpinlockHasOneHolder, Holders
<1> USE DEF LockType, ServerPlaces, Goto, Places, Ops, StepType, Held, Threads
<1>1. CASE InterruptBlocked(t)
  <2>1. CASE owner = t
    BY <1>0, <1>1, <2>1, ReturnType DEF InterruptBlocked, lockVars, Keeps
  <2>2. CASE owner # t
    BY <1>0, <1>1, <2>2, ReturnType DEF InterruptBlocked, lockVars, StaysOut
  <2> QED BY <2>1, <2>2
<1>2. CASE InterruptWaiting(t)
  <2>1. CASE count = 1
    BY <1>0, <1>2, <2>1 DEF InterruptWaiting, OwnerPlaces, SavedCount, callVars, Keeps
  <2>2. CASE count # 1
    BY <1>0, <1>2, <2>2, ReturnType DEF InterruptWaiting, OwnerPlaces, Keeps
  <2> QED BY <2>1, <2>2
<1>3. CASE ServerStart(t)
  <2>1. CASE Return(t)
    BY <1>0, <1>3, <2>1, ReturnType DEF ServerStart, lockVars, OwnerPlaces, StaysOut
  <2>2. CASE pc' = [pc EXCEPT ![t] = "bound"] /\ UNCHANGED callVars
    BY <1>0, <1>3, <2>2 DEF ServerStart, lockVars, callVars, OwnerPlaces, StaysOut
  <2> QED BY <1>3, <2>1, <2>2 DEF ServerStart
<1>4. CASE ServerInterrupts(t)
  <2>1. /\ pc[t] = "sGot" /\ owner' = NoThread /\ count' = 0
        /\ pc' = [pc EXCEPT ![t] = "exSwap"] /\ UNCHANGED <<spinlockState, callVars>>
    BY <1>4 DEF ServerInterrupts
  <2> QED BY <1>0, <2>1 DEF callVars, OwnerPlaces, SavedCount, Keeps
<1>5. CASE ClearInterrupted(t) \/ SpuriousWakeup(t)
  BY <1>5 DEF ClearInterrupted, SpuriousWakeup, lockVars, callVars, Untouched
<1>6. ASSUME NEW u \in Callers \ {t}, NEW f \in InterruptKinds, Interrupt(t, u, f)
      PROVE  StaysOut(t) \/ Keeps(t) \/ Untouched
  <2>0. pc[t] = "idle" /\ UNCHANGED <<spinlockState, owner, saved>>
    BY <1>6 DEF Interrupt
  <2>1. CASE owner = t /\ count' = count + 1 /\ BeginInterrupt(t, u, "iGot")
    BY <1>0, <2>0, <2>1 DEF BeginInterrupt, Keeps
  <2>2. CASE owner # t /\ count' = count /\ \E place \in {"bound", "spin"} : BeginInterrupt(t, u, place)
    BY <1>0, <2>0, <2>2 DEF BeginInterrupt, StaysOut
  <2>3. CASE count' = count /\ BeginInterrupt(t, u, "iBlocked")
    <3>1. CASE owner = t
      BY <1>0, <2>0, <2>3, <3>1 DEF BeginInterrupt, Keeps
    <3>2. CASE owner # t
      BY <1>0, <2>0, <2>3, <3>2 DEF BeginInterrupt, StaysOut
    <3> QED BY <3>1, <3>2
  <2>4. CASE UNCHANGED <<count, pc, op>>
    BY <2>0, <2>4 DEF Untouched
  <2> QED BY <1>6, <2>1, <2>2, <2>3, <2>4 DEF Interrupt
<1> QED BY <1>1, <1>2, <1>3, <1>4, <1>5, <1>6

-----------------------------------------------------------------------------

LEMMA InitIInv == Init => IInv
<1> SUFFICES ASSUME Init PROVE IInv
  OBVIOUS
<1>1. Holders = {}
  BY ThreadsAssumption DEF Init, Holders
<1>2. SpinlockHasOneHolder
  BY <1>1 DEF Init, SpinlockHasOneHolder
<1> QED BY <1>2, ThreadsAssumption
        DEF Init, IInv, LockType, ServerPlaces, OwnerPlaces, SavedCount, Places, Ops, Threads

\* What a thread can do: the disjuncts of Next.
Acts(t) ==
    \/ EnterRecursively(t) \/ Enter(t) \/ TryEnter(t) \/ Exit(t) \/ Wait(t) \/ Notify(t)
    \/ ClearInterrupted(t) \/ SpuriousWakeup(t)
    \/ \E u \in Callers \ {t}, f \in InterruptKinds : Interrupt(t, u, f)
    \/ Step(t)

LEMMA ActsIInv ==
    ASSUME IInv, NEW t \in Threads, Acts(t)
    PROVE  IInv' /\ (StaysOut(t) \/ Keeps(t) \/ Takes(t) \/ Releases(t) \/ Untouched)
<1>1. StaysOut(t) \/ Keeps(t) \/ Takes(t) \/ Releases(t) \/ Untouched
  BY SpinIInv, EnterIInv, CallIInv, WaitIInv, InterruptIInv DEF Acts, Step
<1> QED BY <1>1, StaysOutIInv, KeepsIInv, TakesIInv, ReleasesIInv, UntouchedIInv

LEMMA NextIInv == IInv /\ [Next]_vars => IInv'
<1> SUFFICES ASSUME IInv, [Next]_vars PROVE IInv'
  OBVIOUS
<1>1. CASE UNCHANGED vars
  BY <1>1, UntouchedIInv DEF vars, lockVars, callVars, Untouched
<1>2. CASE Next
  BY <1>2, ActsIInv DEF Next, Acts
<1> QED BY <1>1, <1>2

\* However many threads spin on, block on, wait on or interrupt each other at a
\* monitor built with OMR_THR_THREE_TIER_LOCKING, with whatever limits on
\* spinning and waking: one thread at a time holds the spinlock, and the state
\* is UNOWNED exactly when none does.
THEOREM MutualExclusion == Spec => []SpinlockHasOneHolder
<1>1. IInv => SpinlockHasOneHolder
  BY DEF IInv
<1> QED BY <1>1, InitIInv, NextIInv, PTL DEF Spec

-----------------------------------------------------------------------------
(* Queues: sequences of threads without repetition. *)

Queue(q) == q \in Seq(Threads) /\ IsInjective(q)
Increasing(q, f) == \A i, j \in DOMAIN q : i < j => f[q[i]] < f[q[j]]

LEMMA InQueue ==
    ASSUME NEW q \in Seq(Threads)
    PROVE  /\ Len(q) \in Nat /\ DOMAIN q = 1..Len(q)
           /\ \A i \in 1..Len(q) : q[i] \in Threads /\ q[i] \in Range(q)
           /\ Range(q) \subseteq Threads
           /\ \A u : u \in Range(q) <=> \E i \in 1..Len(q) : q[i] = u
  BY DEF Range

LEMMA EmptyQueue == Queue(<<>>) /\ Range(<<>>) = {} /\ \A f : Increasing(<<>>, f)
  BY DEF Queue, IsInjective, Range, Increasing

LEMMA QueueEnqueue ==
    ASSUME NEW q, Queue(q), NEW t \in Threads, t \notin Range(q)
    PROVE  /\ Queue(Enqueue(q, t)) /\ Range(Enqueue(q, t)) = Range(q) \cup {t}
           /\ \A f : Increasing(q, f) /\ (\A u \in Range(q) : f[u] < f[t]) => Increasing(Enqueue(q, t), f)
<1> DEFINE r == Append(q, t)
<1>1. q \in Seq(Threads) /\ r \in Seq(Threads) /\ Len(r) = Len(q) + 1 /\ r[Len(q) + 1] = t
      /\ \A i \in 1..Len(q) : r[i] = q[i]
  BY DEF Queue
<1>2. Range(r) = Range(q) \cup {t}
  <2>1. ASSUME NEW u \in Range(r) PROVE u \in Range(q) \cup {t}
    <3>1. PICK i \in 1..Len(r) : r[i] = u BY <1>1, InQueue
    <3>2. i \in 1..Len(q) \/ i = Len(q) + 1 BY <1>1
    <3> QED BY <1>1, <3>1, <3>2, InQueue
  <2>2. ASSUME NEW u \in Range(q) \cup {t} PROVE u \in Range(r)
    <3>1. \E i \in 1..Len(r) : r[i] = u BY <1>1, InQueue
    <3> QED BY <1>1, <3>1, InQueue
  <2> QED BY <2>1, <2>2
<1>3. IsInjective(r) BY <1>1, InQueue DEF Queue, IsInjective
<1>4. \A f : Increasing(q, f) /\ (\A u \in Range(q) : f[u] < f[t]) => Increasing(r, f)
  BY <1>1, InQueue DEF Increasing
<1> QED BY <1>1, <1>2, <1>3, <1>4 DEF Queue, Enqueue

LEMMA QueueDequeue ==
    ASSUME NEW q, Queue(q), NEW t
    PROVE  /\ Queue(Dequeue(q, t)) /\ Range(Dequeue(q, t)) = Range(q) \ {t}
           /\ \A f : Increasing(q, f) => Increasing(Dequeue(q, t), f)
<1>1. CASE t \notin Range(q) BY <1>1 DEF Dequeue
<1>2. CASE t \in Range(q)
  <2> DEFINE p == CHOOSE i \in DOMAIN q : q[i] = t
             a == SubSeq(q, 1, p - 1)
             b == SubSeq(q, p + 1, Len(q))
             r == a \o b
             k(i) == IF i < p THEN i ELSE i + 1
  <2>1. q \in Seq(Threads) BY DEF Queue
  <2>2. p \in 1..Len(q) /\ q[p] = t BY <1>2, <2>1, InQueue
  <2> HIDE DEF p
  <2>3. a \in Seq(Threads) /\ Len(a) = p - 1 /\ \A i \in 1..(p - 1) : a[i] = q[i]
    BY <2>1, <2>2
  <2>4. b \in Seq(Threads) /\ Len(b) = Len(q) - p /\ \A i \in 1..(Len(q) - p) : b[i] = q[p + i]
    BY <2>1, <2>2
  <2> HIDE DEF a, b
  <2>5. r \in Seq(Threads) /\ Len(r) = Len(q) - 1 /\ \A i \in 1..Len(r) : r[i] = q[k(i)]
    <3>1. r \in Seq(Threads) /\ Len(r) = Len(q) - 1
      <4>1. r \in Seq(Threads) /\ Len(r) = Len(a) + Len(b) BY <2>3, <2>4
      <4>2. Len(q) \in Nat /\ p \in Int BY <2>1, <2>2
      <4> QED BY <2>3, <2>4, <4>1, <4>2
    <3>2. ASSUME NEW i \in 1..Len(r) PROVE r[i] = q[k(i)]
      <4>1. i \in 1..(Len(a) + Len(b)) BY <2>1, <2>2, <2>3, <2>4, <3>1
      <4>2. r[i] = IF i <= Len(a) THEN a[i] ELSE b[i - Len(a)] BY <2>3, <2>4, <4>1
      <4>3. CASE i < p BY <2>1, <2>2, <2>3, <3>1, <4>2, <4>3
      <4>4. CASE ~(i < p)
        <5>1. i - (p - 1) \in 1..(Len(q) - p) /\ p + (i - (p - 1)) = i + 1
          BY <2>1, <2>2, <3>1, <4>4
        <5>2. r[i] = b[i - (p - 1)] BY <2>1, <2>2, <2>3, <3>1, <4>2, <4>4
        <5> QED BY <2>4, <4>4, <5>1, <5>2
      <4> QED BY <4>3, <4>4
    <3> QED BY <3>1, <3>2
  <2> HIDE DEF r
  <2>6. /\ \A i \in 1..Len(r) : k(i) \in 1..Len(q) /\ k(i) # p
        /\ \A i, j \in 1..Len(r) : i < j => k(i) < k(j)
        /\ \A j \in 1..Len(q) : j # p => \E i \in 1..Len(r) : k(i) = j
    <3>1. \A j \in 1..Len(q) : j # p => \E i \in 1..Len(r) : k(i) = j
      <4> SUFFICES ASSUME NEW j \in 1..Len(q), j # p PROVE \E i \in 1..Len(r) : k(i) = j OBVIOUS
      <4>1. CASE j < p BY <2>1, <2>2, <2>5, <4>1
      <4>2. CASE j > p
        <5>1. j - 1 \in 1..Len(r) /\ k(j - 1) = j BY <2>1, <2>2, <2>5, <4>2
        <5> QED BY <5>1
      <4> QED BY <2>1, <2>2, <4>1, <4>2
    <3> QED BY <2>1, <2>2, <2>5, <3>1
  <2> HIDE DEF k
  <2>7. Range(r) = Range(q) \ {t}
    <3>1. ASSUME NEW u \in Range(r) PROVE u \in Range(q) \ {t}
      <4>1. PICK i \in 1..Len(r) : r[i] = u BY <2>5, InQueue
      <4>2. k(i) \in 1..Len(q) /\ k(i) # p /\ q[k(i)] = u BY <2>5, <2>6, <4>1
      <4>3. q[k(i)] # q[p] BY <2>1, <2>2, <4>2, InQueue DEF Queue, IsInjective
      <4> QED BY <2>1, <2>2, <4>2, <4>3, InQueue
    <3>2. ASSUME NEW u \in Range(q) \ {t} PROVE u \in Range(r)
      <4>1. PICK j \in 1..Len(q) : q[j] = u BY <2>1, InQueue
      <4>2. PICK i \in 1..Len(r) : k(i) = j BY <2>2, <2>6, <4>1
      <4>3. r[i] = u BY <2>5, <4>1, <4>2
      <4> QED BY <2>5, <4>3, InQueue
    <3> QED BY <3>1, <3>2
  <2>8. IsInjective(r)
    <3> SUFFICES ASSUME NEW i \in 1..Len(r), NEW j \in 1..Len(r), r[i] = r[j], i < j PROVE FALSE
      BY <2>5 DEF IsInjective
    <3>1. k(i) \in 1..Len(q) /\ k(j) \in 1..Len(q) /\ k(i) < k(j) /\ q[k(i)] = q[k(j)] BY <2>5, <2>6
    <3> QED BY <2>1, <3>1, InQueue DEF Queue, IsInjective
  <2>9. \A f : Increasing(q, f) => Increasing(r, f)
    <3> SUFFICES ASSUME NEW f, Increasing(q, f), NEW i \in 1..Len(r), NEW j \in 1..Len(r), i < j
                 PROVE  f[r[i]] < f[r[j]]
      BY <2>5, InQueue DEF Increasing
    <3>1. k(i) \in 1..Len(q) /\ k(j) \in 1..Len(q) /\ k(i) < k(j) BY <2>6
    <3>2. f[q[k(i)]] < f[q[k(j)]] BY <2>1, <3>1, InQueue DEF Increasing
    <3> QED BY <2>5, <3>2
  <2> QED BY <1>2, <2>5, <2>7, <2>8, <2>9 DEF Queue, Dequeue, RemoveAt, r, a, b, p
<1> QED BY <1>1, <1>2

LEMMA QueueConcat ==
    ASSUME NEW q, NEW r, Queue(q), Queue(r), Range(q) \cap Range(r) = {}
    PROVE  /\ Queue(q \o r) /\ Range(q \o r) = Range(q) \cup Range(r)
           /\ \A f : /\ Increasing(q, f) /\ Increasing(r, f)
                     /\ \A u \in Range(q), v \in Range(r) : f[u] < f[v]
                     => Increasing(q \o r, f)
<1> DEFINE s == q \o r
<1>1. q \in Seq(Threads) /\ r \in Seq(Threads) BY DEF Queue
<1>2. /\ s \in Seq(Threads) /\ Len(s) = Len(q) + Len(r)
      /\ \A i \in 1..Len(q) : s[i] = q[i]
      /\ \A i \in 1..Len(s) : i > Len(q) => s[i] = r[i - Len(q)] /\ i - Len(q) \in 1..Len(r)
      /\ \A i \in 1..Len(r) : s[i + Len(q)] = r[i] /\ i + Len(q) \in 1..Len(s)
  BY <1>1
<1> HIDE DEF s
<1>3. Range(s) = Range(q) \cup Range(r)
  <2>1. ASSUME NEW u \in Range(s) PROVE u \in Range(q) \cup Range(r)
    <3>1. PICK i \in 1..Len(s) : s[i] = u BY <1>2, InQueue
    <3>2. CASE i \in 1..Len(q) BY <1>1, <1>2, <3>1, <3>2, InQueue
    <3>3. CASE i > Len(q) BY <1>1, <1>2, <3>1, <3>3, InQueue
    <3> QED BY <1>1, <3>2, <3>3
  <2>2. ASSUME NEW u \in Range(q) PROVE u \in Range(s)
    <3>1. PICK i \in 1..Len(q) : q[i] = u BY <1>1, InQueue
    <3>2. i \in 1..Len(s) /\ s[i] = u BY <1>1, <1>2, <3>1
    <3> QED BY <1>2, <3>2, InQueue
  <2>3. ASSUME NEW u \in Range(r) PROVE u \in Range(s)
    <3>1. PICK i \in 1..Len(r) : r[i] = u BY <1>1, InQueue
    <3>2. i + Len(q) \in 1..Len(s) /\ s[i + Len(q)] = u BY <1>2, <3>1
    <3> QED BY <1>2, <3>2, InQueue
  <2> QED BY <2>1, <2>2, <2>3
<1>4. ASSUME NEW i \in 1..Len(s), NEW j \in 1..Len(s), i < j
      PROVE  \/ i \in 1..Len(q) /\ j \in 1..Len(q) /\ s[i] = q[i] /\ s[j] = q[j]
             \/ /\ i - Len(q) \in 1..Len(r) /\ j - Len(q) \in 1..Len(r) /\ i - Len(q) < j - Len(q)
                /\ s[i] = r[i - Len(q)] /\ s[j] = r[j - Len(q)]
             \/ s[i] \in Range(q) /\ s[j] \in Range(r)
  BY <1>1, <1>2, <1>4, InQueue
<1>5. IsInjective(s)
  <2> SUFFICES ASSUME NEW i \in 1..Len(s), NEW j \in 1..Len(s), s[i] = s[j], i < j PROVE FALSE
    BY <1>2 DEF IsInjective
  <2> QED BY <1>1, <1>4, InQueue DEF Queue, IsInjective
<1>6. ASSUME NEW f, Increasing(q, f), Increasing(r, f), \A u \in Range(q), v \in Range(r) : f[u] < f[v]
      PROVE  Increasing(s, f)
  <2> SUFFICES ASSUME NEW i \in 1..Len(s), NEW j \in 1..Len(s), i < j PROVE f[s[i]] < f[s[j]]
    BY <1>2 DEF Increasing
  <2>1. DOMAIN q = 1..Len(q) /\ DOMAIN r = 1..Len(r) BY <1>1
  <2>2. CASE i \in 1..Len(q) /\ j \in 1..Len(q) /\ s[i] = q[i] /\ s[j] = q[j]
    BY <1>6, <2>1, <2>2 DEF Increasing
  <2>3. CASE /\ i - Len(q) \in 1..Len(r) /\ j - Len(q) \in 1..Len(r) /\ i - Len(q) < j - Len(q)
             /\ s[i] = r[i - Len(q)] /\ s[j] = r[j - Len(q)]
    BY <1>6, <2>1, <2>3 DEF Increasing
  <2>4. CASE s[i] \in Range(q) /\ s[j] \in Range(r) BY <1>6, <2>4
  <2> QED BY <1>4, <2>2, <2>3, <2>4
<1> QED BY <1>2, <1>3, <1>5, <1>6 DEF Queue, s

LEMMA QueueHead ==
    ASSUME NEW q, Queue(q), q # <<>>
    PROVE  /\ Head(q) \in Threads /\ Head(q) \in Range(q)
           /\ Queue(Tail(q)) /\ Range(Tail(q)) = Range(q) \ {Head(q)}
           /\ Queue(<<Head(q)>>) /\ Range(<<Head(q)>>) = {Head(q)}
<1>1. q \in Seq(Threads) /\ Len(q) # 0 BY DEF Queue
<1>2. /\ Head(q) = q[1] /\ Tail(q) \in Seq(Threads) /\ Len(Tail(q)) = Len(q) - 1
      /\ \A i \in 1..Len(Tail(q)) : Tail(q)[i] = q[i + 1]
  BY <1>1
<1>3. Head(q) \in Threads /\ Head(q) \in Range(q) BY <1>1, <1>2, InQueue
<1>4. Range(Tail(q)) = Range(q) \ {Head(q)}
  <2>1. ASSUME NEW u \in Range(Tail(q)) PROVE u \in Range(q) \ {Head(q)}
    <3>1. PICK i \in 1..Len(Tail(q)) : Tail(q)[i] = u BY <1>2, InQueue
    <3>2. i + 1 \in 1..Len(q) /\ i + 1 # 1 /\ 1 \in 1..Len(q) /\ q[i + 1] = u BY <1>1, <1>2, <3>1
    <3>3. q[i + 1] # q[1] BY <1>1, <3>2, InQueue DEF Queue, IsInjective
    <3> QED BY <1>1, <1>2, <3>2, <3>3, InQueue
  <2>2. ASSUME NEW u, u \in Range(q), u # Head(q) PROVE u \in Range(Tail(q))
    <3>1. PICK i \in 1..Len(q) : q[i] = u BY <1>1, <2>2, InQueue
    <3>2. i - 1 \in 1..Len(Tail(q)) /\ Tail(q)[i - 1] = u BY <1>1, <1>2, <2>2, <3>1
    <3> QED BY <1>2, <3>2, InQueue
  <2> QED BY <2>1, <2>2
<1>5. IsInjective(Tail(q)) BY <1>1, <1>2, InQueue DEF Queue, IsInjective
<1>6. Queue(<<Head(q)>>) /\ Range(<<Head(q)>>) = {Head(q)} BY <1>3 DEF Queue, IsInjective, Range
<1> QED BY <1>2, <1>3, <1>4, <1>5, <1>6 DEF Queue

LEMMA QueueLast ==
    ASSUME NEW q, Queue(q), q # <<>>
    PROVE  /\ Last(q) \in Threads /\ Last(q) \in Range(q)
           /\ \A f \in [Threads -> Nat] : Increasing(q, f) => \A u \in Range(q) : f[u] <= f[Last(q)]
<1>1. q \in Seq(Threads) /\ Len(q) \in 1..Len(q) BY DEF Queue
<1>2. Last(q) = q[Len(q)] BY DEF Last
<1>3. ASSUME NEW f \in [Threads -> Nat], Increasing(q, f), NEW u \in Range(q) PROVE f[u] <= f[Last(q)]
  <2>1. PICK i \in 1..Len(q) : q[i] = u BY <1>1, InQueue
  <2>2. f[u] \in Nat /\ f[Last(q)] \in Nat BY <1>1, <1>2, <2>1, InQueue
  <2>3. CASE i = Len(q) BY <1>2, <2>1, <2>2, <2>3
  <2>4. CASE i # Len(q) BY <1>1, <1>2, <1>3, <2>1, <2>2, <2>4 DEF Increasing
  <2> QED BY <2>3, <2>4
<1> QED BY <1>1, <1>2, <1>3, InQueue

LEMMA Smallest ==
    ASSUME NEW S, S \subseteq Nat, S # {} PROVE \E m \in S : \A k \in S : m <= k
<1> DEFINE R == OpToRel(<, Nat)
<1>1. IsWellFoundedOn(R, Nat) BY NatLessThanWellFounded
<1>2. \A x, y \in Nat : y < x => <<y, x>> \in R BY DEF OpToRel
<1> HIDE DEF R
<1>3. PICK x \in S : \A y \in S : ~ (<<y, x>> \in R) BY <1>1, WFMin, Zenon
<1>4. ASSUME NEW k \in S, k < x PROVE FALSE
  <2>1. k \in Nat /\ x \in Nat OBVIOUS
  <2>2. <<k, x>> \in R BY <1>2, <1>4, <2>1
  <2> QED BY <1>3, <2>2
<1> QED BY <1>3, <1>4

-----------------------------------------------------------------------------
(* The inductive invariant, on top of IInv. *)

\* Where a thread is in its condition wait, and where it has the monitor's mutex.
InWait == {"waiting", "wakeup", "timeout"}
MutexPlaces == {"enqueue", "wEnqueue", "wakeup", "timeout"}

RestType ==
    /\ count <= MaxCount /\ saved \in [Threads -> 0..MaxCount]
    /\ mutex \in Threads \cup {NoThread} /\ globalLock \in Threads \cup {NoThread}
    /\ threadLock \in [Threads -> Threads \cup {NoThread}]
    /\ target \in [Threads -> Threads \cup {NoThread}]
    /\ interrupter \in [Threads -> Servers \cup {NoThread}]
FlagType == flags \in [Threads -> SUBSET FlagNames]
BoolType ==
    /\ abortable \in [Threads -> BOOLEAN] /\ spinning \in [Threads -> BOOLEAN]
    /\ signalled \in [Threads -> BOOLEAN] /\ canceled \in [Threads -> BOOLEAN]

\* spinThreads counts the threads that spin.
Spinning == {t \in Threads : spinning[t]}
SpinInv ==
    /\ spinThreads = Cardinality(Spinning)
    /\ \A t \in Threads : spinning[t] => pc[t] \in {"spin", "spun", "unspun"}

MutexInv == \A t \in Threads : mutex = t <=> pc[t] \in MutexPlaces

\* The function a thread is in and its place; an entry that has not returned yet counts one.
CallOf(t) ==
    /\ op[t] = "none" <=> pc[t] \in {"idle", "unborn"}
    /\ op[t] # "wait" => saved[t] = 0
    /\ pc[t] \in {"post", "sGot"} => count = 1
    /\ pc[t] \in {"mlock", "enqueue", "blocked", "post"} => Entering(t)
    /\ pc[t] = "sGot" => op[t] = "interruptServer"
    /\ pc[t] \in {"iGot", "iBlocked"} => op[t] = "interrupt"
    /\ pc[t] \in InWait \cup {"wLock", "wEnqueue"} => op[t] = "wait"
CallInv == \A t \in Threads : CallOf(t)

\* A thread is WAITING from the call of wait until it is notified or its wait ends otherwise.
FlagOf(t) ==
    /\ "NOTIFIED" \in flags[t] => pc[t] \in InWait /\ "WAITING" \notin flags[t]
    /\ "WAITING" \in flags[t] => pc[t] \in InWait \cup {"wLock", "wEnqueue"}
    /\ pc[t] \in {"wLock", "wEnqueue"} => "WAITING" \in flags[t]
    /\ FastNotify /\ pc[t] \in InWait => "WAITING" \in flags[t] \/ "NOTIFIED" \in flags[t]
FlagInv == \A t \in Threads : FlagOf(t)

\* Who is on which queue.
PlaceOf(t) ==
    /\ t \in Range(blocking) <=>
           pc[t] = "blocked" \/ (FastNotify /\ pc[t] \in InWait /\ "NOTIFIED" \in flags[t])
    /\ pc[t] \in InWait <=>
           \/ t \in Range(waiting) \/ t \in Range(notifyAllWaiting)
           \/ FastNotify /\ t \in Range(blocking) /\ "NOTIFIED" \in flags[t]
    /\ t \in Range(waiting) => t \notin Range(blocking) /\ t \notin Range(notifyAllWaiting)
    /\ t \in Range(notifyAllWaiting) => "WAITING" \notin flags[t]
PlaceInv == \A t \in Threads : PlaceOf(t)

\* The wait numbers grow along the queues, as long as notify_all uses them.
NumberInv ==
    /\ waitNumber \in [Threads -> Nat]
    /\ ~FastNotify =>
        /\ Increasing(waiting, waitNumber) /\ Increasing(notifyAllWaiting, waitNumber)
        /\ \A u \in Range(notifyAllWaiting), v \in Range(waiting) : waitNumber[u] < waitNumber[v]

QueueShape ==
    /\ Queue(blocking) /\ Queue(waiting) /\ Queue(notifyAllWaiting)
    /\ FastNotify => notifyAllWaiting = <<>>

QInv ==
    /\ IInv /\ RestType /\ FlagType /\ BoolType /\ SpinInv /\ MutexInv /\ CallInv /\ FlagInv
    /\ QueueShape /\ PlaceInv /\ NumberInv

-----------------------------------------------------------------------------
(* Every step preserves it, conjunct by conjunct. *)

LEMMA RestTypeStep ==
    ASSUME QInv, NEW t \in Threads, Acts(t)
    PROVE  RestType'
<1>0. RestType /\ count \in Nat /\ MaxCount \in Nat \ {0} /\ Callers \subseteq Threads
  BY ModeAssumption DEF QInv, IInv, LockType, Threads
<1> USE DEF lockVars, spinVars, queueVars, callVars, serverVars
<1> USE DEF RestType
<1>1. CASE EnterRecursively(t) BY <1>0, <1>1 DEF EnterRecursively, Idle
<1>2. CASE Enter(t) BY <1>0, <1>2 DEF Enter, Idle, BeginCall, Goto
<1>3. CASE TryEnter(t) BY <1>0, <1>3 DEF TryEnter, Idle, BeginCall, Goto
<1>4. CASE Exit(t) BY <1>0, <1>4 DEF Exit, Idle, BeginCall, Goto
<1>5. CASE Wait(t) BY <1>0, <1>5 DEF Wait, WaitNot, BeginCall, Goto
<1>6. CASE Notify(t) BY <1>0, <1>6 DEF Notify, NotifyOriginal, NotifyThreeTier, NotifyFlags, Signal
<1>7. CASE ClearInterrupted(t) BY <1>0, <1>7 DEF ClearInterrupted
<1>8. CASE SpuriousWakeup(t) BY <1>0, <1>8 DEF SpuriousWakeup
<1>9. ASSUME NEW u \in Callers \ {t}, NEW f \in InterruptKinds, Interrupt(t, u, f)
      PROVE  RestType'
  BY <1>0, <1>9 DEF Interrupt, BeginInterrupt, Goto, Signal
<1>10. CASE SpinBound(t) BY <1>0, <1>10 DEF SpinBound, Goto
<1>11. CASE SpinAdd(t) BY <1>0, <1>11 DEF SpinAdd, Goto
<1>12. CASE Spin(t) BY <1>0, <1>12 DEF Spin, CompareExchange, Goto
<1>13. CASE Acquired(t) BY <1>0, <1>13 DEF Acquired, StopSpinning, NowOwnedBy, Entering, Return, Goto
<1>14. CASE NotAcquired(t) BY <1>0, <1>14 DEF NotAcquired, StopSpinning, Entering, Return, Goto
<1>15. CASE EnterSlowly(t) BY <1>0, <1>15 DEF EnterSlowly, FoundUnowned, NowOwnedBy, Goto
<1>16. CASE Block(t) BY <1>0, <1>16 DEF Block, NotBlocked, Return, Goto
<1>17. CASE Unblock(t) BY <1>0, <1>17 DEF Unblock, NotBlocked, Return, Goto
<1>18. CASE EnterDone(t) BY <1>0, <1>18 DEF EnterDone, NotBlocked, RestoredCount, Return, Goto
<1>19. CASE ExitSwap(t) BY <1>0, <1>19 DEF ExitSwap, Return, Goto
<1>20. CASE ExitWake(t) BY <1>0, <1>20 DEF ExitWake, Signal, Return, Goto
<1>21. CASE WaitRelease(t) BY <1>0, <1>21 DEF WaitRelease, Signal, Goto
<1>22. CASE WaitEnqueue(t) BY <1>0, <1>22 DEF WaitEnqueue, Signal, Goto
<1>23. CASE WaitEnds(t) BY <1>0, <1>23 DEF WaitEnds, Goto
<1>24. CASE Resume(t) BY <1>0, <1>24 DEF Resume, Goto
<1>25. CASE InterruptBlocked(t) BY <1>0, <1>25 DEF InterruptBlocked, Signal, Return, Goto
<1>26. CASE InterruptWaiting(t) BY <1>0, <1>26 DEF InterruptWaiting, InterruptWake, Signal, Return, Goto
<1>27. CASE ServerStart(t) BY <1>0, <1>27 DEF ServerStart, Return, Goto
<1>28. CASE ServerInterrupts(t) BY <1>0, <1>28 DEF ServerInterrupts, InterruptWake, Signal, Goto
<1> QED
  BY <1>1, <1>2, <1>3, <1>4, <1>5, <1>6, <1>7, <1>8, <1>9, <1>10, <1>11, <1>12, <1>13, <1>14, <1>15,
     <1>16, <1>17, <1>18, <1>19, <1>20, <1>21, <1>22, <1>23, <1>24, <1>25, <1>26, <1>27, <1>28
     DEF Acts, Step

LEMMA Modes == \A call \in DOMAIN WaitModes : WaitModes[call] \subseteq {"ABORTABLE", "INTERRUPTABLE"}
  BY DEF WaitModes

\* A wait that begins, and one that finds the thread interrupted.
LEMMA WaitEffect ==
    ASSUME NEW t \in Threads, Wait(t)
    PROVE  \/ UNCHANGED <<owner, count, pc, op, abortable, saved>>
              /\ \E f \in {{}, {"INTERRUPTED"}, {"PRIORITY_INTERRUPTED"}} : flags' = [flags EXCEPT ![t] = @ \ f]
           \/ /\ owner' = NoThread /\ count' = 0 /\ saved' = [saved EXCEPT ![t] = count]
              /\ \E f \in SUBSET {"TIMER_SET", "ABORTABLE", "INTERRUPTABLE"} :
                    flags' = [flags EXCEPT ![t] = @ \cup {"WAITING"} \cup f]
              /\ op' = [op EXCEPT ![t] = "wait"] /\ pc' = [pc EXCEPT ![t] = "wLock"]
              /\ \E b \in BOOLEAN : abortable' = [abortable EXCEPT ![t] = b]
<1>1. PICK call \in Calls \cap DOMAIN WaitModes, timed \in (Calls \cap {"TIMER_SET"}) \cup {"FOREVER"} :
        LET mode == WaitModes[call] IN
        \/ (Interrupted(flags[t], mode) \/ PriorityInterrupted(flags[t], mode)) /\ WaitNot(t, mode)
        \/ /\ ~Interrupted(flags[t], mode) /\ ~PriorityInterrupted(flags[t], mode)
           /\ flags' = [flags EXCEPT ![t] = @ \cup {"WAITING"} \cup mode \cup ({timed} \ {"FOREVER"})]
           /\ saved' = [saved EXCEPT ![t] = count]
           /\ owner' = NoThread /\ count' = 0
           /\ BeginCall(t, "wait", "wLock", "ABORTABLE" \in mode)
  BY DEF Wait
<1>2. WaitModes[call] \subseteq {"ABORTABLE", "INTERRUPTABLE"} BY Modes
<1> DEFINE mode == WaitModes[call]
<1> HIDE DEF mode
<1>3. CASE WaitNot(t, mode)
  <2>1. \E f \in {{}, {"INTERRUPTED"}, {"PRIORITY_INTERRUPTED"}} : flags' = [flags EXCEPT ![t] = @ \ f]
    <3>1. CASE Interrupted(flags[t], mode) BY <1>3, <3>1 DEF WaitNot
    <3>2. CASE ~Interrupted(flags[t], mode) /\ "INTERRUPTABLE" \in mode BY <1>3, <3>2 DEF WaitNot
    <3>3. CASE ~Interrupted(flags[t], mode) /\ "INTERRUPTABLE" \notin mode
      <4>1. flags' = [flags EXCEPT ![t] = @ \ {}] BY <1>3, <3>3 DEF WaitNot
      <4> QED BY <4>1
    <3> QED BY <3>1, <3>2, <3>3
  <2> QED BY <1>3, <2>1 DEF WaitNot
<1>4. CASE /\ flags' = [flags EXCEPT ![t] = @ \cup {"WAITING"} \cup mode \cup ({timed} \ {"FOREVER"})]
           /\ saved' = [saved EXCEPT ![t] = count]
           /\ owner' = NoThread /\ count' = 0
           /\ BeginCall(t, "wait", "wLock", "ABORTABLE" \in mode)
  <2> DEFINE f == mode \cup ({timed} \ {"FOREVER"})
             b == "ABORTABLE" \in mode
  <2>1. f \in SUBSET {"TIMER_SET", "ABORTABLE", "INTERRUPTABLE"} BY <1>2 DEF mode
  <2>2. flags' = [flags EXCEPT ![t] = @ \cup {"WAITING"} \cup f]
    <3>1. flags[t] \cup {"WAITING"} \cup mode \cup ({timed} \ {"FOREVER"}) = flags[t] \cup {"WAITING"} \cup f
      OBVIOUS
    <3> QED BY <1>4, <3>1
  <2>3. b \in BOOLEAN /\ abortable' = [abortable EXCEPT ![t] = b]
    <3>1. b \in BOOLEAN OBVIOUS
    <3>2. abortable' = [abortable EXCEPT ![t] = b] BY <1>4 DEF BeginCall
    <3> QED BY <3>1, <3>2
  <2>4. op' = [op EXCEPT ![t] = "wait"] /\ pc' = [pc EXCEPT ![t] = "wLock"] BY <1>4 DEF BeginCall, Goto
  <2> HIDE DEF f, b
  <2> QED BY <1>4, <2>1, <2>2, <2>3, <2>4
<1> QED BY <1>1, <1>3, <1>4 DEF mode

LEMMA FlagTypeStep ==
    ASSUME QInv, NEW t \in Threads, Acts(t)
    PROVE  FlagType'
<1>0. FlagType /\ InterruptKinds \subseteq FlagNames
  BY ModeAssumption DEF QInv, FlagNames
<1> USE DEF lockVars, spinVars, queueVars, callVars, serverVars
<1> USE DEF FlagType, FlagNames
<1>1. CASE EnterRecursively(t) BY <1>0, <1>1 DEF EnterRecursively, Idle
<1>2. CASE Enter(t) BY <1>0, <1>2 DEF Enter, Idle, BeginCall, Goto
<1>3. CASE TryEnter(t) BY <1>0, <1>3 DEF TryEnter, Idle, BeginCall, Goto
<1>4. CASE Exit(t) BY <1>0, <1>4 DEF Exit, Idle, BeginCall, Goto
<1>5. CASE Wait(t)
  <2>1. \/ \E f \in {{}, {"INTERRUPTED"}, {"PRIORITY_INTERRUPTED"}} : flags' = [flags EXCEPT ![t] = @ \ f]
        \/ \E f \in SUBSET {"TIMER_SET", "ABORTABLE", "INTERRUPTABLE"} :
              flags' = [flags EXCEPT ![t] = @ \cup {"WAITING"} \cup f]
    BY <1>5, WaitEffect
  <2>2. ASSUME NEW f \in {{}, {"INTERRUPTED"}, {"PRIORITY_INTERRUPTED"}}, flags' = [flags EXCEPT ![t] = @ \ f]
        PROVE  FlagType'
    BY <1>0, <2>2
  <2>3. ASSUME NEW f \in SUBSET {"TIMER_SET", "ABORTABLE", "INTERRUPTABLE"},
               flags' = [flags EXCEPT ![t] = @ \cup {"WAITING"} \cup f]
        PROVE  FlagType'
    BY <1>0, <2>3
  <2> QED BY <2>1, <2>2, <2>3
<1>6. CASE Notify(t) BY <1>0, <1>6 DEF Notify, NotifyOriginal, NotifyThreeTier, NotifyFlags, Signal
<1>7. CASE ClearInterrupted(t) BY <1>0, <1>7 DEF ClearInterrupted
<1>8. CASE SpuriousWakeup(t) BY <1>0, <1>8 DEF SpuriousWakeup
<1>9. ASSUME NEW u \in Callers \ {t}, NEW f \in InterruptKinds, Interrupt(t, u, f)
      PROVE  FlagType'
  BY <1>0, <1>9 DEF Interrupt, BeginInterrupt, Goto, Signal
<1>10. CASE SpinBound(t) BY <1>0, <1>10 DEF SpinBound, Goto
<1>11. CASE SpinAdd(t) BY <1>0, <1>11 DEF SpinAdd, Goto
<1>12. CASE Spin(t) BY <1>0, <1>12 DEF Spin, CompareExchange, Goto
<1>13. CASE Acquired(t) BY <1>0, <1>13 DEF Acquired, StopSpinning, NowOwnedBy, Entering, Return, Goto
<1>14. CASE NotAcquired(t) BY <1>0, <1>14 DEF NotAcquired, StopSpinning, Entering, Return, Goto
<1>15. CASE EnterSlowly(t) BY <1>0, <1>15 DEF EnterSlowly, FoundUnowned, NowOwnedBy, Goto
<1>16. CASE Block(t) BY <1>0, <1>16 DEF Block, NotBlocked, Return, Goto
<1>17. CASE Unblock(t) BY <1>0, <1>17 DEF Unblock, NotBlocked, Return, Goto
<1>18. CASE EnterDone(t) BY <1>0, <1>18 DEF EnterDone, NotBlocked, RestoredCount, Return, Goto
<1>19. CASE ExitSwap(t) BY <1>0, <1>19 DEF ExitSwap, Return, Goto
<1>20. CASE ExitWake(t) BY <1>0, <1>20 DEF ExitWake, Signal, Return, Goto
<1>21. CASE WaitRelease(t) BY <1>0, <1>21 DEF WaitRelease, Signal, Goto
<1>22. CASE WaitEnqueue(t) BY <1>0, <1>22 DEF WaitEnqueue, Signal, Goto
<1>23. CASE WaitEnds(t) BY <1>0, <1>23 DEF WaitEnds, Goto
<1>24. CASE Resume(t) BY <1>0, <1>24 DEF Resume, Goto
<1>25. CASE InterruptBlocked(t) BY <1>0, <1>25 DEF InterruptBlocked, Signal, Return, Goto
<1>26. CASE InterruptWaiting(t) BY <1>0, <1>26 DEF InterruptWaiting, InterruptWake, Signal, Return, Goto
<1>27. CASE ServerStart(t) BY <1>0, <1>27 DEF ServerStart, Return, Goto
<1>28. CASE ServerInterrupts(t) BY <1>0, <1>28 DEF ServerInterrupts, InterruptWake, Signal, Goto
<1> QED
  BY <1>1, <1>2, <1>3, <1>4, <1>5, <1>6, <1>7, <1>8, <1>9, <1>10, <1>11, <1>12, <1>13, <1>14, <1>15,
     <1>16, <1>17, <1>18, <1>19, <1>20, <1>21, <1>22, <1>23, <1>24, <1>25, <1>26, <1>27, <1>28
     DEF Acts, Step

LEMMA BoolTypeStep ==
    ASSUME QInv, NEW t \in Threads, Acts(t)
    PROVE  BoolType'
<1>0. BoolType BY DEF QInv
<1> USE DEF lockVars, spinVars, queueVars, callVars, serverVars
<1> USE DEF BoolType
<1>1. CASE EnterRecursively(t) BY <1>0, <1>1 DEF EnterRecursively, Idle
<1>2. CASE Enter(t) BY <1>0, <1>2 DEF Enter, Idle, BeginCall, Goto
<1>3. CASE TryEnter(t) BY <1>0, <1>3 DEF TryEnter, Idle, BeginCall, Goto
<1>4. CASE Exit(t) BY <1>0, <1>4 DEF Exit, Idle, BeginCall, Goto
<1>5. CASE Wait(t)
  <2>1. UNCHANGED <<spinVars, signalled, serverVars>> BY <1>5 DEF Wait
  <2>2. abortable' \in [Threads -> BOOLEAN] BY <1>0, <1>5, WaitEffect
  <2> QED BY <1>0, <2>1, <2>2
<1>6. CASE Notify(t) BY <1>0, <1>6 DEF Notify, NotifyOriginal, NotifyThreeTier, NotifyFlags, Signal
<1>7. CASE ClearInterrupted(t) BY <1>0, <1>7 DEF ClearInterrupted
<1>8. CASE SpuriousWakeup(t) BY <1>0, <1>8 DEF SpuriousWakeup
<1>9. ASSUME NEW u \in Callers \ {t}, NEW f \in InterruptKinds, Interrupt(t, u, f)
      PROVE  BoolType'
  BY <1>0, <1>9 DEF Interrupt, BeginInterrupt, Goto, Signal
<1>10. CASE SpinBound(t) BY <1>0, <1>10 DEF SpinBound, Goto
<1>11. CASE SpinAdd(t) BY <1>0, <1>11 DEF SpinAdd, Goto
<1>12. CASE Spin(t) BY <1>0, <1>12 DEF Spin, CompareExchange, Goto
<1>13. CASE Acquired(t) BY <1>0, <1>13 DEF Acquired, StopSpinning, NowOwnedBy, Entering, Return, Goto
<1>14. CASE NotAcquired(t) BY <1>0, <1>14 DEF NotAcquired, StopSpinning, Entering, Return, Goto
<1>15. CASE EnterSlowly(t) BY <1>0, <1>15 DEF EnterSlowly, FoundUnowned, NowOwnedBy, Goto
<1>16. CASE Block(t) BY <1>0, <1>16 DEF Block, NotBlocked, Return, Goto
<1>17. CASE Unblock(t) BY <1>0, <1>17 DEF Unblock, NotBlocked, Return, Goto
<1>18. CASE EnterDone(t) BY <1>0, <1>18 DEF EnterDone, NotBlocked, RestoredCount, Return, Goto
<1>19. CASE ExitSwap(t) BY <1>0, <1>19 DEF ExitSwap, Return, Goto
<1>20. CASE ExitWake(t) BY <1>0, <1>20 DEF ExitWake, Signal, Return, Goto
<1>21. CASE WaitRelease(t) BY <1>0, <1>21 DEF WaitRelease, Signal, Goto
<1>22. CASE WaitEnqueue(t) BY <1>0, <1>22 DEF WaitEnqueue, Signal, Goto
<1>23. CASE WaitEnds(t) BY <1>0, <1>23 DEF WaitEnds, Goto
<1>24. CASE Resume(t) BY <1>0, <1>24 DEF Resume, Goto
<1>25. CASE InterruptBlocked(t) BY <1>0, <1>25 DEF InterruptBlocked, Signal, Return, Goto
<1>26. CASE InterruptWaiting(t) BY <1>0, <1>26 DEF InterruptWaiting, InterruptWake, Signal, Return, Goto
<1>27. CASE ServerStart(t) BY <1>0, <1>27 DEF ServerStart, Return, Goto
<1>28. CASE ServerInterrupts(t) BY <1>0, <1>28 DEF ServerInterrupts, InterruptWake, Signal, Goto
<1> QED
  BY <1>1, <1>2, <1>3, <1>4, <1>5, <1>6, <1>7, <1>8, <1>9, <1>10, <1>11, <1>12, <1>13, <1>14, <1>15,
     <1>16, <1>17, <1>18, <1>19, <1>20, <1>21, <1>22, <1>23, <1>24, <1>25, <1>26, <1>27, <1>28
     DEF Acts, Step

LEMMA SpinPlaces ==
    ASSUME QInv, NEW t \in Threads, Acts(t)
    PROVE  \A u \in Threads : spinning'[u] => pc'[u] \in {"spin", "spun", "unspun"}
<1>0. /\ spinning \in [Threads -> BOOLEAN] /\ pc \in [Threads -> Places] /\ Servers \subseteq Threads
      /\ \A u \in Threads : spinning[u] => pc[u] \in {"spin", "spun", "unspun"}
  BY DEF QInv, BoolType, SpinInv, IInv, LockType, Threads
<1> USE DEF lockVars, spinVars, queueVars, callVars, serverVars
<1> SUFFICES ASSUME NEW v \in Threads, spinning'[v] PROVE pc'[v] \in {"spin", "spun", "unspun"} OBVIOUS
<1>1. CASE EnterRecursively(t) BY <1>0, <1>1 DEF EnterRecursively, Idle
<1>2. CASE Enter(t) BY <1>0, <1>2 DEF Enter, Idle, BeginCall, Goto
<1>3. CASE TryEnter(t) BY <1>0, <1>3 DEF TryEnter, Idle, BeginCall, Goto
<1>4. CASE Exit(t) BY <1>0, <1>4 DEF Exit, Idle, BeginCall, Goto
<1>5. CASE Wait(t)
  BY <1>0, <1>5, WaitEffect DEF Wait
<1>6. CASE Notify(t) BY <1>0, <1>6 DEF Notify, NotifyOriginal, NotifyThreeTier, NotifyFlags, Signal
<1>7. CASE ClearInterrupted(t) BY <1>0, <1>7 DEF ClearInterrupted
<1>8. CASE SpuriousWakeup(t) BY <1>0, <1>8 DEF SpuriousWakeup
<1>9. ASSUME NEW u \in Callers \ {t}, NEW f \in InterruptKinds, Interrupt(t, u, f)
      PROVE  pc'[v] \in {"spin", "spun", "unspun"}
  BY <1>0, <1>9 DEF Interrupt, BeginInterrupt, Goto, Signal
<1>10. CASE SpinBound(t) BY <1>0, <1>10 DEF SpinBound, Goto
<1>11. CASE SpinAdd(t) BY <1>0, <1>11 DEF SpinAdd, Goto
<1>12. CASE Spin(t) BY <1>0, <1>12 DEF Spin, CompareExchange, Goto
<1>13. CASE Acquired(t) BY <1>0, <1>13 DEF Acquired, StopSpinning, NowOwnedBy, Entering, Return, Goto
<1>14. CASE NotAcquired(t) BY <1>0, <1>14 DEF NotAcquired, StopSpinning, Entering, Return, Goto
<1>15. CASE EnterSlowly(t) BY <1>0, <1>15 DEF EnterSlowly, FoundUnowned, NowOwnedBy, Goto
<1>16. CASE Block(t) BY <1>0, <1>16 DEF Block, NotBlocked, Return, Goto
<1>17. CASE Unblock(t) BY <1>0, <1>17 DEF Unblock, NotBlocked, Return, Goto
<1>18. CASE EnterDone(t) BY <1>0, <1>18 DEF EnterDone, NotBlocked, RestoredCount, Return, Goto
<1>19. CASE ExitSwap(t) BY <1>0, <1>19 DEF ExitSwap, Return, Goto
<1>20. CASE ExitWake(t) BY <1>0, <1>20 DEF ExitWake, Signal, Return, Goto
<1>21. CASE WaitRelease(t) BY <1>0, <1>21 DEF WaitRelease, Signal, Goto
<1>22. CASE WaitEnqueue(t) BY <1>0, <1>22 DEF WaitEnqueue, Signal, Goto
<1>23. CASE WaitEnds(t) BY <1>0, <1>23 DEF WaitEnds, Goto
<1>24. CASE Resume(t) BY <1>0, <1>24 DEF Resume, Goto
<1>25. CASE InterruptBlocked(t) BY <1>0, <1>25 DEF InterruptBlocked, Signal, Return, Goto
<1>26. CASE InterruptWaiting(t) BY <1>0, <1>26 DEF InterruptWaiting, InterruptWake, Signal, Return, Goto
<1>27. CASE ServerStart(t) BY <1>0, <1>27 DEF ServerStart, Return, Goto
<1>28. CASE ServerInterrupts(t) BY <1>0, <1>28 DEF ServerInterrupts, InterruptWake, Signal, Goto
<1> QED
  BY <1>1, <1>2, <1>3, <1>4, <1>5, <1>6, <1>7, <1>8, <1>9, <1>10, <1>11, <1>12, <1>13, <1>14, <1>15,
     <1>16, <1>17, <1>18, <1>19, <1>20, <1>21, <1>22, <1>23, <1>24, <1>25, <1>26, <1>27, <1>28
     DEF Acts, Step

LEMMA SpinStep ==
    ASSUME QInv, NEW t \in Threads, Acts(t)
    PROVE  SpinInv' /\ spinThreads' \in Nat
<1>0. /\ spinning \in [Threads -> BOOLEAN] /\ spinThreads = Cardinality(Spinning)
      /\ \A u \in Threads : spinning[u] => pc[u] \in {"spin", "spun", "unspun"}
  BY DEF QInv, BoolType, SpinInv
<1>1. IsFiniteSet(Spinning) /\ Spinning \subseteq Threads /\ spinThreads \in Nat
  BY <1>0, ThreadsAssumption, FS_Subset, FS_CardinalityType DEF Spinning
<1>2. CASE UNCHANGED <<spinThreads, spinning>>
  <2>1. Spinning' = Spinning BY <1>2 DEF Spinning
  <2> QED BY <1>0, <1>1, <1>2, <2>1, SpinPlaces DEF SpinInv
<1>3. CASE SpinAdd(t)
  <2>1. t \notin Spinning /\ Spinning' = Spinning \cup {t} /\ spinThreads' = spinThreads + 1
    BY <1>0, <1>3 DEF SpinAdd, Spinning
  <2>2. Cardinality(Spinning') = Cardinality(Spinning) + 1 BY <1>1, <2>1, FS_AddElement
  <2> QED BY <1>0, <1>1, <2>1, <2>2, SpinPlaces DEF SpinInv
<1>4. CASE StopSpinning(t)
  <2>1. CASE spinning[t]
    <3>1. t \in Spinning /\ Spinning' = Spinning \ {t} /\ spinThreads' = spinThreads - 1
      BY <1>0, <1>4, <2>1 DEF StopSpinning, Spinning
    <3>2. Cardinality(Spinning') = Cardinality(Spinning) - 1 /\ Cardinality(Spinning') \in Nat
      BY <1>1, <3>1, FS_RemoveElement, FS_CardinalityType
    <3> QED BY <1>0, <1>1, <3>1, <3>2, SpinPlaces DEF SpinInv
  <2>2. CASE ~spinning[t]
    <3>1. Spinning' = Spinning /\ spinThreads' = spinThreads BY <1>0, <1>4, <2>2 DEF StopSpinning, Spinning
    <3> QED BY <1>0, <1>1, <3>1, SpinPlaces DEF SpinInv
  <2> QED BY <2>1, <2>2
<1>5. UNCHANGED <<spinThreads, spinning>> \/ SpinAdd(t) \/ StopSpinning(t)
  BY DEF spinVars, Acts, Step, EnterRecursively, Enter, TryEnter, Exit, Wait, Notify,
     ClearInterrupted, SpuriousWakeup, Interrupt, SpinBound, Spin, Acquired, NotAcquired,
     EnterSlowly, Block, Unblock, EnterDone, ExitSwap, ExitWake, WaitRelease, WaitEnqueue, WaitEnds,
     Resume, InterruptBlocked, InterruptWaiting, ServerStart, ServerInterrupts
<1> QED BY <1>2, <1>3, <1>4, <1>5

LEMMA MutexStep ==
    ASSUME QInv, NEW t \in Threads, Acts(t)
    PROVE  MutexInv'
<1>0. /\ pc \in [Threads -> Places] /\ mutex \in Threads \cup {NoThread} /\ NoThread \notin Threads
      /\ Servers \subseteq Threads /\ MutexInv
  BY ThreadsAssumption DEF QInv, RestType, IInv, LockType, Threads
<1> USE DEF lockVars, spinVars, queueVars, callVars, serverVars
<1> USE DEF MutexInv, MutexPlaces
<1>1. CASE EnterRecursively(t) BY <1>0, <1>1 DEF EnterRecursively, Idle
<1>2. CASE Enter(t) BY <1>0, <1>2 DEF Enter, Idle, BeginCall, Goto
<1>3. CASE TryEnter(t) BY <1>0, <1>3 DEF TryEnter, Idle, BeginCall, Goto
<1>4. CASE Exit(t) BY <1>0, <1>4 DEF Exit, Idle, BeginCall, Goto
<1>5. CASE Wait(t)
  BY <1>0, <1>5, WaitEffect DEF Wait
<1>6. CASE Notify(t) BY <1>0, <1>6 DEF Notify, NotifyOriginal, NotifyThreeTier, NotifyFlags, Signal
<1>7. CASE ClearInterrupted(t) BY <1>0, <1>7 DEF ClearInterrupted
<1>8. CASE SpuriousWakeup(t) BY <1>0, <1>8 DEF SpuriousWakeup
<1>9. ASSUME NEW u \in Callers \ {t}, NEW f \in InterruptKinds, Interrupt(t, u, f)
      PROVE  MutexInv'
  BY <1>0, <1>9 DEF Interrupt, BeginInterrupt, Goto, Signal
<1>10. CASE SpinBound(t) BY <1>0, <1>10 DEF SpinBound, Goto
<1>11. CASE SpinAdd(t) BY <1>0, <1>11 DEF SpinAdd, Goto
<1>12. CASE Spin(t) BY <1>0, <1>12 DEF Spin, CompareExchange, Goto
<1>13. CASE Acquired(t) BY <1>0, <1>13 DEF Acquired, StopSpinning, NowOwnedBy, Entering, Return, Goto
<1>14. CASE NotAcquired(t) BY <1>0, <1>14 DEF NotAcquired, StopSpinning, Entering, Return, Goto
<1>15. CASE EnterSlowly(t) BY <1>0, <1>15 DEF EnterSlowly, FoundUnowned, NowOwnedBy, Goto
<1>16. CASE Block(t) BY <1>0, <1>16 DEF Block, NotBlocked, Return, Goto
<1>17. CASE Unblock(t) BY <1>0, <1>17 DEF Unblock, NotBlocked, Return, Goto
<1>18. CASE EnterDone(t) BY <1>0, <1>18 DEF EnterDone, NotBlocked, RestoredCount, Return, Goto
<1>19. CASE ExitSwap(t) BY <1>0, <1>19 DEF ExitSwap, Return, Goto
<1>20. CASE ExitWake(t) BY <1>0, <1>20 DEF ExitWake, Signal, Return, Goto
<1>21. CASE WaitRelease(t) BY <1>0, <1>21 DEF WaitRelease, Signal, Goto
<1>22. CASE WaitEnqueue(t) BY <1>0, <1>22 DEF WaitEnqueue, Signal, Goto
<1>23. CASE WaitEnds(t) BY <1>0, <1>23 DEF WaitEnds, Goto
<1>24. CASE Resume(t) BY <1>0, <1>24 DEF Resume, Goto
<1>25. CASE InterruptBlocked(t) BY <1>0, <1>25 DEF InterruptBlocked, Signal, Return, Goto
<1>26. CASE InterruptWaiting(t) BY <1>0, <1>26 DEF InterruptWaiting, InterruptWake, Signal, Return, Goto
<1>27. CASE ServerStart(t) BY <1>0, <1>27 DEF ServerStart, Return, Goto
<1>28. CASE ServerInterrupts(t) BY <1>0, <1>28 DEF ServerInterrupts, InterruptWake, Signal, Goto
<1> QED
  BY <1>1, <1>2, <1>3, <1>4, <1>5, <1>6, <1>7, <1>8, <1>9, <1>10, <1>11, <1>12, <1>13, <1>14, <1>15,
     <1>16, <1>17, <1>18, <1>19, <1>20, <1>21, <1>22, <1>23, <1>24, <1>25, <1>26, <1>27, <1>28
     DEF Acts, Step

\* While an entry has not returned, nobody changes monitor->count.
LEMMA CountStays ==
    ASSUME QInv, NEW t \in Threads, Acts(t), NEW u \in Threads \ {t}, pc[u] \in {"post", "sGot"}
    PROVE  count' = count
<1>1. IInv /\ u \in Holders BY DEF QInv, Holders
<1>2. t \notin Holders /\ spinlockState # "UNOWNED" BY <1>1 DEF IInv, SpinlockHasOneHolder
<1> QED BY <1>1, <1>2, ActsIInv DEF StaysOut, Keeps, Takes, Releases, Untouched, Holders

LEMMA CallStep ==
    ASSUME QInv, NEW t \in Threads, Acts(t)
    PROVE  CallInv'
<1>0. /\ pc \in [Threads -> Places] /\ op \in [Threads -> Ops] /\ saved \in [Threads -> 0..MaxCount]
      /\ Servers \subseteq Threads /\ ServerPlaces /\ OwnerPlaces
  BY DEF QInv, RestType, IInv, LockType, Threads
<1> SUFFICES ASSUME NEW v \in Threads PROVE CallOf(v)'
  BY DEF CallInv
<1>a. CallOf(v) /\ CallOf(t) BY DEF QInv, CallInv
<1>b. v # t /\ pc[v] \in {"post", "sGot"} => count' = count BY CountStays
<1> USE DEF lockVars, spinVars, queueVars, callVars, serverVars
<1> USE DEF CallOf, InWait, Entering, Places, Ops
<1>1. CASE EnterRecursively(t) BY <1>0, <1>a, <1>b, <1>1 DEF EnterRecursively, Idle
<1>2. CASE Enter(t) BY <1>0, <1>a, <1>b, <1>2 DEF Enter, Idle, BeginCall, Goto
<1>3. CASE TryEnter(t) BY <1>0, <1>a, <1>b, <1>3 DEF TryEnter, Idle, BeginCall, Goto
<1>4. CASE Exit(t) BY <1>0, <1>a, <1>b, <1>4 DEF Exit, Idle, BeginCall, Goto
<1>5. CASE Wait(t)
  BY <1>0, <1>a, <1>b, <1>5, WaitEffect DEF Wait
<1>6. CASE Notify(t) BY <1>0, <1>a, <1>b, <1>6 DEF Notify, NotifyOriginal, NotifyThreeTier, NotifyFlags, Signal
<1>7. CASE ClearInterrupted(t) BY <1>0, <1>a, <1>b, <1>7 DEF ClearInterrupted
<1>8. CASE SpuriousWakeup(t) BY <1>0, <1>a, <1>b, <1>8 DEF SpuriousWakeup
<1>9. ASSUME NEW u \in Callers \ {t}, NEW f \in InterruptKinds, Interrupt(t, u, f)
      PROVE  CallOf(v)'
  BY <1>0, <1>a, <1>b, <1>9 DEF Interrupt, BeginInterrupt, Goto, Signal
<1>10. CASE SpinBound(t) BY <1>0, <1>a, <1>b, <1>10 DEF SpinBound, Goto
<1>11. CASE SpinAdd(t) BY <1>0, <1>a, <1>b, <1>11 DEF SpinAdd, Goto
<1>12. CASE Spin(t) BY <1>0, <1>a, <1>b, <1>12 DEF Spin, CompareExchange, Goto
<1>13. CASE Acquired(t) BY <1>0, <1>a, <1>b, <1>13 DEF Acquired, StopSpinning, NowOwnedBy, Entering, Return, Goto
<1>14. CASE NotAcquired(t) BY <1>0, <1>a, <1>b, <1>14 DEF NotAcquired, StopSpinning, Entering, Return, Goto
<1>15. CASE EnterSlowly(t) BY <1>0, <1>a, <1>b, <1>15 DEF EnterSlowly, FoundUnowned, NowOwnedBy, Goto
<1>16. CASE Block(t) BY <1>0, <1>a, <1>b, <1>16 DEF Block, NotBlocked, Return, Goto
<1>17. CASE Unblock(t) BY <1>0, <1>a, <1>b, <1>17 DEF Unblock, NotBlocked, Return, Goto
<1>18. CASE EnterDone(t) BY <1>0, <1>a, <1>b, <1>18 DEF EnterDone, NotBlocked, RestoredCount, Return, Goto
<1>19. CASE ExitSwap(t) BY <1>0, <1>a, <1>b, <1>19 DEF ExitSwap, Return, Goto
<1>20. CASE ExitWake(t) BY <1>0, <1>a, <1>b, <1>20 DEF ExitWake, Signal, Return, Goto
<1>21. CASE WaitRelease(t) BY <1>0, <1>a, <1>b, <1>21 DEF WaitRelease, Signal, Goto
<1>22. CASE WaitEnqueue(t) BY <1>0, <1>a, <1>b, <1>22 DEF WaitEnqueue, Signal, Goto
<1>23. CASE WaitEnds(t) BY <1>0, <1>a, <1>b, <1>23 DEF WaitEnds, Goto
<1>24. CASE Resume(t) BY <1>0, <1>a, <1>b, <1>24 DEF Resume, Goto
<1>25. CASE InterruptBlocked(t) BY <1>0, <1>a, <1>b, <1>25 DEF InterruptBlocked, Signal, Return, Goto
<1>26. CASE InterruptWaiting(t) BY <1>0, <1>a, <1>b, <1>26 DEF InterruptWaiting, InterruptWake, Signal, Return, Goto
<1>27. CASE ServerStart(t) BY <1>0, <1>a, <1>b, <1>27 DEF ServerStart, Return, Goto
<1>28. CASE ServerInterrupts(t) BY <1>0, <1>a, <1>b, <1>28 DEF ServerInterrupts, InterruptWake, Signal, Goto
<1> QED
  BY <1>1, <1>2, <1>3, <1>4, <1>5, <1>6, <1>7, <1>8, <1>9, <1>10, <1>11, <1>12, <1>13, <1>14, <1>15,
     <1>16, <1>17, <1>18, <1>19, <1>20, <1>21, <1>22, <1>23, <1>24, <1>25, <1>26, <1>27, <1>28
     DEF Acts, Step

-----------------------------------------------------------------------------
(* The flags of a wait. *)

\* The threads on the wait queue that are still WAITING.
Still == {u \in Range(waiting) : "WAITING" \in flags[u]}

LEMMA Chosen ==
    ASSUME QInv
    PROVE  /\ ChosenToNotify(TRUE) = Still
           /\ ChosenToNotify(FALSE) \subseteq Still
           /\ \A u, v \in ChosenToNotify(FALSE) : u = v
           /\ Still # {} => ChosenToNotify(FALSE) # {}
<1> DEFINE still == {i \in DOMAIN waiting : "WAITING" \in flags[waiting[i]]}
<1>1. waiting \in Seq(Threads) /\ still \subseteq Nat BY InQueue DEF QInv, QueueShape, Queue
<1>2. Still = {waiting[i] : i \in still} BY DEF Still, Range
<1>3. ChosenToNotify(TRUE) = {waiting[i] : i \in still} BY DEF ChosenToNotify
<1>4. ChosenToNotify(FALSE) = {waiting[i] : i \in {j \in still : \A k \in still : j <= k}}
  BY DEF ChosenToNotify
<1> HIDE DEF still
<1>5. \A i, j \in still : (\A k \in still : i <= k) /\ (\A k \in still : j <= k) => i = j
  BY <1>1
<1>6. ASSUME Still # {} PROVE ChosenToNotify(FALSE) # {}
  <2>1. PICK i \in still : \A k \in still : i <= k BY <1>1, <1>2, <1>6, Smallest
  <2> QED BY <1>4, <2>1
<1> QED BY <1>2, <1>3, <1>4, <1>5, <1>6

\* Whom a notify takes from the wait queue under fast notify.
LEMMA MovedQueue ==
    ASSUME QInv, NEW all \in BOOLEAN
    PROVE  /\ Queue(Moved(all)) /\ Range(Moved(all)) \subseteq Range(waiting)
           /\ all => Moved(all) = waiting
           /\ ~all /\ waiting # <<>> => Moved(all) = <<Head(waiting)>> /\ Range(Moved(all)) = {Head(waiting)}
           /\ waiting = <<>> => Moved(all) = <<>>
           /\ LET rest == IF Moved(all) = waiting THEN <<>> ELSE Tail(waiting) IN
              Queue(rest) /\ Range(rest) = Range(waiting) \ Range(Moved(all))
<1>1. Queue(waiting) BY DEF QInv, QueueShape
<1>2. CASE all \/ waiting = <<>>
  <2>1. Moved(all) = waiting BY <1>2 DEF Moved
  <2> QED BY <1>1, <1>2, <2>1, EmptyQueue
<1>3. CASE ~all /\ waiting # <<>>
  <2>1. Moved(all) = <<Head(waiting)>> BY <1>3 DEF Moved
  <2>2. CASE Moved(all) = waiting
    BY <1>1, <1>3, <2>1, <2>2, QueueHead, EmptyQueue
  <2>3. CASE Moved(all) # waiting
    BY <1>1, <1>3, <2>1, <2>3, QueueHead
  <2> QED BY <2>2, <2>3
<1> QED BY <1>2, <1>3

\* Those who are notified were in their condition wait, and cease to be WAITING.
LEMMA NotifyEffect ==
    ASSUME QInv, NEW t \in Threads, Notify(t)
    PROVE  \E all \in BOOLEAN, S \in SUBSET Threads :
              /\ NotifyFlags(S)
              /\ IF FastNotify THEN NotifyThreeTier(all) /\ S = Range(Moved(all))
                 ELSE NotifyOriginal(all) /\ S = ChosenToNotify(all)
              /\ S \subseteq Range(waiting)
<1>1. PICK call \in {"notify", "notify_all"} \cap Calls :
        LET all == call = "notify_all" IN IF FastNotify THEN NotifyThreeTier(all) ELSE NotifyOriginal(all)
  BY DEF Notify
<1> DEFINE all == call = "notify_all"
<1>2. all \in BOOLEAN OBVIOUS
<1> HIDE DEF all
<1>3. Range(waiting) \subseteq Threads BY InQueue DEF QInv, QueueShape, Queue
<1>4. CASE FastNotify
  <2>1. Range(Moved(all)) \subseteq Range(waiting) BY <1>2, MovedQueue
  <2>2. NotifyThreeTier(all) BY <1>1, <1>4 DEF all
  <2> QED BY <1>2, <1>3, <1>4, <2>1, <2>2 DEF NotifyThreeTier
<1>5. CASE ~FastNotify
  <2>1. ChosenToNotify(all) \subseteq Range(waiting) BY <1>2, Chosen DEF Still
  <2>2. NotifyOriginal(all) BY <1>1, <1>5 DEF all
  <2> QED BY <1>2, <1>3, <1>5, <2>1, <2>2 DEF NotifyOriginal
<1> QED BY <1>4, <1>5

\* The end of a wait.
Leaves(t) ==
    /\ LeaveQueue(t) /\ waitNumber' = [waitNumber EXCEPT ![t] = 0]
    /\ pc' = [pc EXCEPT ![t] = "bound"]
    /\ "WAITING" \notin flags'[t] /\ "NOTIFIED" \notin flags'[t]
    /\ \A u \in Threads \ {t} : flags'[u] = flags[u]
LEMMA ResumeEffect ==
    ASSUME QInv, NEW t \in Threads, Resume(t)
    PROVE  \/ pc[t] = "wakeup" /\ pc' = [pc EXCEPT ![t] = "waiting"] /\ UNCHANGED <<queueVars, flags>>
           \/ Leaves(t)
<1>0. flags \in [Threads -> SUBSET FlagNames] BY DEF QInv, FlagType
<1>1. CASE pc[t] = "wakeup" /\ Goto(t, "waiting") /\ UNCHANGED <<queueVars, flags>>
  BY <1>1 DEF Goto
<1> DEFINE f == flags[t]
           int == Interrupted(f, f)
           pri == PriorityInterrupted(f, f)
           timedOut == ~(int \/ pri \/ Notified(t))
           new == ((f \cup (IF timedOut THEN {"BLOCKED"} ELSE {}))
                       \ {"WAITING", "TIMER_SET", "INTERRUPTABLE", "NOTIFIED"})
                       \ ((IF "INTERRUPTABLE" \in f THEN {"PRIORITY_INTERRUPTED"} ELSE {})
                          \cup (IF int /\ ~(Notified(t) \/ pri) THEN {"INTERRUPTED"} ELSE {}))
<1>2. CASE /\ LeaveQueue(t) /\ waitNumber' = [waitNumber EXCEPT ![t] = 0] /\ Goto(t, "bound")
           /\ flags' = [flags EXCEPT ![t] = new]
  <2>1. "WAITING" \notin new /\ "NOTIFIED" \notin new OBVIOUS
  <2> HIDE DEF new
  <2> QED BY <1>0, <1>2, <2>1 DEF Goto, Leaves
<1> QED BY <1>1, <1>2 DEF Resume

LEMMA FlagStep ==
    ASSUME QInv, NEW t \in Threads, Acts(t)
    PROVE  FlagInv'
<1>0. /\ pc \in [Threads -> Places] /\ flags \in [Threads -> SUBSET FlagNames]
      /\ Servers \subseteq Threads /\ Callers \subseteq Threads
      /\ "WAITING" \notin InterruptKinds /\ "NOTIFIED" \notin InterruptKinds
  BY ModeAssumption DEF QInv, FlagType, IInv, LockType, Threads
<1> SUFFICES ASSUME NEW v \in Threads PROVE FlagOf(v)'
  BY DEF FlagInv
<1>a. FlagOf(v) /\ FlagOf(t) /\ PlaceOf(v) BY DEF QInv, FlagInv, PlaceInv
<1> USE DEF lockVars, spinVars, queueVars, callVars, serverVars
<1> USE DEF FlagOf, InWait
<1>1. CASE EnterRecursively(t) BY <1>0, <1>a, <1>1 DEF EnterRecursively, Idle
<1>2. CASE Enter(t) BY <1>0, <1>a, <1>2 DEF Enter, Idle, BeginCall, Goto
<1>3. CASE TryEnter(t) BY <1>0, <1>a, <1>3 DEF TryEnter, Idle, BeginCall, Goto
<1>4. CASE Exit(t) BY <1>0, <1>a, <1>4 DEF Exit, Idle, BeginCall, Goto
<1>5. CASE Wait(t)
  <2>0. pc[t] = "idle" BY <1>5 DEF Wait
  <2>1. CASE UNCHANGED pc /\ \E f \in {{}, {"INTERRUPTED"}, {"PRIORITY_INTERRUPTED"}} : flags' = [flags EXCEPT ![t] = @ \ f]
    BY <1>0, <1>a, <2>0, <2>1
  <2>2. CASE /\ \E f \in SUBSET {"TIMER_SET", "ABORTABLE", "INTERRUPTABLE"} :
                    flags' = [flags EXCEPT ![t] = @ \cup {"WAITING"} \cup f]
             /\ pc' = [pc EXCEPT ![t] = "wLock"]
    BY <1>0, <1>a, <2>0, <2>2
  <2> QED BY <1>5, <2>1, <2>2, WaitEffect
<1>6. CASE Notify(t)
  <2>1. PICK S \in SUBSET Threads : NotifyFlags(S) /\ S \subseteq Range(waiting) BY <1>6, NotifyEffect
  <2>2. pc' = pc BY <1>6 DEF Notify
  <2>3. v \in S => pc[v] \in InWait BY <1>a, <2>1 DEF PlaceOf
  <2> QED BY <1>0, <1>a, <2>1, <2>2, <2>3 DEF NotifyFlags
<1>7. CASE ClearInterrupted(t) BY <1>0, <1>a, <1>7 DEF ClearInterrupted
<1>8. CASE SpuriousWakeup(t) BY <1>0, <1>a, <1>8 DEF SpuriousWakeup
<1>9. ASSUME NEW u \in Callers \ {t}, NEW f \in InterruptKinds, Interrupt(t, u, f)
      PROVE  FlagOf(v)'
  BY <1>0, <1>a, <1>9 DEF Interrupt, BeginInterrupt, Goto, Signal
<1>10. CASE SpinBound(t) BY <1>0, <1>a, <1>10 DEF SpinBound, Goto
<1>11. CASE SpinAdd(t) BY <1>0, <1>a, <1>11 DEF SpinAdd, Goto
<1>12. CASE Spin(t) BY <1>0, <1>a, <1>12 DEF Spin, CompareExchange, Goto
<1>13. CASE Acquired(t) BY <1>0, <1>a, <1>13 DEF Acquired, StopSpinning, NowOwnedBy, Entering, Return, Goto
<1>14. CASE NotAcquired(t) BY <1>0, <1>a, <1>14 DEF NotAcquired, StopSpinning, Entering, Return, Goto
<1>15. CASE EnterSlowly(t) BY <1>0, <1>a, <1>15 DEF EnterSlowly, FoundUnowned, NowOwnedBy, Goto
<1>16. CASE Block(t) BY <1>0, <1>a, <1>16 DEF Block, NotBlocked, Return, Goto
<1>17. CASE Unblock(t) BY <1>0, <1>a, <1>17 DEF Unblock, NotBlocked, Return, Goto
<1>18. CASE EnterDone(t) BY <1>0, <1>a, <1>18 DEF EnterDone, NotBlocked, RestoredCount, Return, Goto
<1>19. CASE ExitSwap(t) BY <1>0, <1>a, <1>19 DEF ExitSwap, Return, Goto
<1>20. CASE ExitWake(t) BY <1>0, <1>a, <1>20 DEF ExitWake, Signal, Return, Goto
<1>21. CASE WaitRelease(t) BY <1>0, <1>a, <1>21 DEF WaitRelease, Signal, Goto
<1>22. CASE WaitEnqueue(t) BY <1>0, <1>a, <1>22 DEF WaitEnqueue, Signal, Goto
<1>23. CASE WaitEnds(t) BY <1>0, <1>a, <1>23 DEF WaitEnds, Goto
<1>24. CASE Resume(t)
  <2>1. CASE pc[t] = "wakeup" /\ pc' = [pc EXCEPT ![t] = "waiting"] /\ UNCHANGED flags
    BY <1>0, <1>a, <2>1
  <2>2. CASE Leaves(t) BY <1>0, <1>a, <2>2 DEF Leaves
  <2> QED BY <1>24, <2>1, <2>2, ResumeEffect
<1>25. CASE InterruptBlocked(t) BY <1>0, <1>a, <1>25 DEF InterruptBlocked, Signal, Return, Goto
<1>26. CASE InterruptWaiting(t) BY <1>0, <1>a, <1>26 DEF InterruptWaiting, InterruptWake, Signal, Return, Goto
<1>27. CASE ServerStart(t) BY <1>0, <1>a, <1>27 DEF ServerStart, Return, Goto
<1>28. CASE ServerInterrupts(t) BY <1>0, <1>a, <1>28 DEF ServerInterrupts, InterruptWake, Signal, Goto
<1> QED
  BY <1>1, <1>2, <1>3, <1>4, <1>5, <1>6, <1>7, <1>8, <1>9, <1>10, <1>11, <1>12, <1>13, <1>14, <1>15,
     <1>16, <1>17, <1>18, <1>19, <1>20, <1>21, <1>22, <1>23, <1>24, <1>25, <1>26, <1>27, <1>28
     DEF Acts, Step

-----------------------------------------------------------------------------
(* The queues. *)

\* A step that leaves the queues alone, as seen from thread v.
QuietOf(v) ==
    /\ pc'[v] = "blocked" <=> pc[v] = "blocked"
    /\ pc'[v] \in InWait <=> pc[v] \in InWait
    /\ "NOTIFIED" \in flags'[v] <=> "NOTIFIED" \in flags[v]
    /\ "WAITING" \in flags'[v] => "WAITING" \in flags[v] \/ pc[v] \notin InWait

LEMMA QuietQueues ==
    ASSUME QInv, UNCHANGED queueVars, \A v \in Threads : QuietOf(v)
    PROVE  QueueShape' /\ PlaceInv' /\ NumberInv'
<1>1. UNCHANGED <<blocking, waiting, notifyAllWaiting, waitNumber>> BY DEF queueVars
<1>2. QueueShape' /\ NumberInv' BY <1>1 DEF QInv, QueueShape, NumberInv, Increasing
<1>3. ASSUME NEW v \in Threads PROVE PlaceOf(v)'
  <2>1. PlaceOf(v) /\ QuietOf(v) BY DEF QInv, PlaceInv
  <2>2. v \in Range(notifyAllWaiting) => pc[v] \in InWait BY <2>1 DEF PlaceOf
  <2> QED BY <1>1, <2>1, <2>2 DEF PlaceOf, QuietOf
<1> QED BY <1>2, <1>3 DEF PlaceInv

QuietActs(t) ==
    \/ EnterRecursively(t) \/ Enter(t) \/ TryEnter(t) \/ Exit(t) \/ Wait(t)
    \/ ClearInterrupted(t) \/ SpuriousWakeup(t)
    \/ \E u \in Callers \ {t}, f \in InterruptKinds : Interrupt(t, u, f)
    \/ SpinBound(t) \/ SpinAdd(t) \/ Spin(t) \/ Acquired(t) \/ NotAcquired(t)
    \/ EnterSlowly(t) \/ EnterDone(t) \/ ExitSwap(t) \/ ExitWake(t) \/ WaitRelease(t) \/ WaitEnds(t)
    \/ InterruptBlocked(t) \/ InterruptWaiting(t) \/ ServerStart(t) \/ ServerInterrupts(t)

LEMMA QuietStep ==
    ASSUME QInv, NEW t \in Threads, QuietActs(t)
    PROVE  UNCHANGED queueVars /\ \A v \in Threads : QuietOf(v)
<1>0. /\ pc \in [Threads -> Places] /\ flags \in [Threads -> SUBSET FlagNames]
      /\ Servers \subseteq Threads /\ Callers \subseteq Threads
      /\ "WAITING" \notin InterruptKinds /\ "NOTIFIED" \notin InterruptKinds
  BY ModeAssumption DEF QInv, FlagType, IInv, LockType, Threads
<1>q. UNCHANGED queueVars
  BY DEF QuietActs, EnterRecursively, Enter, TryEnter, Exit, Wait, ClearInterrupted, SpuriousWakeup,
     Interrupt, SpinBound, SpinAdd, Spin, Acquired, NotAcquired, EnterSlowly, EnterDone, ExitSwap,
     ExitWake, WaitRelease, WaitEnds, InterruptBlocked, InterruptWaiting, ServerStart,
     ServerInterrupts
<1> SUFFICES ASSUME NEW v \in Threads PROVE QuietOf(v) BY <1>q
<1> USE DEF lockVars, spinVars, queueVars, callVars, serverVars
<1> USE DEF QuietOf, InWait
<1>1. CASE EnterRecursively(t) BY <1>0, <1>1 DEF EnterRecursively, Idle
<1>2. CASE Enter(t) BY <1>0, <1>2 DEF Enter, Idle, BeginCall, Goto
<1>3. CASE TryEnter(t) BY <1>0, <1>3 DEF TryEnter, Idle, BeginCall, Goto
<1>4. CASE Exit(t) BY <1>0, <1>4 DEF Exit, Idle, BeginCall, Goto
<1>5. CASE Wait(t)
  <2>0. pc[t] = "idle" BY <1>5 DEF Wait
  <2>1. CASE UNCHANGED pc /\ \E f \in {{}, {"INTERRUPTED"}, {"PRIORITY_INTERRUPTED"}} : flags' = [flags EXCEPT ![t] = @ \ f]
    BY <1>0, <2>0, <2>1
  <2>2. CASE /\ \E f \in SUBSET {"TIMER_SET", "ABORTABLE", "INTERRUPTABLE"} :
                    flags' = [flags EXCEPT ![t] = @ \cup {"WAITING"} \cup f]
             /\ pc' = [pc EXCEPT ![t] = "wLock"]
    BY <1>0, <2>0, <2>2
  <2> QED BY <1>5, <2>1, <2>2, WaitEffect
<1>6. CASE ClearInterrupted(t) BY <1>0, <1>6 DEF ClearInterrupted
<1>7. CASE SpuriousWakeup(t) BY <1>0, <1>7 DEF SpuriousWakeup
<1>8. ASSUME NEW u \in Callers \ {t}, NEW f \in InterruptKinds, Interrupt(t, u, f)
      PROVE  QuietOf(v)
  BY <1>0, <1>8 DEF Interrupt, BeginInterrupt, Goto, Signal
<1>9. CASE SpinBound(t) BY <1>0, <1>9 DEF SpinBound, Goto
<1>10. CASE SpinAdd(t) BY <1>0, <1>10 DEF SpinAdd, Goto
<1>11. CASE Spin(t) BY <1>0, <1>11 DEF Spin, CompareExchange, Goto
<1>12. CASE Acquired(t) BY <1>0, <1>12 DEF Acquired, StopSpinning, NowOwnedBy, Entering, Return, Goto
<1>13. CASE NotAcquired(t) BY <1>0, <1>13 DEF NotAcquired, StopSpinning, Entering, Return, Goto
<1>14. CASE EnterSlowly(t) BY <1>0, <1>14 DEF EnterSlowly, FoundUnowned, NowOwnedBy, Goto
<1>15. CASE EnterDone(t) BY <1>0, <1>15 DEF EnterDone, NotBlocked, RestoredCount, Return, Goto
<1>16. CASE ExitSwap(t) BY <1>0, <1>16 DEF ExitSwap, Return, Goto
<1>17. CASE ExitWake(t) BY <1>0, <1>17 DEF ExitWake, Signal, Return, Goto
<1>18. CASE WaitRelease(t) BY <1>0, <1>18 DEF WaitRelease, Signal, Goto
<1>19. CASE WaitEnds(t) BY <1>0, <1>19 DEF WaitEnds, Goto
<1>20. CASE InterruptBlocked(t) BY <1>0, <1>20 DEF InterruptBlocked, Signal, Return, Goto
<1>21. CASE InterruptWaiting(t) BY <1>0, <1>21 DEF InterruptWaiting, InterruptWake, Signal, Return, Goto
<1>22. CASE ServerStart(t) BY <1>0, <1>22 DEF ServerStart, Return, Goto
<1>23. CASE ServerInterrupts(t) BY <1>0, <1>23 DEF ServerInterrupts, InterruptWake, Signal, Goto
<1> QED
  BY <1>1, <1>2, <1>3, <1>4, <1>5, <1>6, <1>7, <1>8, <1>9, <1>10, <1>11, <1>12, <1>13, <1>14, <1>15,
     <1>16, <1>17, <1>18, <1>19, <1>20, <1>21, <1>22, <1>23 DEF QuietActs

\* monitor_enter_three_tier: on to the queue and off it.
LEMMA BlockStep ==
    ASSUME QInv, NEW t \in Threads, Block(t) \/ Unblock(t)
    PROVE  QueueShape' /\ PlaceInv' /\ NumberInv'
<1>0. /\ pc \in [Threads -> Places] /\ flags \in [Threads -> SUBSET FlagNames]
      /\ Queue(blocking) /\ PlaceOf(t) /\ FlagOf(t) /\ pc[t] \in {"enqueue", "blocked"}
      /\ \A v \in Threads \ {t} : PlaceOf(v)
  BY DEF QInv, FlagType, FlagInv, IInv, LockType, QueueShape, PlaceInv, Block, Unblock
<1>1. UNCHANGED <<waiting, notifyAllWaiting, waitNumber>> BY DEF Block, Unblock
<1>2. NumberInv' BY <1>1 DEF QInv, NumberInv, Increasing
<1>3. \A v \in Threads \ {t} : pc'[v] = pc[v] /\ flags'[v] = flags[v]
  BY <1>0 DEF Block, Unblock, NotBlocked, Return, Goto
<1>4. "NOTIFIED" \notin flags'[t]
  BY <1>0 DEF Block, Unblock, NotBlocked, FlagOf, InWait
<1>5. pc'[t] \notin InWait /\ t \notin Range(waiting) /\ t \notin Range(notifyAllWaiting)
  BY <1>0 DEF Block, Unblock, Return, Goto, InWait, PlaceOf
<1>6. /\ Queue(blocking')
      /\ t \in Range(blocking)' <=> pc'[t] = "blocked"
      /\ \A v \in Threads \ {t} : v \in Range(blocking)' <=> v \in Range(blocking)
  <2>1. CASE Block(t) /\ blocking' = blocking
    <3>1. pc'[t] # "blocked" /\ pc[t] = "enqueue"
      <4>1. CASE Return(t) BY <1>0, <2>1, <4>1 DEF Block, Return, Goto
      <4>2. CASE blocking' = Enqueue(blocking, t)
        <5>1. Len(blocking') = Len(blocking) + 1 BY <1>0, <4>2 DEF Queue, Enqueue
        <5> QED BY <1>0, <2>1, <5>1 DEF Queue
      <4> QED BY <2>1, <4>1, <4>2 DEF Block
    <3> QED BY <1>0, <2>1, <3>1 DEF PlaceOf, InWait
  <2>2. CASE Block(t) /\ blocking' = Enqueue(blocking, t) /\ pc' = [pc EXCEPT ![t] = "blocked"]
    <3>1. t \notin Range(blocking) BY <1>0, <2>2 DEF PlaceOf, InWait, Block
    <3> QED BY <1>0, <2>2, <3>1, QueueEnqueue
  <2>3. CASE Unblock(t)
    <3>1. blocking' = Dequeue(blocking, t) /\ pc'[t] # "blocked" BY <1>0, <2>3 DEF Unblock, Return, Goto
    <3> QED BY <1>0, <3>1, QueueDequeue
  <2> QED BY <2>1, <2>2, <2>3 DEF Block, Goto
<1>7. QueueShape' BY <1>1, <1>6 DEF QInv, QueueShape
<1>8. PlaceOf(t)' BY <1>1, <1>4, <1>5, <1>6 DEF PlaceOf
<1>9. \A v \in Threads \ {t} : PlaceOf(v)' BY <1>0, <1>1, <1>3, <1>6 DEF PlaceOf
<1> QED BY <1>2, <1>7, <1>8, <1>9 DEF PlaceInv

\* The wait number of a thread that begins to wait is greater than all others.
LEMMA NewNumber ==
    ASSUME QInv, ~FastNotify
    PROVE  /\ MaximumWaitNumber \in Nat
           /\ \A u \in Range(waiting) \cup Range(notifyAllWaiting) : waitNumber[u] < MaximumWaitNumber + 1
<1>0. /\ Queue(waiting) /\ Queue(notifyAllWaiting) /\ waitNumber \in [Threads -> Nat]
      /\ Increasing(waiting, waitNumber) /\ Increasing(notifyAllWaiting, waitNumber)
      /\ \A u \in Range(notifyAllWaiting), v \in Range(waiting) : waitNumber[u] < waitNumber[v]
      /\ Range(waiting) \subseteq Threads /\ Range(notifyAllWaiting) \subseteq Threads
  BY InQueue DEF QInv, QueueShape, NumberInv, Queue
<1>1. CASE waiting # <<>>
  <2>1. /\ MaximumWaitNumber = waitNumber[Last(waiting)] /\ Last(waiting) \in Range(waiting)
        /\ \A u \in Range(waiting) : waitNumber[u] <= waitNumber[Last(waiting)]
    BY <1>0, <1>1, QueueLast DEF MaximumWaitNumber
  <2> QED BY <1>0, <2>1
<1>2. CASE waiting = <<>> /\ notifyAllWaiting # <<>>
  <2>1. /\ MaximumWaitNumber = waitNumber[Last(notifyAllWaiting)] /\ Last(notifyAllWaiting) \in Range(notifyAllWaiting)
        /\ \A u \in Range(notifyAllWaiting) : waitNumber[u] <= waitNumber[Last(notifyAllWaiting)]
    BY <1>0, <1>2, QueueLast DEF MaximumWaitNumber
  <2>2. Range(waiting) = {} BY <1>2, EmptyQueue
  <2> QED BY <1>0, <2>1, <2>2
<1>3. CASE waiting = <<>> /\ notifyAllWaiting = <<>>
  BY <1>3, EmptyQueue DEF MaximumWaitNumber
<1> QED BY <1>1, <1>2, <1>3

LEMMA WaitEnqueueStep ==
    ASSUME QInv, NEW t \in Threads, WaitEnqueue(t)
    PROVE  QueueShape' /\ PlaceInv' /\ NumberInv'
<1>0. /\ pc \in [Threads -> Places] /\ flags' = flags /\ pc[t] = "wEnqueue"
      /\ QueueShape /\ NumberInv /\ PlaceOf(t) /\ FlagOf(t) /\ \A v \in Threads \ {t} : PlaceOf(v)
      /\ UNCHANGED <<blocking, notifyAllWaiting>> /\ waiting' = Enqueue(waiting, t)
      /\ pc' = [pc EXCEPT ![t] = "waiting"]
  BY DEF QInv, IInv, LockType, PlaceInv, FlagInv, WaitEnqueue, Goto
<1>1. t \notin Range(blocking) /\ t \notin Range(waiting) /\ t \notin Range(notifyAllWaiting)
  BY <1>0 DEF PlaceOf, InWait
<1>2. /\ Queue(waiting') /\ Range(waiting') = Range(waiting) \cup {t}
      /\ \A f : Increasing(waiting, f) /\ (\A u \in Range(waiting) : f[u] < f[t]) => Increasing(waiting', f)
  BY <1>0, <1>1, QueueEnqueue DEF QueueShape
<1>3. QueueShape' BY <1>0, <1>2 DEF QueueShape
<1>4. PlaceOf(t)' BY <1>0, <1>1, <1>2 DEF PlaceOf, FlagOf, InWait
<1>5. \A v \in Threads \ {t} : PlaceOf(v)' BY <1>0, <1>2 DEF PlaceOf
<1>6. NumberInv'
  <2>1. CASE FastNotify BY <1>0, <2>1 DEF NumberInv, WaitEnqueue
  <2>2. CASE ~FastNotify
    <3>1. waitNumber' = [waitNumber EXCEPT ![t] = MaximumWaitNumber + 1] BY <2>2 DEF WaitEnqueue
    <3>2. Range(waiting) \subseteq Threads /\ Range(notifyAllWaiting) \subseteq Threads
      BY <1>0, InQueue DEF QueueShape, Queue
    <3>3. /\ waitNumber' \in [Threads -> Nat]
          /\ \A u \in Range(waiting) \cup Range(notifyAllWaiting) :
                waitNumber'[u] = waitNumber[u] /\ waitNumber'[u] < waitNumber'[t]
      BY <1>0, <1>1, <2>2, <3>1, <3>2, NewNumber DEF NumberInv
    <3>4. Increasing(waiting, waitNumber') /\ Increasing(notifyAllWaiting, waitNumber')
      BY <1>0, <2>2, <3>3 DEF NumberInv, Increasing, Range
    <3>5. Increasing(waiting', waitNumber') BY <1>2, <3>3, <3>4
    <3> QED BY <1>0, <1>2, <2>2, <3>3, <3>4, <3>5 DEF NumberInv
  <2> QED BY <2>1, <2>2
<1> QED BY <1>3, <1>4, <1>5, <1>6 DEF PlaceInv

\* Resume: OnNotifyAllWaitList finds the queue.
LEMMA ListFound ==
    ASSUME QInv, ~FastNotify, NEW t \in Threads, pc[t] \in InWait
    PROVE  OnNotifyAllWaitList(t) <=> t \in Range(notifyAllWaiting)
<1>0. /\ Queue(waiting) /\ Queue(notifyAllWaiting) /\ waitNumber \in [Threads -> Nat] /\ PlaceOf(t)
      /\ Increasing(notifyAllWaiting, waitNumber)
      /\ \A u \in Range(notifyAllWaiting), v \in Range(waiting) : waitNumber[u] < waitNumber[v]
  BY DEF QInv, QueueShape, NumberInv, PlaceInv
<1>1. CASE notifyAllWaiting = <<>> BY <1>1, EmptyQueue DEF OnNotifyAllWaitList
<1>2. CASE notifyAllWaiting # <<>>
  <2>1. /\ Last(notifyAllWaiting) \in Threads /\ Last(notifyAllWaiting) \in Range(notifyAllWaiting)
        /\ \A u \in Range(notifyAllWaiting) : waitNumber[u] <= waitNumber[Last(notifyAllWaiting)]
    BY <1>0, <1>2, QueueLast
  <2>2. CASE t \in Range(notifyAllWaiting) BY <1>2, <2>1, <2>2 DEF OnNotifyAllWaitList
  <2>3. CASE t \notin Range(notifyAllWaiting)
    <3>1. t \in Range(waiting) BY <1>0, <2>3 DEF PlaceOf
    <3>2. waitNumber[Last(notifyAllWaiting)] < waitNumber[t] BY <1>0, <2>1, <3>1
    <3> QED BY <1>0, <2>1, <2>3, <3>2 DEF OnNotifyAllWaitList
  <2> QED BY <2>2, <2>3
<1> QED BY <1>1, <1>2

\* The thread leaves the queue it is on.
LEMMA LeavesItsQueue ==
    ASSUME QInv, NEW t \in Threads, pc[t] \in InWait, LeaveQueue(t)
    PROVE  /\ QueueShape'
           /\ t \notin Range(blocking') /\ t \notin Range(waiting') /\ t \notin Range(notifyAllWaiting')
           /\ \A v \in Threads \ {t} :
                 /\ v \in Range(blocking') <=> v \in Range(blocking)
                 /\ v \in Range(waiting') <=> v \in Range(waiting)
                 /\ v \in Range(notifyAllWaiting') <=> v \in Range(notifyAllWaiting)
           /\ \A f : /\ Increasing(waiting, f) => Increasing(waiting', f)
                     /\ Increasing(notifyAllWaiting, f) => Increasing(notifyAllWaiting', f)
<1>0. QueueShape /\ PlaceOf(t) /\ pc[t] # "blocked" BY DEF QInv, PlaceInv, InWait
<1>1. CASE FastNotify /\ Notified(t) /\ blocking' = Dequeue(blocking, t) /\ UNCHANGED <<waiting, notifyAllWaiting>>
  <2>1. t \in Range(blocking) BY <1>0, <1>1 DEF Notified, PlaceOf
  <2>2. t \notin Range(waiting) BY <1>0, <2>1 DEF PlaceOf
  <2>3. notifyAllWaiting = <<>> /\ t \notin Range(notifyAllWaiting) BY <1>0, <1>1, EmptyQueue DEF QueueShape
  <2> QED BY <1>0, <1>1, <2>2, <2>3, QueueDequeue DEF QueueShape
<1>2. CASE ~FastNotify /\ OnNotifyAllWaitList(t) /\ notifyAllWaiting' = Dequeue(notifyAllWaiting, t) /\ UNCHANGED <<waiting, blocking>>
  <2>1. t \in Range(notifyAllWaiting) BY <1>2, ListFound
  <2>2. t \notin Range(waiting) /\ t \notin Range(blocking) BY <1>0, <1>2, <2>1 DEF PlaceOf
  <2> QED BY <1>0, <1>2, <2>2, QueueDequeue DEF QueueShape
<1>3. CASE /\ ~(IF FastNotify THEN Notified(t) ELSE OnNotifyAllWaitList(t))
           /\ waiting' = Dequeue(waiting, t) /\ UNCHANGED <<blocking, notifyAllWaiting>>
  <2>1. t \notin Range(notifyAllWaiting)
    <3>1. CASE FastNotify BY <1>0, <3>1, EmptyQueue DEF QueueShape
    <3>2. CASE ~FastNotify BY <1>3, <3>2, ListFound
    <3> QED BY <3>1, <3>2
  <2>2. t \notin Range(blocking)
    <3>1. CASE FastNotify BY <1>0, <1>3, <3>1 DEF PlaceOf, Notified
    <3>2. CASE ~FastNotify BY <1>0, <3>2 DEF PlaceOf
    <3> QED BY <3>1, <3>2
  <2> QED BY <1>0, <1>3, <2>1, <2>2, QueueDequeue DEF QueueShape
<1> QED BY <1>1, <1>2, <1>3 DEF LeaveQueue

LEMMA ResumeStep ==
    ASSUME QInv, NEW t \in Threads, Resume(t)
    PROVE  QueueShape' /\ PlaceInv' /\ NumberInv'
<1>0. pc \in [Threads -> Places] /\ NumberInv /\ pc[t] \in InWait /\ \A v \in Threads : PlaceOf(v)
  BY DEF QInv, IInv, LockType, PlaceInv, Resume, InWait
<1>1. CASE pc[t] = "wakeup" /\ pc' = [pc EXCEPT ![t] = "waiting"] /\ UNCHANGED <<queueVars, flags>>
  <2>1. \A v \in Threads : QuietOf(v) BY <1>0, <1>1 DEF QuietOf, InWait
  <2> QED BY <1>1, <2>1, QuietQueues
<1>2. CASE Leaves(t)
  <2>1. LeaveQueue(t) BY <1>2 DEF Leaves
  <2>2. /\ pc'[t] = "bound" /\ \A v \in Threads \ {t} : pc'[v] = pc[v] /\ flags'[v] = flags[v]
        /\ waitNumber' = [waitNumber EXCEPT ![t] = 0]
    BY <1>0, <1>2 DEF Leaves
  <2>3. PlaceOf(t)' BY <1>0, <2>1, <2>2, LeavesItsQueue DEF PlaceOf, InWait
  <2>4. ASSUME NEW v \in Threads \ {t} PROVE PlaceOf(v)' BY <1>0, <2>1, <2>2, LeavesItsQueue DEF PlaceOf
  <2>5. NumberInv'
    <3>1. waitNumber' \in [Threads -> Nat] /\ \A u \in Threads \ {t} : waitNumber'[u] = waitNumber[u]
      BY <1>0, <2>2 DEF NumberInv
    <3>2. CASE FastNotify BY <3>1, <3>2 DEF NumberInv
    <3>3. CASE ~FastNotify
      <4>1. /\ QueueShape' /\ t \notin Range(waiting') /\ t \notin Range(notifyAllWaiting')
            /\ Increasing(waiting', waitNumber) /\ Increasing(notifyAllWaiting', waitNumber)
        BY <1>0, <2>1, <3>3, LeavesItsQueue DEF NumberInv
      <4>2. /\ waiting' \in Seq(Threads) /\ notifyAllWaiting' \in Seq(Threads)
            /\ Range(waiting') \subseteq Threads \ {t} /\ Range(notifyAllWaiting') \subseteq Threads \ {t}
        BY <4>1, InQueue DEF QueueShape, Queue
      <4>3. Increasing(waiting', waitNumber') BY <3>1, <4>1, <4>2 DEF Increasing, Range
      <4>4. Increasing(notifyAllWaiting', waitNumber') BY <3>1, <4>1, <4>2 DEF Increasing, Range
      <4>5. \A u \in Range(notifyAllWaiting'), v \in Range(waiting') : waitNumber'[u] < waitNumber'[v]
        <5> SUFFICES ASSUME NEW u \in Range(notifyAllWaiting'), NEW v \in Range(waiting')
                     PROVE  waitNumber'[u] < waitNumber'[v]
          OBVIOUS
        <5>1. u \in Threads \ {t} /\ v \in Threads \ {t} BY <4>2
        <5>2. u \in Range(notifyAllWaiting) /\ v \in Range(waiting) BY <1>0, <2>1, <5>1, LeavesItsQueue
        <5> QED BY <1>0, <3>1, <3>3, <5>1, <5>2 DEF NumberInv
      <4> QED BY <3>1, <4>3, <4>4, <4>5 DEF NumberInv
    <3> QED BY <3>2, <3>3
  <2>6. QueueShape' BY <1>0, <2>1, LeavesItsQueue
  <2> QED BY <2>3, <2>4, <2>5, <2>6 DEF PlaceInv
<1> QED BY <1>1, <1>2, ResumeEffect

\* notify and notify_all.
LEMMA NotifyStep ==
    ASSUME QInv, NEW t \in Threads, Notify(t)
    PROVE  QueueShape' /\ PlaceInv' /\ NumberInv'
<1>0. /\ flags \in [Threads -> SUBSET FlagNames] /\ UNCHANGED <<pc, waitNumber>> /\ QueueShape /\ NumberInv
      /\ Queue(blocking) /\ Queue(waiting) /\ Queue(notifyAllWaiting) /\ \A v \in Threads : PlaceOf(v)
      /\ Range(waiting) \subseteq Threads /\ Range(blocking) \subseteq Threads
      /\ Range(notifyAllWaiting) \subseteq Threads
  BY InQueue DEF QInv, FlagType, QueueShape, PlaceInv, Notify, Queue
<1>1. PICK all \in BOOLEAN, S \in SUBSET Threads :
         /\ NotifyFlags(S)
         /\ IF FastNotify THEN NotifyThreeTier(all) /\ S = Range(Moved(all))
            ELSE NotifyOriginal(all) /\ S = ChosenToNotify(all)
         /\ S \subseteq Range(waiting)
  BY NotifyEffect
<1>2. /\ \A v \in S : "NOTIFIED" \in flags'[v] /\ "WAITING" \notin flags'[v]
      /\ \A v \in Threads \ S : flags'[v] = flags[v]
  BY <1>1 DEF NotifyFlags
<1>3. CASE FastNotify
  <2> DEFINE m == Moved(all)
  <2>1. /\ blocking' = blocking \o m /\ notifyAllWaiting' = notifyAllWaiting /\ S = Range(m)
        /\ waiting' = IF m = waiting THEN <<>> ELSE Tail(waiting)
    BY <1>1, <1>3 DEF NotifyThreeTier
  <2>2. /\ Queue(m) /\ Queue(waiting') /\ Range(waiting') = Range(waiting) \ S
    BY <2>1, MovedQueue
  <2>3. Range(blocking) \cap Range(m) = {} BY <1>0, <1>1, <2>1 DEF PlaceOf
  <2> HIDE DEF m
  <2>4. Queue(blocking') /\ Range(blocking') = Range(blocking) \cup S BY <1>0, <2>1, <2>2, <2>3, QueueConcat
  <2>5. QueueShape' BY <1>0, <1>3, <2>1, <2>2, <2>4 DEF QueueShape
  <2>6. NumberInv' BY <1>0, <1>3 DEF NumberInv
  <2>7. ASSUME NEW v \in Threads PROVE PlaceOf(v)'
    <3>1. PlaceOf(v) /\ v \notin Range(notifyAllWaiting) BY <1>0, <1>3, EmptyQueue DEF QueueShape
    <3>2. CASE v \in S
      <4>1. v \in Range(waiting) /\ pc[v] \in InWait BY <1>1, <3>1, <3>2 DEF PlaceOf
      <4> QED BY <1>0, <1>2, <1>3, <2>1, <2>2, <2>4, <3>1, <3>2, <4>1 DEF PlaceOf
    <3>3. CASE v \notin S BY <1>0, <1>2, <2>1, <2>2, <2>4, <3>1, <3>3 DEF PlaceOf
    <3> QED BY <3>2, <3>3
  <2> QED BY <2>5, <2>6, <2>7 DEF PlaceInv
<1>4. CASE ~FastNotify /\ ~all
  <2>1. UNCHANGED <<blocking, waiting, notifyAllWaiting>> BY <1>1, <1>4 DEF NotifyOriginal
  <2>2. QueueShape' /\ NumberInv' BY <1>0, <2>1 DEF QueueShape, NumberInv
  <2>3. ASSUME NEW v \in Threads PROVE PlaceOf(v)'
    BY <1>0, <1>2, <1>4, <2>1 DEF PlaceOf
  <2> QED BY <2>2, <2>3 DEF PlaceInv
<1>5. CASE ~FastNotify /\ all
  <2>1. /\ blocking' = blocking /\ waiting' = <<>> /\ notifyAllWaiting' = notifyAllWaiting \o waiting
        /\ S = Still
    BY <1>1, <1>5, Chosen DEF NotifyOriginal
  <2>2. Range(notifyAllWaiting) \cap Range(waiting) = {} BY <1>0 DEF PlaceOf
  <2>3. /\ Queue(notifyAllWaiting') /\ Range(notifyAllWaiting') = Range(notifyAllWaiting) \cup Range(waiting)
        /\ Increasing(notifyAllWaiting', waitNumber)
    BY <1>0, <1>5, <2>1, <2>2, QueueConcat DEF NumberInv
  <2>4. Queue(waiting') /\ Range(waiting') = {} /\ Increasing(waiting', waitNumber) BY <2>1, EmptyQueue
  <2>5. QueueShape' BY <1>0, <1>5, <2>1, <2>3, <2>4 DEF QueueShape
  <2>6. NumberInv' BY <1>0, <1>5, <2>3, <2>4 DEF NumberInv
  <2>7. ASSUME NEW v \in Threads PROVE PlaceOf(v)'
    <3>1. v \in Range(waiting) => "WAITING" \notin flags'[v] BY <1>2, <2>1 DEF Still
    <3>2. v \in Range(notifyAllWaiting) => "WAITING" \notin flags'[v] BY <1>0, <1>2 DEF PlaceOf
    <3> QED BY <1>0, <1>5, <2>1, <2>3, <2>4, <3>1, <3>2 DEF PlaceOf
  <2> QED BY <2>5, <2>6, <2>7 DEF PlaceInv
<1> QED BY <1>3, <1>4, <1>5

-----------------------------------------------------------------------------

LEMMA ActsQInv == ASSUME QInv, NEW t \in Threads, Acts(t) PROVE QInv'
<1>1. IInv' BY ActsIInv DEF QInv
<1>2. QueueShape' /\ PlaceInv' /\ NumberInv'
  <2>1. QuietActs(t) \/ Block(t) \/ Unblock(t) \/ WaitEnqueue(t) \/ Resume(t) \/ Notify(t)
    BY DEF Acts, Step, QuietActs
  <2>2. CASE QuietActs(t) BY <2>2, QuietStep, QuietQueues
  <2> QED BY <2>1, <2>2, BlockStep, WaitEnqueueStep, ResumeStep, NotifyStep
<1> QED
  BY <1>1, <1>2, RestTypeStep, FlagTypeStep, BoolTypeStep, SpinStep, MutexStep, CallStep, FlagStep
        DEF QInv

LEMMA InitQInv == Init => QInv
<1> SUFFICES ASSUME Init PROVE QInv
  OBVIOUS
<1>1. IInv BY InitIInv
<1>2. RestType /\ FlagType
  BY ModeAssumption DEF Init, RestType, FlagType
<1>3. BoolType BY DEF Init, BoolType
<1>4. SpinInv
  <2>1. Spinning = {} BY DEF Init, Spinning
  <2> QED BY <2>1, FS_EmptySet DEF Init, SpinInv
<1>5. MutexInv /\ CallInv /\ FlagInv
  BY ThreadsAssumption DEF Init, MutexInv, MutexPlaces, CallInv, CallOf, FlagInv, FlagOf, InWait,
     Threads
<1>6. QueueShape BY EmptyQueue DEF Init, QueueShape
<1>7. PlaceInv BY EmptyQueue DEF Init, PlaceInv, PlaceOf, InWait
<1>8. NumberInv BY EmptyQueue DEF Init, NumberInv
<1> QED BY <1>1, <1>2, <1>3, <1>4, <1>5, <1>6, <1>7, <1>8 DEF QInv

LEMMA NextQInv == QInv /\ [Next]_vars => QInv'
<1> SUFFICES ASSUME QInv, [Next]_vars PROVE QInv'
  OBVIOUS
<1>1. CASE UNCHANGED vars
  <2> USE <1>1 DEF vars, lockVars, spinVars, queueVars, callVars, serverVars
  <2>1. IInv' BY NextIInv DEF QInv
  <2>2. RestType' /\ FlagType' /\ BoolType' BY DEF QInv, RestType, FlagType, BoolType
  <2>3. SpinInv'
    <3>1. Spinning' = Spinning BY DEF Spinning
    <3> QED BY <3>1 DEF QInv, SpinInv
  <2>4. MutexInv' /\ CallInv' /\ FlagInv'
    BY DEF QInv, MutexInv, CallInv, CallOf, Entering, FlagInv, FlagOf
  <2>5. \A v \in Threads : QuietOf(v) BY DEF QuietOf
  <2>6. QueueShape' /\ PlaceInv' /\ NumberInv' BY <2>5, QuietQueues
  <2> QED BY <2>1, <2>2, <2>3, <2>4, <2>6 DEF QInv
<1>2. CASE Next
  BY <1>2, ActsQInv DEF Next, Acts
<1> QED BY <1>1, <1>2

LEMMA Invariance == Spec => []QInv
<1> QED BY InitQInv, NextQInv, PTL DEF Spec

\* The queues of the monitor are always exact: whatever interrupts, timeouts, spurious
\* wakeups and notifications race, a thread is on one queue at most, and on the one
\* monitor_wait will look for it.
THEOREM ExactQueues == Spec => []QueueInv
<1>1. QInv => QueueInv
  <2> SUFFICES ASSUME QInv PROVE QueueInv
    OBVIOUS
  <2>1. TypeOK
    <3>1. spinThreads \in Nat
      <4>1. Spinning \subseteq Threads BY DEF Spinning
      <4> QED BY <4>1, ThreadsAssumption, FS_Subset, FS_CardinalityType DEF QInv, SpinInv
    <3>2. count \in 0..MaxCount BY ModeAssumption DEF QInv, IInv, LockType, RestType
    <3>3. abortable \in [Threads -> BOOLEAN] /\ spinning \in [Threads -> BOOLEAN]
          /\ signalled \in [Threads -> BOOLEAN] /\ canceled \in [Threads -> BOOLEAN]
      BY DEF QInv, BoolType
    <3>4. QInv /\ LockType BY DEF QInv, IInv
    <3> QED BY <3>1, <3>2, <3>3, <3>4
        DEF QInv, LockType, RestType, FlagType, QueueShape, Queue, NumberInv, TypeOK
  <2>2. QueuesAreExact
    <3> DEFINE wait == notifyAllWaiting \o waiting
               all == wait \o blocking
    <3>0. /\ QueueShape /\ Queue(blocking) /\ Queue(waiting) /\ Queue(notifyAllWaiting)
          /\ \A v \in Threads : PlaceOf(v)
          /\ Range(waiting) \subseteq Threads /\ Range(notifyAllWaiting) \subseteq Threads
          /\ Range(blocking) \subseteq Threads
      BY InQueue DEF QInv, QueueShape, PlaceInv, Queue
    <3>1. Range(notifyAllWaiting) \cap Range(waiting) = {} BY <3>0 DEF PlaceOf
    <3>2. Queue(wait) /\ Range(wait) = Range(notifyAllWaiting) \cup Range(waiting)
      BY <3>0, <3>1, QueueConcat
    <3>3. Range(notifyAllWaiting) \cap Range(blocking) = {}
      <4>1. CASE FastNotify BY <3>0, <4>1, EmptyQueue DEF QueueShape
      <4>2. CASE ~FastNotify BY <3>0, <4>2 DEF PlaceOf, InWait
      <4> QED BY <4>1, <4>2
    <3>4. Range(wait) \cap Range(blocking) = {} BY <3>0, <3>2, <3>3 DEF PlaceOf
    <3> HIDE DEF wait
    <3>5. Queue(all) /\ Range(all) = Range(wait) \cup Range(blocking) BY <3>0, <3>2, <3>4, QueueConcat
    <3>6. all = notifyAllWaiting \o waiting \o blocking BY DEF wait
    <3> HIDE DEF all
    <3>7. ASSUME NEW t \in Threads
          PROVE  /\ (t \in Range(blocking)) <=>
                       \/ pc[t] = "blocked"
                       \/ FastNotify /\ pc[t] \in {"waiting", "wakeup", "timeout"} /\ "NOTIFIED" \in flags[t]
                 /\ (t \in Range(all)) <=> pc[t] \in {"blocked", "waiting", "wakeup", "timeout"}
                 /\ ~FastNotify /\ pc[t] \in {"waiting", "wakeup", "timeout"} =>
                       (OnNotifyAllWaitList(t) <=> t \in Range(notifyAllWaiting))
      BY <3>0, <3>2, <3>5, ListFound DEF PlaceOf, InWait
    <3> QED BY <3>5, <3>6, <3>7 DEF QueuesAreExact, Queue
  <2> QED BY <2>1, <2>2 DEF QueueInv
<1> QED BY <1>1, Invariance, PTL

\* Every waiting thread that a notify could reach is on the wait queue.
LEMMA WaitersQueue ==
    ASSUME QInv, owner # NoThread, mutex = NoThread
    PROVE  Mon!Waiters = Still
<1>0. /\ \A v \in Threads : CallOf(v) /\ FlagOf(v) /\ PlaceOf(v) /\ (mutex = v <=> pc[v] \in MutexPlaces)
      /\ Range(waiting) \subseteq Threads
  BY InQueue DEF QInv, CallInv, FlagInv, PlaceInv, MutexInv, QueueShape, Queue
<1>1. Mon!Waiters = {v \in Threads : op[v] = "wait" /\ "WAITING" \in flags[v]}
  BY DEF Mon!Waiters, WaitState
<1>2. ASSUME NEW v \in Threads, op[v] = "wait", "WAITING" \in flags[v] PROVE v \in Range(waiting)
  <2>1. pc[v] \in InWait \cup {"wLock", "wEnqueue"} /\ "NOTIFIED" \notin flags[v] BY <1>0, <1>2 DEF FlagOf
  <2>2. pc[v] # "wEnqueue" BY <1>0, ThreadsAssumption DEF MutexPlaces
  <2>3. pc[v] # "wLock"
    BY ThreadsAssumption DEF QInv, IInv, LockType, SpinlockHasOneHolder, Holders, OwnerPlaces
  <2> QED BY <1>0, <1>2, <2>1, <2>2, <2>3 DEF PlaceOf
<1>3. ASSUME NEW v \in Still PROVE v \in Threads /\ op[v] = "wait" /\ "WAITING" \in flags[v]
  BY <1>0 DEF Still, PlaceOf, CallOf
<1> QED BY <1>1, <1>2, <1>3 DEF Still

\* No notification is wasted, although threads that were notified or interrupted may
\* still be on the wait queue: if anybody waits, notify ends somebody's wait.
THEOREM NotifyReaches == Spec => []NotifyReachesAWaiter
<1>1. QInv => NotifyReachesAWaiter
  <2> SUFFICES ASSUME QInv, owner # NoThread, mutex = NoThread, Mon!Waiters # {}
               PROVE  (IF FastNotify THEN Range(Moved(FALSE)) ELSE ChosenToNotify(FALSE)) \cap Mon!Waiters # {}
    BY DEF NotifyReachesAWaiter
  <2>1. Mon!Waiters = Still /\ Still # {} BY WaitersQueue
  <2>2. CASE FastNotify
    <3>1. Range(waiting) \subseteq Still
      <4>1. \A v \in Range(waiting) : v \in Threads /\ PlaceOf(v) /\ FlagOf(v)
        BY InQueue DEF QInv, PlaceInv, FlagInv, QueueShape, Queue
      <4> QED BY <2>2, <4>1 DEF PlaceOf, FlagOf, Still
    <3>2. waiting # <<>> BY <2>1, EmptyQueue DEF Still
    <3>3. Range(Moved(FALSE)) = {Head(waiting)} /\ Range(Moved(FALSE)) \subseteq Range(waiting)
      BY <3>2, MovedQueue
    <3> QED BY <2>1, <2>2, <3>1, <3>3
  <2>3. CASE ~FastNotify BY <2>1, <2>3, Chosen
  <2> QED BY <2>2, <2>3
<1> QED BY <1>1, Invariance, PTL

-----------------------------------------------------------------------------
(* The three-tier monitor implements Monitor. *)

\* What the users see of the lock and of the waits.
lockSeen == <<IF Returned THEN owner ELSE NoThread, IF Returned THEN count ELSE 0>>
WaitsStay == saved' = saved /\ \A v \in Threads : WaitState(v)' = WaitState(v)
Wakes(t) ==
    /\ WaitState(t) = "waiting" /\ WaitState(t)' = "woken" /\ saved' = saved
    /\ \A v \in Threads \ {t} : WaitState(v)' = WaitState(v)
GivesUp(t) ==
    /\ WaitState(t) = "woken" /\ WaitState(t)' = "none" /\ saved' = [saved EXCEPT ![t] = 0]
    /\ \A v \in Threads \ {t} : WaitState(v)' = WaitState(v)

\* The steps in which nobody begins or ends to have the monitor, as its users see it.
LockSteps(t) ==
    \/ Enter(t) \/ TryEnter(t) \/ ClearInterrupted(t) \/ SpuriousWakeup(t)
    \/ SpinBound(t) \/ SpinAdd(t) \/ Spin(t) \/ NotAcquired(t) \/ EnterSlowly(t)
    \/ Block(t) \/ Unblock(t) \/ ExitSwap(t) \/ ExitWake(t) \/ WaitRelease(t) \/ WaitEnqueue(t)
    \/ WaitEnds(t) \/ Resume(t) \/ InterruptBlocked(t) \/ ServerStart(t)

LEMMA LockStays ==
    ASSUME QInv, NEW t \in Threads, LockSteps(t)
    PROVE  UNCHANGED lockSeen
<1>0. /\ pc \in [Threads -> Places] /\ owner \in Threads \cup {NoThread} /\ NoThread \notin Threads
      /\ Servers \subseteq Threads /\ OwnerPlaces /\ ServerPlaces
  BY ThreadsAssumption DEF QInv, IInv, LockType, Threads
<1>c. spinlockState = "UNOWNED" => owner = NoThread
  BY ThreadsAssumption DEF QInv, IInv, LockType, SpinlockHasOneHolder, Holders
<1> USE DEF lockVars, spinVars, queueVars, callVars, serverVars
<1> USE DEF lockSeen, Returned, OwnerPlaces
<1>1. CASE Enter(t) BY <1>0, <1>c, <1>1 DEF Enter, Idle, BeginCall, Goto
<1>2. CASE TryEnter(t) BY <1>0, <1>c, <1>2 DEF TryEnter, Idle, BeginCall, Goto
<1>3. CASE ClearInterrupted(t) BY <1>0, <1>c, <1>3 DEF ClearInterrupted
<1>4. CASE SpuriousWakeup(t) BY <1>0, <1>c, <1>4 DEF SpuriousWakeup
<1>5. CASE SpinBound(t) BY <1>0, <1>c, <1>5 DEF SpinBound, Goto
<1>6. CASE SpinAdd(t) BY <1>0, <1>c, <1>6 DEF SpinAdd, Goto
<1>7. CASE Spin(t) BY <1>0, <1>c, <1>7 DEF Spin, CompareExchange, Goto
<1>8. CASE NotAcquired(t) BY <1>0, <1>c, <1>8 DEF NotAcquired, StopSpinning, Entering, Return, Goto
<1>9. CASE EnterSlowly(t) BY <1>0, <1>c, <1>9 DEF EnterSlowly, FoundUnowned, NowOwnedBy, Goto
<1>10. CASE Block(t) BY <1>0, <1>c, <1>10 DEF Block, NotBlocked, Return, Goto
<1>11. CASE Unblock(t) BY <1>0, <1>c, <1>11 DEF Unblock, NotBlocked, Return, Goto
<1>12. CASE ExitSwap(t) BY <1>0, <1>c, <1>12 DEF ExitSwap, Return, Goto
<1>13. CASE ExitWake(t) BY <1>0, <1>c, <1>13 DEF ExitWake, Signal, Return, Goto
<1>14. CASE WaitRelease(t) BY <1>0, <1>c, <1>14 DEF WaitRelease, Signal, Goto
<1>15. CASE WaitEnqueue(t) BY <1>0, <1>c, <1>15 DEF WaitEnqueue, Signal, Goto
<1>16. CASE WaitEnds(t) BY <1>0, <1>c, <1>16 DEF WaitEnds, Goto
<1>17. CASE Resume(t) BY <1>0, <1>c, <1>17 DEF Resume, Goto
<1>18. CASE InterruptBlocked(t) BY <1>0, <1>c, <1>18 DEF InterruptBlocked, Signal, Return, Goto
<1>19. CASE ServerStart(t) BY <1>0, <1>c, <1>19 DEF ServerStart, Return, Goto
<1> QED
  BY <1>1, <1>2, <1>3, <1>4, <1>5, <1>6, <1>7, <1>8, <1>9, <1>10, <1>11, <1>12, <1>13, <1>14, <1>15,
     <1>16, <1>17, <1>18, <1>19 DEF LockSteps

\* A call that returns without the monitor, a wait among them only if it was aborted.
LEMMA ReturnStays ==
    ASSUME QInv, NEW t \in Threads, Return(t), pc[t] \notin InWait \cup {"wLock", "wEnqueue"},
           \A v \in Threads : "WAITING" \in flags'[v] <=> "WAITING" \in flags[v]
    PROVE  IF op[t] = "wait" THEN GivesUp(t) ELSE WaitsStay
<1>1. /\ saved \in [Threads -> 0..MaxCount] /\ op \in [Threads -> Ops] /\ CallOf(t) /\ FlagOf(t)
  BY DEF QInv, RestType, IInv, LockType, CallInv, FlagInv
<1>2. /\ op' = [op EXCEPT ![t] = "none"] /\ saved' = [saved EXCEPT ![t] = 0] BY DEF Return
<1>3. \A v \in Threads \ {t} : WaitState(v)' = WaitState(v) BY <1>1, <1>2 DEF WaitState
<1>4. CASE op[t] = "wait"
  <2>1. "WAITING" \notin flags[t] BY <1>1 DEF FlagOf
  <2> QED BY <1>1, <1>2, <1>3, <1>4, <2>1 DEF GivesUp, WaitState
<1>5. CASE op[t] # "wait"
  <2>1. saved[t] = 0 BY <1>1, <1>5 DEF CallOf
  <2>2. saved' = saved BY <1>1, <1>2, <2>1
  <2> QED BY <1>1, <1>2, <1>3, <1>5, <2>2 DEF WaitsStay, WaitState
<1> QED BY <1>4, <1>5

LEMMA WaitSteps ==
    ASSUME QInv, NEW t \in Threads, LockSteps(t)
    PROVE  WaitsStay \/ Wakes(t) \/ GivesUp(t)
<1>0. /\ pc \in [Threads -> Places] /\ flags \in [Threads -> SUBSET FlagNames] /\ op \in [Threads -> Ops]
      /\ Servers \subseteq Threads /\ CallOf(t) /\ FlagOf(t)
      /\ \A s \in Servers : CallOf(s) /\ FlagOf(s)
  BY DEF QInv, FlagType, IInv, LockType, Threads, CallInv, FlagInv
<1>r. ASSUME Return(t), pc[t] \notin InWait \cup {"wLock", "wEnqueue"},
             \A v \in Threads : "WAITING" \in flags'[v] <=> "WAITING" \in flags[v]
      PROVE  WaitsStay \/ Wakes(t) \/ GivesUp(t)
  BY <1>r, ReturnStays
<1>k. ASSUME UNCHANGED <<op, saved>>, \A v \in Threads : "WAITING" \in flags'[v] <=> "WAITING" \in flags[v]
      PROVE  WaitsStay
  BY <1>k DEF WaitsStay, WaitState
<1>b. ASSUME saved' = saved, UNCHANGED flags, NEW o \in {"enter", "try_enter"}, op[t] = "none",
             op' = [op EXCEPT ![t] = o]
      PROVE  WaitsStay
  BY <1>0, <1>b DEF WaitsStay, WaitState
<1> USE DEF lockVars, spinVars, queueVars, callVars, serverVars
<1>1. CASE Enter(t) \/ TryEnter(t)
  BY <1>0, <1>b, <1>1 DEF Enter, TryEnter, Idle, BeginCall, CallOf
<1>2. CASE ClearInterrupted(t)
  <2>1. \A v \in Threads : "WAITING" \in flags'[v] <=> "WAITING" \in flags[v]
    BY <1>0, <1>2 DEF ClearInterrupted
  <2> QED BY <1>2, <1>k, <2>1 DEF ClearInterrupted
<1>3. CASE \/ SpuriousWakeup(t) \/ SpinBound(t) \/ SpinAdd(t) \/ Spin(t) \/ EnterSlowly(t)
           \/ WaitRelease(t) \/ WaitEnqueue(t) \/ WaitEnds(t)
  BY <1>3, <1>k DEF SpuriousWakeup, SpinBound, SpinAdd, Spin, EnterSlowly, WaitRelease, WaitEnqueue,
     WaitEnds
<1>4. CASE NotAcquired(t)
  <2>1. UNCHANGED flags /\ pc[t] = "unspun" BY <1>4 DEF NotAcquired
  <2>2. CASE Return(t) BY <1>r, <2>1, <2>2 DEF InWait
  <2>3. CASE UNCHANGED callVars BY <1>k, <2>1, <2>3
  <2>4. CASE op[t] = "interrupt"
    <3>1. PICK s \in Servers : pc[s] = "unborn" /\ op' = [op EXCEPT ![t] = "none", ![s] = "interruptServer"]
      BY <1>4, <2>4 DEF NotAcquired, Entering
    <3>2. op[s] = "none" BY <1>0, <3>1 DEF CallOf
    <3>3. saved' = saved BY <1>4, <2>4 DEF NotAcquired, Entering
    <3> QED BY <1>0, <2>1, <2>4, <3>1, <3>2, <3>3 DEF WaitsStay, WaitState
  <2> QED BY <1>4, <2>2, <2>3, <2>4 DEF NotAcquired
<1>5. CASE Block(t) \/ Unblock(t)
  <2>1. \A v \in Threads : "WAITING" \in flags'[v] <=> "WAITING" \in flags[v]
    BY <1>0, <1>5 DEF Block, Unblock, NotBlocked
  <2>2. pc[t] \in {"enqueue", "blocked"} /\ (Return(t) \/ UNCHANGED callVars) BY <1>5 DEF Block, Unblock
  <2> QED BY <1>r, <1>k, <2>1, <2>2 DEF InWait
<1>6. CASE ExitSwap(t) \/ ExitWake(t) \/ InterruptBlocked(t) \/ ServerStart(t)
  <2>1. /\ UNCHANGED flags /\ pc[t] \in {"exSwap", "exLock", "iBlocked", "born"}
        /\ Return(t) \/ UNCHANGED callVars
    BY <1>6 DEF ExitSwap, ExitWake, InterruptBlocked, ServerStart
  <2> QED BY <1>r, <1>k, <2>1 DEF InWait
<1>7. CASE Resume(t)
  <2>1. UNCHANGED callVars /\ pc[t] \in {"wakeup", "timeout"} BY <1>7 DEF Resume
  <2>2. CASE UNCHANGED flags BY <1>k, <2>1, <2>2
  <2>3. CASE Leaves(t)
    <3>1. op[t] = "wait" BY <1>0, <2>1 DEF CallOf, InWait
    <3> QED BY <2>1, <2>3, <3>1 DEF Leaves, WaitsStay, Wakes, WaitState
  <2> QED BY <1>7, <2>2, <2>3, ResumeEffect
<1> QED BY <1>1, <1>2, <1>3, <1>4, <1>5, <1>6, <1>7 DEF LockSteps

\* A step of the detailed monitor that is one of the abstract monitor.
LEMMA AbstractSteps ==
    ASSUME NEW t \in Threads
    PROVE  /\ UNCHANGED lockSeen /\ WaitsStay => UNCHANGED Mon!monitorVars
           /\ UNCHANGED lockSeen /\ Wakes(t) => Mon!Wake(t)
           /\ UNCHANGED lockSeen /\ GivesUp(t) => Mon!GiveUp(t)
<1> DEFINE w == [v \in Threads |-> WaitState(v)]
<1>1. (\A v \in Threads : WaitState(v)' = WaitState(v)) => w' = w OBVIOUS
<1>2. Wakes(t) => w' = [w EXCEPT ![t] = "woken"] /\ w[t] = "waiting" BY DEF Wakes
<1>3. GivesUp(t) => w' = [w EXCEPT ![t] = "none"] /\ w[t] = "woken" BY DEF GivesUp
<1> QED BY <1>1, <1>2, <1>3
        DEF lockSeen, WaitsStay, Wakes, GivesUp, Mon!monitorVars, Mon!Wake, Mon!GiveUp

ownerSeen == IF Returned THEN owner ELSE NoThread
countSeen == IF Returned THEN count ELSE 0

LEMMA AbstractLock ==
    ASSUME NEW t \in Threads, WaitsStay
    PROVE  /\ /\ WaitState(t) = "none" /\ ownerSeen' = t
              /\ \/ ownerSeen = t /\ countSeen' = countSeen + 1
                 \/ ownerSeen = NoThread /\ countSeen' = 1
              => Mon!Enter(t)
           /\ /\ ownerSeen = t /\ countSeen' = countSeen - 1
              /\ ownerSeen' = IF countSeen = 1 THEN NoThread ELSE t
              => Mon!Exit(t)
<1> DEFINE w == [v \in Threads |-> WaitState(v)]
<1>1. w' = w /\ saved' = saved BY DEF WaitsStay
<1> QED BY <1>1 DEF ownerSeen, countSeen, Mon!Enter, Mon!Exit

\* The steps with which the owner of the monitor comes to have it or ceases to.
LEMMA EnterStep ==
    ASSUME QInv, NEW t \in Threads, EnterRecursively(t) \/ Acquired(t)
    PROVE  Mon!Enter(t) \/ UNCHANGED Mon!monitorVars
<1>0. /\ pc \in [Threads -> Places] /\ owner \in Threads \cup {NoThread} /\ NoThread \notin Threads
      /\ count \in Nat /\ Servers \subseteq Threads /\ OwnerPlaces /\ CallOf(t) /\ op \in [Threads -> Ops]
      /\ saved \in [Threads -> 0..MaxCount]
  BY ThreadsAssumption DEF QInv, IInv, LockType, Threads, CallInv, RestType
<1> USE DEF lockVars, spinVars, queueVars, callVars, serverVars
<1>1. CASE EnterRecursively(t)
  <2>1. WaitsStay /\ WaitState(t) = "none" BY <1>0, <1>1 DEF EnterRecursively, Idle, CallOf, WaitsStay, WaitState
  <2>2. ownerSeen = t /\ countSeen = count /\ ownerSeen' = t /\ countSeen' = count + 1
    BY <1>0, <1>1 DEF EnterRecursively, Idle, ownerSeen, countSeen, Returned
  <2> QED BY <2>1, <2>2, AbstractLock
<1>2. CASE Acquired(t)
  <2>1. pc[t] = "spun" /\ owner' = t /\ count' = 1 /\ UNCHANGED flags BY <1>2 DEF Acquired, NowOwnedBy
  <2>2. owner = NoThread
    BY <1>0, <2>1 DEF QInv, IInv, SpinlockHasOneHolder, Holders, OwnerPlaces
  <2>3. ownerSeen = NoThread /\ countSeen = 0 BY <2>2 DEF ownerSeen, countSeen, Returned
  <2>4. CASE Entering(t)
    <3>1. pc' = [pc EXCEPT ![t] = "post"] /\ UNCHANGED callVars
      BY <1>2, <2>4 DEF Acquired, Entering, Goto
    <3>2. UNCHANGED lockSeen BY <1>0, <2>1, <2>2, <3>1 DEF lockSeen, Returned
    <3>3. WaitsStay BY <2>1, <3>1 DEF WaitsStay, WaitState
    <3> QED BY <3>2, <3>3, AbstractSteps
  <2>5. CASE op[t] = "try_enter"
    <3>1. Return(t) BY <1>2, <2>5 DEF Acquired, Entering
    <3>2. WaitsStay
      <4>1. pc[t] \notin InWait \cup {"wLock", "wEnqueue"} BY <2>1 DEF InWait
      <4> QED BY <2>1, <2>5, <3>1, <4>1, ReturnStays
    <3>3. pc'[t] \in {"idle", "unborn"} BY <1>0, <3>1 DEF Return, Goto
    <3>4. ownerSeen' = t /\ countSeen' = 1 BY <1>0, <2>1, <3>3 DEF ownerSeen, countSeen, Returned
    <3> QED BY <2>3, <2>5, <3>2, <3>4, AbstractLock DEF WaitState
  <2>6. CASE op[t] = "interrupt"
    <3>1. pc'[t] = "iGot" /\ UNCHANGED callVars BY <1>0, <1>2, <2>6 DEF Acquired, Entering, Goto
    <3>2. WaitsStay BY <2>1, <3>1 DEF WaitsStay, WaitState
    <3>4. ownerSeen' = t /\ countSeen' = 1 BY <1>0, <2>1, <3>1 DEF ownerSeen, countSeen, Returned
    <3> QED BY <2>3, <2>6, <3>2, <3>4, AbstractLock DEF WaitState
  <2> QED BY <1>2, <2>4, <2>5, <2>6 DEF Acquired
<1> QED BY <1>1, <1>2

LEMMA EnterDoneStep ==
    ASSUME QInv, NEW t \in Threads, EnterDone(t)
    PROVE  Mon!Enter(t) \/ Mon!Reacquire(t) \/ UNCHANGED Mon!monitorVars
<1>0. /\ pc \in [Threads -> Places] /\ owner \in Threads \cup {NoThread} /\ NoThread \notin Threads
      /\ count \in Nat /\ Servers \subseteq Threads /\ OwnerPlaces /\ CallOf(t) /\ FlagOf(t)
      /\ op \in [Threads -> Ops] /\ saved \in [Threads -> 0..MaxCount]
      /\ flags \in [Threads -> SUBSET FlagNames]
  BY ThreadsAssumption DEF QInv, IInv, LockType, Threads, CallInv, FlagInv, RestType, FlagType
<1> USE DEF lockVars, spinVars, queueVars, callVars, serverVars
<1>1. pc[t] = "post" /\ owner = t /\ count = 1 /\ Entering(t) /\ "WAITING" \notin flags[t]
  BY <1>0 DEF EnterDone, OwnerPlaces, CallOf, FlagOf, InWait
<1>2. \A v \in Threads : "WAITING" \in flags'[v] <=> "WAITING" \in flags[v]
  BY <1>0 DEF EnterDone, NotBlocked
<1>3. ownerSeen = NoThread /\ countSeen = 0 BY <1>1 DEF ownerSeen, countSeen, Returned
<1>4. CASE IsAborted(t)
  <2>1. owner' = NoThread /\ UNCHANGED callVars BY <1>4 DEF EnterDone
  <2>2. WaitsStay BY <1>2, <2>1 DEF WaitsStay, WaitState
  <2>3. UNCHANGED lockSeen BY <1>1, <2>1 DEF lockSeen, Returned
  <2> QED BY <2>2, <2>3, AbstractSteps
<1>5. CASE ~IsAborted(t) /\ op[t] = "interruptServer"
  <2>1. pc'[t] = "sGot" /\ UNCHANGED <<owner, count>> /\ UNCHANGED callVars
    BY <1>0, <1>5 DEF EnterDone, Goto
  <2>2. WaitsStay BY <1>2, <2>1 DEF WaitsStay, WaitState
  <2>3. ownerSeen' = t /\ countSeen' = 1 BY <1>0, <1>1, <2>1 DEF ownerSeen, countSeen, Returned
  <2> QED BY <1>3, <1>5, <2>2, <2>3, AbstractLock DEF WaitState
<1>6. CASE ~IsAborted(t) /\ op[t] \in {"enter", "wait"}
  <2>1. /\ Return(t) /\ owner' = t /\ count' = IF op[t] = "wait" THEN saved[t] ELSE 1
    BY <1>1, <1>6 DEF EnterDone, RestoredCount
  <2>2. pc'[t] \in {"idle", "unborn"} BY <1>0, <2>1 DEF Return, Goto
  <2>3. ownerSeen' = t /\ countSeen' = count' BY <1>0, <2>1, <2>2 DEF ownerSeen, countSeen, Returned
  <2>4. IF op[t] = "wait" THEN GivesUp(t) ELSE WaitsStay
    <3>1. pc[t] \notin InWait \cup {"wLock", "wEnqueue"} BY <1>1 DEF InWait
    <3> QED BY <1>2, <2>1, <3>1, ReturnStays
  <2>5. CASE op[t] = "wait"
    <3> DEFINE w == [v \in Threads |-> WaitState(v)]
    <3>1. w[t] = "woken" /\ w' = [w EXCEPT ![t] = "none"] /\ saved' = [saved EXCEPT ![t] = 0]
      BY <2>4, <2>5 DEF GivesUp
    <3> QED BY <1>3, <2>1, <2>3, <2>5, <3>1 DEF ownerSeen, countSeen, Mon!Reacquire
  <2>6. CASE op[t] = "enter"
    BY <1>3, <2>1, <2>3, <2>4, <2>6, AbstractLock DEF WaitState
  <2> QED BY <1>6, <2>5, <2>6
<1> QED BY <1>1, <1>4, <1>5, <1>6 DEF Entering

LEMMA ExitStep ==
    ASSUME QInv, NEW t \in Threads, Exit(t) \/ InterruptWaiting(t) \/ ServerInterrupts(t)
    PROVE  Mon!Exit(t)
<1>0. /\ pc \in [Threads -> Places] /\ owner \in Threads \cup {NoThread} /\ NoThread \notin Threads
      /\ count \in Nat /\ Servers \subseteq Threads /\ OwnerPlaces /\ CallOf(t) /\ FlagOf(t)
      /\ op \in [Threads -> Ops] /\ saved \in [Threads -> 0..MaxCount]
      /\ flags \in [Threads -> SUBSET FlagNames]
  BY ThreadsAssumption DEF QInv, IInv, LockType, Threads, CallInv, FlagInv, RestType, FlagType
<1> USE DEF lockVars, spinVars, queueVars, callVars, serverVars
<1>1. owner = t /\ pc[t] \in {"idle", "iGot", "sGot"} /\ count' = count - 1
  <2>1. CASE ServerInterrupts(t) BY <1>0, <2>1 DEF ServerInterrupts, OwnerPlaces, CallOf
  <2>2. CASE Exit(t) BY <2>2 DEF Exit, Idle
  <2>3. CASE InterruptWaiting(t) BY <1>0, <2>3 DEF InterruptWaiting, OwnerPlaces
  <2> QED BY <2>1, <2>2, <2>3
<1>2. ownerSeen = t /\ countSeen = count BY <1>0, <1>1 DEF ownerSeen, countSeen, Returned
<1>3. \/ count = 1 /\ owner' = NoThread
      \/ count # 1 /\ owner' = t /\ pc'[t] \in {"idle", "unborn"}
  <2>1. CASE ServerInterrupts(t) BY <1>0, <2>1 DEF ServerInterrupts, OwnerPlaces, CallOf
  <2>2. CASE Exit(t) BY <1>1, <2>2 DEF Exit, Idle
  <2>3. CASE InterruptWaiting(t) BY <1>0, <1>1, <2>3 DEF InterruptWaiting, Return, Goto
  <2> QED BY <2>1, <2>2, <2>3
<1>4. ownerSeen' = (IF count = 1 THEN NoThread ELSE t) /\ countSeen' = count - 1
  BY <1>0, <1>1, <1>3 DEF ownerSeen, countSeen, Returned
<1>5. WaitsStay
  <2>1. CASE ServerInterrupts(t)
    <3>1. \A v \in Threads : "WAITING" \in flags'[v] <=> "WAITING" \in flags[v]
      BY <1>0, <2>1 DEF ServerInterrupts, InterruptWake
    <3> QED BY <2>1, <3>1 DEF ServerInterrupts, WaitsStay, WaitState
  <2>2. CASE Exit(t)
    <3>1. UNCHANGED <<flags, saved>> /\ op[t] = "none" /\ op \in [Threads -> Ops]
          /\ (op' = op \/ op' = [op EXCEPT ![t] = "exit"])
      BY <1>0, <2>2 DEF Exit, Idle, BeginCall, CallOf
    <3> QED BY <3>1 DEF WaitsStay, WaitState
  <2>3. CASE InterruptWaiting(t)
    <3>1. \A v \in Threads : "WAITING" \in flags'[v] <=> "WAITING" \in flags[v]
      BY <1>0, <2>3 DEF InterruptWaiting, InterruptWake
    <3>2. pc[t] = "iGot" /\ op[t] = "interrupt" BY <1>0, <2>3 DEF InterruptWaiting, CallOf
    <3>3. CASE Return(t) BY <3>1, <3>2, <3>3, ReturnStays DEF InWait
    <3>4. CASE UNCHANGED callVars BY <3>1, <3>4 DEF WaitsStay, WaitState
    <3> QED BY <2>3, <3>3, <3>4 DEF InterruptWaiting
  <2> QED BY <2>1, <2>2, <2>3
<1> QED BY <1>2, <1>4, <1>5, AbstractLock

LEMMA WaitStep ==
    ASSUME QInv, NEW t \in Threads, Wait(t)
    PROVE  Mon!Wait(t) \/ UNCHANGED Mon!monitorVars
<1>0. /\ pc \in [Threads -> Places] /\ owner \in Threads \cup {NoThread} /\ NoThread \notin Threads
      /\ op \in [Threads -> Ops] /\ saved \in [Threads -> 0..MaxCount] /\ CallOf(t)
      /\ flags \in [Threads -> SUBSET FlagNames]
  BY ThreadsAssumption DEF QInv, IInv, LockType, CallInv, RestType, FlagType
<1>1. pc[t] = "idle" /\ owner = t /\ op[t] = "none" BY <1>0 DEF Wait, CallOf
<1>2. CASE UNCHANGED <<owner, count, pc, op, abortable, saved>>
              /\ \E f \in {{}, {"INTERRUPTED"}, {"PRIORITY_INTERRUPTED"}} : flags' = [flags EXCEPT ![t] = @ \ f]
  <2>1. \A v \in Threads : "WAITING" \in flags'[v] <=> "WAITING" \in flags[v] BY <1>0, <1>2
  <2>2. WaitsStay /\ UNCHANGED lockSeen BY <1>2, <2>1 DEF WaitsStay, WaitState, lockSeen, Returned
  <2> QED BY <2>2, AbstractSteps
<1>3. CASE owner' = NoThread
  <2>1. /\ owner' = NoThread /\ count' = 0 /\ saved' = [saved EXCEPT ![t] = count]
        /\ op' = [op EXCEPT ![t] = "wait"] 
        /\ \E f \in SUBSET {"TIMER_SET", "ABORTABLE", "INTERRUPTABLE"} :
              flags' = [flags EXCEPT ![t] = @ \cup {"WAITING"} \cup f]
    BY <1>0, <1>1, <1>3, WaitEffect
  <2>2. ownerSeen = t /\ countSeen = count /\ ownerSeen' = NoThread /\ countSeen' = 0
    BY <1>0, <1>1, <2>1 DEF ownerSeen, countSeen, Returned
  <2>3. /\ WaitState(t)' = "waiting"
        /\ \A v \in Threads \ {t} : WaitState(v)' = WaitState(v)
    BY <1>0, <2>1 DEF WaitState
  <2> DEFINE w == [v \in Threads |-> WaitState(v)]
  <2>4. w' = [w EXCEPT ![t] = "waiting"] BY <2>3
  <2>5. saved' = [saved EXCEPT ![t] = countSeen] BY <2>1, <2>2
  <2> QED BY <2>2, <2>4, <2>5 DEF ownerSeen, countSeen, Mon!Wait
<1> QED BY <1>2, <1>3, WaitEffect

LEMMA NotifyRefines ==
    ASSUME QInv, NEW t \in Threads, Notify(t)
    PROVE  Mon!Notify(t) \/ Mon!NotifyAll(t)
<1>0. /\ owner = t /\ pc[t] = "idle" /\ mutex = NoThread /\ t # NoThread
      /\ UNCHANGED <<owner, count, pc, op, saved>> /\ flags \in [Threads -> SUBSET FlagNames]
  BY ThreadsAssumption DEF Notify, callVars, QInv, FlagType
<1>1. PICK all \in BOOLEAN, S \in SUBSET Threads :
              /\ NotifyFlags(S)
              /\ IF FastNotify THEN NotifyThreeTier(all) /\ S = Range(Moved(all))
                 ELSE NotifyOriginal(all) /\ S = ChosenToNotify(all)
              /\ S \subseteq Range(waiting)
  BY NotifyEffect
<1>2. Mon!Waiters = Still BY <1>0, WaitersQueue
<1>3. /\ S \subseteq Still /\ (all => S = Still)
      /\ ~all => (Still = {} /\ S = {}) \/ \E u \in Still : S = {u}
  <2>1. CASE FastNotify
    <3>1. Range(waiting) = Still
      <4>1. \A v \in Range(waiting) : v \in Threads /\ PlaceOf(v) /\ FlagOf(v)
        BY InQueue DEF QInv, PlaceInv, FlagInv, QueueShape, Queue
      <4> QED BY <2>1, <4>1 DEF PlaceOf, FlagOf, Still
    <3>2. CASE all BY <1>1, <2>1, <3>1, <3>2, MovedQueue
    <3>3. CASE ~all /\ waiting # <<>> BY <1>1, <2>1, <3>1, <3>3, MovedQueue
    <3>4. CASE ~all /\ waiting = <<>>
      BY <1>1, <2>1, <3>1, <3>4, MovedQueue, EmptyQueue
    <3> QED BY <3>2, <3>3, <3>4
  <2>2. CASE ~FastNotify
    <3>0. S = ChosenToNotify(all) BY <1>1, <2>2
    <3>1. CASE all = TRUE
      <4>1. S = ChosenToNotify(TRUE) BY <3>0, <3>1, Zenon
      <4> QED BY <3>1, <4>1, Chosen
    <3>2. CASE all = FALSE
      <4>1. S = ChosenToNotify(FALSE) BY <3>0, <3>2, Zenon
      <4> QED BY <3>2, <4>1, Chosen
    <3> QED BY <3>1, <3>2
  <2> QED BY <2>1, <2>2
<1> DEFINE w == [v \in Threads |-> WaitState(v)]
<1>4. w' = [v \in Threads |-> IF v \in S THEN "woken" ELSE w[v]]
  <2>1. ASSUME NEW v \in Threads, v \in S PROVE WaitState(v)' = "woken"
    <3>1. v \in Mon!Waiters BY <1>2, <1>3, <2>1
    <3>2. op[v] = "wait" BY <3>1 DEF Mon!Waiters, WaitState
    <3>3. "WAITING" \notin flags'[v] BY <1>0, <1>1, <2>1 DEF NotifyFlags
    <3> QED BY <1>0, <3>2, <3>3 DEF WaitState
  <2>2. ASSUME NEW v \in Threads, v \notin S PROVE WaitState(v)' = WaitState(v)
    BY <1>0, <1>1, <2>2 DEF NotifyFlags, WaitState
  <2> QED BY <2>1, <2>2
<1>5. ownerSeen = t /\ ownerSeen' = ownerSeen /\ countSeen' = countSeen
  BY <1>0 DEF ownerSeen, countSeen, Returned
<1>6. CASE all
  <2>1. w' = [v \in Threads |-> IF v \in Mon!Waiters THEN "woken" ELSE w[v]] BY <1>2, <1>3, <1>4, <1>6
  <2> QED BY <1>0, <1>5, <2>1 DEF ownerSeen, countSeen, Mon!NotifyAll
<1>7. CASE ~all /\ S = {} /\ Still = {}
  <2>1. w' = w BY <1>4, <1>7
  <2> QED BY <1>0, <1>2, <1>5, <1>7, <2>1 DEF ownerSeen, countSeen, Mon!Notify
<1>8. CASE ~all /\ \E u \in Still : S = {u}
  <2>1. PICK u \in Mon!Waiters : S = {u} BY <1>2, <1>8
  <2>2. w' = [w EXCEPT ![u] = "woken"] BY <1>4, <2>1
  <2> QED BY <1>0, <1>5, <2>1, <2>2 DEF ownerSeen, countSeen, Mon!Notify
<1> QED BY <1>3, <1>6, <1>7, <1>8

LEMMA InterruptRefines ==
    ASSUME QInv, NEW t \in Threads, NEW u \in Callers \ {t}, NEW f \in InterruptKinds, Interrupt(t, u, f)
    PROVE  Mon!Enter(t) \/ UNCHANGED Mon!monitorVars
<1>0. /\ pc \in [Threads -> Places] /\ owner \in Threads \cup {NoThread} /\ NoThread \notin Threads
      /\ op \in [Threads -> Ops] /\ saved' = saved /\ CallOf(t) /\ u \in Threads
      /\ flags \in [Threads -> SUBSET FlagNames] /\ f # "WAITING" /\ owner' = owner
  BY ThreadsAssumption, ModeAssumption DEF QInv, IInv, LockType, CallInv, FlagType, Threads,
     Interrupt
<1>1. pc[t] = "idle" /\ op[t] = "none" /\ (op' = op \/ op' = [op EXCEPT ![t] = "interrupt"])
      /\ flags' = [flags EXCEPT ![u] = @ \cup {f}]
  BY <1>0 DEF Interrupt, BeginInterrupt, CallOf
<1>2. WaitsStay /\ WaitState(t) = "none"
  <2>1. \A v \in Threads : "WAITING" \in flags'[v] <=> "WAITING" \in flags[v] BY <1>0, <1>1
  <2> QED BY <1>0, <1>1, <2>1 DEF WaitsStay, WaitState
<1>3. \/ count' = count /\ (pc' = pc \/ \E p \in Places \ {"post"} : pc' = [pc EXCEPT ![t] = p])
      \/ owner = t /\ count' = count + 1 /\ pc' = [pc EXCEPT ![t] = "iGot"]
  BY <1>0 DEF Interrupt, BeginInterrupt, Goto, Places
<1>4. CASE count' = count /\ (pc' = pc \/ \E p \in Places \ {"post"} : pc' = [pc EXCEPT ![t] = p])
  <2>1. UNCHANGED lockSeen BY <1>0, <1>1, <1>4 DEF lockSeen, Returned
  <2> QED BY <1>2, <2>1, AbstractSteps
<1>5. CASE owner = t /\ count' = count + 1 /\ pc' = [pc EXCEPT ![t] = "iGot"]
  <2>1. ownerSeen = t /\ ownerSeen' = t /\ countSeen' = countSeen + 1
    BY <1>0, <1>1, <1>5 DEF ownerSeen, countSeen, Returned
  <2> QED BY <1>2, <2>1, AbstractLock
<1> QED BY <1>3, <1>4, <1>5

LEMMA NextRefines == QInv /\ [Next]_vars => [Mon!Next]_(Mon!monitorVars)
<1> SUFFICES ASSUME QInv, [Next]_vars PROVE [Mon!Next]_(Mon!monitorVars)
  OBVIOUS
<1>1. CASE UNCHANGED vars
  <2>1. UNCHANGED lockSeen /\ WaitsStay
    BY <1>1 DEF vars, lockVars, callVars, lockSeen, Returned, WaitsStay, WaitState
  <2>2. CASE Threads = {}
    <3>1. [v \in Threads |-> WaitState(v)]' = [v \in Threads |-> WaitState(v)] BY <2>2
    <3> QED BY <2>1, <3>1 DEF lockSeen, WaitsStay, Mon!monitorVars
  <2>3. CASE Threads # {} BY <2>1, <2>3, AbstractSteps
  <2> QED BY <2>2, <2>3
<1>2. CASE Next
  <2>1. PICK t \in Threads : Acts(t) BY <1>2 DEF Next, Acts
  <2>2. CASE LockSteps(t)
    <3>1. Mon!Wake(t) \/ Mon!GiveUp(t) \/ UNCHANGED Mon!monitorVars
      BY <2>2, LockStays, WaitSteps, AbstractSteps
    <3> QED BY <3>1 DEF Mon!Next
  <2>3. CASE EnterRecursively(t) \/ Acquired(t) BY <2>3, EnterStep DEF Mon!Next
  <2>4. CASE EnterDone(t) BY <2>4, EnterDoneStep DEF Mon!Next
  <2>5. CASE Exit(t) \/ InterruptWaiting(t) \/ ServerInterrupts(t) BY <2>5, ExitStep DEF Mon!Next
  <2>6. CASE Wait(t) BY <2>6, WaitStep DEF Mon!Next
  <2>7. CASE Notify(t) BY <2>7, NotifyRefines DEF Mon!Next
  <2>8. CASE \E u \in Callers \ {t}, f \in InterruptKinds : Interrupt(t, u, f)
    BY <2>8, InterruptRefines DEF Mon!Next
  <2> QED BY <2>1, <2>2, <2>3, <2>4, <2>5, <2>6, <2>7, <2>8 DEF Acts, Step, LockSteps
<1> QED BY <1>1, <1>2

\* The three-tier monitor implements the abstract one: one thread at a time has it, only
\* its owner releases it, waits or notifies, and a wait that returns with the monitor has
\* its entry count back, although the code takes the lock with three different atomic
\* operations and hands notified threads from one queue to another.
THEOREM MonitorRefinement == Spec => ImplementsMonitor
<1>1. Init => Mon!Init
  BY DEF Init, Mon!Init, Returned, WaitState
<1> QED BY <1>1, NextRefines, Invariance, PTL DEF Spec, Mon!Spec, ImplementsMonitor

-----------------------------------------------------------------------------
(* Nobody is left asleep on a free monitor. *)

\* In a build with OMR_THR_SPIN_WAKE_CONTROL an exit wakes nobody if a thread spins.  That
\* thread then has to try until it gets the monitor: try_enter, if it spins, does not, nor
\* does an aborted thread.
SpinnersInsist ==
    SpinWakeControl => ("try_enter" \notin Calls \/ ~TryEnterSpin) /\ "ABORTED" \notin InterruptKinds

\* A thread that nobody has woken, or that is about to go to sleep.
Asleep(t) == Sleeping(t) \/ pc[t] = "enqueue"

\* WillTryOrWake, for a thread that does not give up before it has the monitor.
Insists(t) ==
    \/ pc[t] \in {"exLock", "wEnqueue"}
    \/ pc[t] \in {"bound", "spinAdd", "spin", "unspun", "mlock"} /\ op[t] # "try_enter"
    \/ pc[t] = "born" /\ ~canceled[t] /\ interrupter[target[t]] = t
    \/ t \in Range(blocking) /\ ~Sleeping(t)

SpinnerOf(t) ==
    /\ op[t] = "interrupt" => target[t] \in Threads
    /\ pc[t] = "born" => op[t] = "interruptServer"
    /\ SpinWakeControl =>
        /\ spinning[t] \/ pc[t] \in {"bound", "spinAdd"} => op[t] # "try_enter"
        /\ "ABORTED" \notin flags[t]
SpinnerInv == \A t \in Threads : SpinnerOf(t)

WakeInv ==
    (\E t \in Threads : Asleep(t)) =>
        IF SpinWakeControl THEN spinlockState = "UNOWNED" => \E t \in Threads : Insists(t)
        ELSE spinlockState = "EXCEEDED" \/ \E t \in Threads : pc[t] = "exLock"

LEMMA SpinnerStep ==
    ASSUME SpinnersInsist, QInv, SpinnerInv, NEW t \in Threads, Acts(t), NEW v \in Threads
    PROVE  SpinnerOf(v)'
<1>0. /\ pc \in [Threads -> Places] /\ op \in [Threads -> Ops] /\ flags \in [Threads -> SUBSET FlagNames]
      /\ target \in [Threads -> Threads \cup {NoThread}] /\ spinning \in [Threads -> BOOLEAN]
      /\ Servers \subseteq Threads /\ Callers \subseteq Threads /\ SpinnerOf(v) /\ SpinnerOf(t)
      /\ CallOf(v) /\ (spinning[v] => pc[v] \in {"spin", "spun", "unspun"})
      /\ SpinWakeControl => ("try_enter" \notin Calls \/ ~TryEnterSpin) /\ "ABORTED" \notin InterruptKinds
  BY DEF QInv, FlagType, RestType, BoolType, IInv, LockType, Threads, SpinnerInv, CallInv, SpinInv,
     SpinnersInsist

<1> USE DEF lockVars, spinVars, queueVars, callVars, serverVars
<1> USE DEF SpinnerOf, CallOf, InWait
<1>1. CASE EnterRecursively(t) BY <1>0, <1>1 DEF EnterRecursively, Idle
<1>2. CASE Enter(t) BY <1>0, <1>2 DEF Enter, Idle, BeginCall, Goto
<1>3. CASE TryEnter(t) BY <1>0, <1>3 DEF TryEnter, Idle, BeginCall, Goto
<1>4. CASE Exit(t) BY <1>0, <1>4 DEF Exit, Idle, BeginCall, Goto
<1>5. CASE Wait(t)
  <2>1. \A x \in Threads : "ABORTED" \in flags'[x] => "ABORTED" \in flags[x] BY <1>0, <1>5, WaitEffect
  <2>2. \/ UNCHANGED <<pc, op>> \/ (pc' = [pc EXCEPT ![t] = "wLock"] /\ op' = [op EXCEPT ![t] = "wait"])
    BY <1>5, WaitEffect
  <2>3. UNCHANGED <<spinning, target>> BY <1>5 DEF Wait
  <2> QED BY <1>0, <2>1, <2>2, <2>3
<1>6. CASE Notify(t)
  <2>1. \A x \in Threads : "ABORTED" \in flags'[x] => "ABORTED" \in flags[x]
    BY <1>0, <1>6, NotifyEffect DEF NotifyFlags
  <2>2. UNCHANGED <<pc, op, spinning, target>> BY <1>6 DEF Notify
  <2> QED BY <1>0, <2>1, <2>2
<1>7. CASE ClearInterrupted(t) BY <1>0, <1>7 DEF ClearInterrupted
<1>8. CASE SpuriousWakeup(t) BY <1>0, <1>8 DEF SpuriousWakeup
<1>9. ASSUME NEW u \in Callers \ {t}, NEW f \in InterruptKinds, Interrupt(t, u, f)
      PROVE  SpinnerOf(v)'
  BY <1>0, <1>9 DEF Interrupt, BeginInterrupt, Goto, Signal
<1>10. CASE SpinBound(t) BY <1>0, <1>10 DEF SpinBound, Goto
<1>11. CASE SpinAdd(t) BY <1>0, <1>11 DEF SpinAdd, Goto
<1>12. CASE Spin(t) BY <1>0, <1>12 DEF Spin, CompareExchange, Goto
<1>13. CASE Acquired(t) BY <1>0, <1>13 DEF Acquired, StopSpinning, NowOwnedBy, Entering, Return, Goto
<1>14. CASE NotAcquired(t) BY <1>0, <1>14 DEF NotAcquired, StopSpinning, Entering, Return, Goto
<1>15. CASE EnterSlowly(t) BY <1>0, <1>15 DEF EnterSlowly, FoundUnowned, NowOwnedBy, Goto
<1>16. CASE Block(t) BY <1>0, <1>16 DEF Block, NotBlocked, Return, Goto
<1>17. CASE Unblock(t) BY <1>0, <1>17 DEF Unblock, NotBlocked, Return, Goto, Entering
<1>18. CASE EnterDone(t) BY <1>0, <1>18 DEF EnterDone, NotBlocked, RestoredCount, Return, Goto
<1>19. CASE ExitSwap(t) BY <1>0, <1>19 DEF ExitSwap, Return, Goto
<1>20. CASE ExitWake(t) BY <1>0, <1>20 DEF ExitWake, Signal, Return, Goto
<1>21. CASE WaitRelease(t) BY <1>0, <1>21 DEF WaitRelease, Signal, Goto
<1>22. CASE WaitEnqueue(t) BY <1>0, <1>22 DEF WaitEnqueue, Signal, Goto
<1>23. CASE WaitEnds(t) BY <1>0, <1>23 DEF WaitEnds, Goto
<1>24. CASE Resume(t)
  <2>1. \A x \in Threads : "ABORTED" \in flags'[x] => "ABORTED" \in flags[x] BY <1>0, <1>24 DEF Resume
  <2>2. pc[t] \in {"wakeup", "timeout"} /\ \E p \in {"waiting", "bound"} : pc' = [pc EXCEPT ![t] = p]
    BY <1>24 DEF Resume, Goto
  <2>3. UNCHANGED <<spinning, target, op>> BY <1>24 DEF Resume
  <2>4. v = t => op[v] = "wait" BY <1>0, <2>2 DEF CallOf, InWait
  <2> QED BY <1>0, <2>1, <2>2, <2>3, <2>4
<1>25. CASE InterruptBlocked(t) BY <1>0, <1>25 DEF InterruptBlocked, Signal, Return, Goto
<1>26. CASE InterruptWaiting(t)
  <2>1. \A x \in Threads : "ABORTED" \in flags'[x] => "ABORTED" \in flags[x]
    BY <1>0, <1>26 DEF InterruptWaiting, InterruptWake
  <2>2. /\ UNCHANGED spinning
        /\ \/ pc' = [pc EXCEPT ![t] = "exSwap"] /\ UNCHANGED <<op, target>>
           \/ /\ \E p \in {"idle", "unborn"} : pc' = [pc EXCEPT ![t] = p]
              /\ op' = [op EXCEPT ![t] = "none"] /\ target' = [target EXCEPT ![t] = NoThread]
    BY <1>26 DEF InterruptWaiting, Return, Goto
  <2> QED BY <1>0, <2>1, <2>2
<1>27. CASE ServerStart(t) BY <1>0, <1>27 DEF ServerStart, Return, Goto
<1>28. CASE ServerInterrupts(t) BY <1>0, <1>28 DEF ServerInterrupts, InterruptWake, Signal, Goto
<1> QED
  BY <1>1, <1>2, <1>3, <1>4, <1>5, <1>6, <1>7, <1>8, <1>9, <1>10, <1>11, <1>12, <1>13, <1>14, <1>15,
     <1>16, <1>17, <1>18, <1>19, <1>20, <1>21, <1>22, <1>23, <1>24, <1>25, <1>26, <1>27, <1>28
     DEF Acts, Step

\* Who is about to look for blocked threads does so, and nobody else takes the mark away.
LEMMA MarkStays ==
    ASSUME QInv, NEW t \in Threads, Acts(t)
    PROVE  /\ ~ExitWake(t) => \A v \in Threads : pc[v] = "exLock" => pc'[v] = "exLock"
           /\ ~ExitSwap(t) /\ ~WaitRelease(t) /\ spinlockState = "EXCEEDED" => spinlockState' = "EXCEEDED"
<1>0. pc \in [Threads -> Places] /\ Servers \subseteq Threads BY DEF QInv, IInv, LockType, Threads
<1> DEFINE Stays == /\ ~ExitWake(t) => \A v \in Threads : pc[v] = "exLock" => pc'[v] = "exLock"
                    /\ ~ExitSwap(t) /\ ~WaitRelease(t) /\ spinlockState = "EXCEEDED" => spinlockState' = "EXCEEDED"

<1> USE DEF lockVars, spinVars, queueVars, callVars, serverVars
<1>1. CASE EnterRecursively(t) BY <1>0, <1>1 DEF EnterRecursively, Idle
<1>2. CASE Enter(t) BY <1>0, <1>2 DEF Enter, Idle, BeginCall, Goto
<1>3. CASE TryEnter(t) BY <1>0, <1>3 DEF TryEnter, Idle, BeginCall, Goto
<1>4. CASE Exit(t) BY <1>0, <1>4 DEF Exit, Idle, BeginCall, Goto
<1>5. CASE Wait(t)
  BY <1>0, <1>5, WaitEffect DEF Wait
<1>6. CASE Notify(t) BY <1>0, <1>6 DEF Notify, NotifyOriginal, NotifyThreeTier, NotifyFlags, Signal
<1>7. CASE ClearInterrupted(t) BY <1>0, <1>7 DEF ClearInterrupted
<1>8. CASE SpuriousWakeup(t) BY <1>0, <1>8 DEF SpuriousWakeup
<1>9. ASSUME NEW u \in Callers \ {t}, NEW f \in InterruptKinds, Interrupt(t, u, f)
      PROVE  Stays
  BY <1>0, <1>9 DEF Interrupt, BeginInterrupt, Goto, Signal
<1>10. CASE SpinBound(t) BY <1>0, <1>10 DEF SpinBound, Goto
<1>11. CASE SpinAdd(t) BY <1>0, <1>11 DEF SpinAdd, Goto
<1>12. CASE Spin(t) BY <1>0, <1>12 DEF Spin, CompareExchange, Goto
<1>13. CASE Acquired(t) BY <1>0, <1>13 DEF Acquired, StopSpinning, NowOwnedBy, Entering, Return, Goto
<1>14. CASE NotAcquired(t) BY <1>0, <1>14 DEF NotAcquired, StopSpinning, Entering, Return, Goto
<1>15. CASE EnterSlowly(t) BY <1>0, <1>15 DEF EnterSlowly, FoundUnowned, NowOwnedBy, Goto
<1>16. CASE Block(t) BY <1>0, <1>16 DEF Block, NotBlocked, Return, Goto
<1>17. CASE Unblock(t) BY <1>0, <1>17 DEF Unblock, NotBlocked, Return, Goto
<1>18. CASE EnterDone(t) BY <1>0, <1>18 DEF EnterDone, NotBlocked, RestoredCount, Return, Goto
<1>19. CASE ExitSwap(t) BY <1>0, <1>19 DEF ExitSwap, Return, Goto
<1>20. CASE ExitWake(t)
  BY <1>0, <1>20 DEF ExitWake
<1>21. CASE WaitRelease(t) BY <1>0, <1>21 DEF WaitRelease, Signal, Goto
<1>22. CASE WaitEnqueue(t) BY <1>0, <1>22 DEF WaitEnqueue, Signal, Goto
<1>23. CASE WaitEnds(t) BY <1>0, <1>23 DEF WaitEnds, Goto
<1>24. CASE Resume(t)
  <2>1. pc[t] # "exLock" /\ UNCHANGED spinlockState /\ \E p \in {"waiting", "bound"} : pc' = [pc EXCEPT ![t] = p]
    BY <1>24 DEF Resume, Goto
  <2> QED BY <1>0, <2>1
<1>25. CASE InterruptBlocked(t) BY <1>0, <1>25 DEF InterruptBlocked, Signal, Return, Goto
<1>26. CASE InterruptWaiting(t) BY <1>0, <1>26 DEF InterruptWaiting, InterruptWake, Signal, Return, Goto
<1>27. CASE ServerStart(t) BY <1>0, <1>27 DEF ServerStart, Return, Goto
<1>28. CASE ServerInterrupts(t) BY <1>0, <1>28 DEF ServerInterrupts, InterruptWake, Signal, Goto
<1> QED
  BY <1>1, <1>2, <1>3, <1>4, <1>5, <1>6, <1>7, <1>8, <1>9, <1>10, <1>11, <1>12, <1>13, <1>14, <1>15,
     <1>16, <1>17, <1>18, <1>19, <1>20, <1>21, <1>22, <1>23, <1>24, <1>25, <1>26, <1>27, <1>28
     DEF Acts, Step

\* Only EnterSlowly, and Notify in a fast-notify build, put a thread to sleep.
LEMMA AsleepStep ==
    ASSUME QInv, NEW t \in Threads, Acts(t), ~EnterSlowly(t), ~Notify(t), NEW v \in Threads, Asleep(v)'
    PROVE  Asleep(v)
<1>0. /\ pc \in [Threads -> Places] /\ signalled \in [Threads -> BOOLEAN]
      /\ Servers \subseteq Threads /\ Callers \subseteq Threads /\ Queue(blocking)
      /\ PlaceOf(v) /\ PlaceOf(t)
  BY DEF QInv, BoolType, IInv, LockType, Threads, QueueShape, PlaceInv

<1> USE DEF lockVars, spinVars, queueVars, callVars, serverVars
<1> USE DEF Asleep, Sleeping, PlaceOf, InWait
<1>1. CASE EnterRecursively(t) BY <1>0, <1>1 DEF EnterRecursively, Idle
<1>2. CASE Enter(t) BY <1>0, <1>2 DEF Enter, Idle, BeginCall, Goto
<1>3. CASE TryEnter(t) BY <1>0, <1>3 DEF TryEnter, Idle, BeginCall, Goto
<1>4. CASE Exit(t) BY <1>0, <1>4 DEF Exit, Idle, BeginCall, Goto
<1>5. CASE Wait(t)
  <2>1. UNCHANGED <<blocking, signalled>> /\ (pc' = pc \/ pc' = [pc EXCEPT ![t] = "wLock"])
    BY <1>5, WaitEffect DEF Wait
  <2> QED BY <1>0, <2>1
<1>6. CASE Notify(t)
  BY <1>6
<1>7. CASE ClearInterrupted(t) BY <1>0, <1>7 DEF ClearInterrupted
<1>8. CASE SpuriousWakeup(t) BY <1>0, <1>8 DEF SpuriousWakeup
<1>9. ASSUME NEW u \in Callers \ {t}, NEW f \in InterruptKinds, Interrupt(t, u, f)
      PROVE  Asleep(v)
  BY <1>0, <1>9 DEF Interrupt, BeginInterrupt, Goto, Signal
<1>10. CASE SpinBound(t) BY <1>0, <1>10 DEF SpinBound, Goto
<1>11. CASE SpinAdd(t) BY <1>0, <1>11 DEF SpinAdd, Goto
<1>12. CASE Spin(t) BY <1>0, <1>12 DEF Spin, CompareExchange, Goto
<1>13. CASE Acquired(t) BY <1>0, <1>13 DEF Acquired, StopSpinning, NowOwnedBy, Entering, Return, Goto
<1>14. CASE NotAcquired(t) BY <1>0, <1>14 DEF NotAcquired, StopSpinning, Entering, Return, Goto
<1>15. CASE EnterSlowly(t)
  BY <1>15
<1>16. CASE Block(t)
  <2>1. CASE Return(t) /\ UNCHANGED <<blocking, signalled>> BY <1>0, <2>1 DEF Return, Goto
  <2>2. CASE blocking' = Enqueue(blocking, t) /\ Goto(t, "blocked") /\ UNCHANGED signalled
    <3>1. pc[t] = "enqueue" BY <1>16 DEF Block
    <3>2. t \notin Range(blocking) BY <1>0, <3>1
    <3>3. Range(blocking)' = Range(blocking) \cup {t} BY <1>0, <2>2, <3>2, QueueEnqueue
    <3> QED BY <1>0, <2>2, <3>1, <3>3 DEF Goto
  <2> QED BY <1>16, <2>1, <2>2 DEF Block
<1>17. CASE Unblock(t)
  <2>1. Range(blocking)' = Range(blocking) \ {t} BY <1>0, <1>17, QueueDequeue DEF Unblock
  <2>2. \E p \in {"idle", "unborn", "bound"} : pc' = [pc EXCEPT ![t] = p] BY <1>17 DEF Unblock, Return, Goto
  <2>3. signalled' = [signalled EXCEPT ![t] = FALSE] BY <1>17 DEF Unblock
  <2> QED BY <1>0, <2>1, <2>2, <2>3
<1>18. CASE EnterDone(t) BY <1>0, <1>18 DEF EnterDone, NotBlocked, RestoredCount, Return, Goto
<1>19. CASE ExitSwap(t) BY <1>0, <1>19 DEF ExitSwap, Return, Goto
<1>20. CASE ExitWake(t) BY <1>0, <1>20 DEF ExitWake, Signal, Return, Goto
<1>21. CASE WaitRelease(t) BY <1>0, <1>21 DEF WaitRelease, Signal, Goto
<1>22. CASE WaitEnqueue(t) BY <1>0, <1>22 DEF WaitEnqueue, Signal, Goto
<1>23. CASE WaitEnds(t) BY <1>0, <1>23 DEF WaitEnds, Goto
<1>24. CASE Resume(t)
  <2>1. Range(blocking)' \subseteq Range(blocking) /\ UNCHANGED signalled
    <3>1. blocking' = blocking \/ blocking' = Dequeue(blocking, t) BY <1>24 DEF Resume, LeaveQueue
    <3> QED BY <1>0, <3>1, <1>24, QueueDequeue DEF Resume
  <2>2. CASE pc' = [pc EXCEPT ![t] = "waiting"] /\ ~Notified(t)
    <3>1. pc[t] \in InWait BY <1>24 DEF Resume, InWait
    <3>2. t \notin Range(blocking) BY <1>0, <2>2, <3>1 DEF Notified
    <3> QED BY <1>0, <2>1, <2>2, <3>2
  <2>3. CASE pc' = [pc EXCEPT ![t] = "bound"] BY <1>0, <2>1, <2>3
  <2> QED BY <1>24, <2>2, <2>3 DEF Resume, Goto
<1>25. CASE InterruptBlocked(t) BY <1>0, <1>25 DEF InterruptBlocked, Signal, Return, Goto
<1>26. CASE InterruptWaiting(t) BY <1>0, <1>26 DEF InterruptWaiting, InterruptWake, Signal, Return, Goto
<1>27. CASE ServerStart(t) BY <1>0, <1>27 DEF ServerStart, Return, Goto
<1>28. CASE ServerInterrupts(t) BY <1>0, <1>28 DEF ServerInterrupts, InterruptWake, Signal, Goto
<1> QED
  BY <1>1, <1>2, <1>3, <1>4, <1>5, <1>6, <1>7, <1>8, <1>9, <1>10, <1>11, <1>12, <1>13, <1>14, <1>15,
     <1>16, <1>17, <1>18, <1>19, <1>20, <1>21, <1>22, <1>23, <1>24, <1>25, <1>26, <1>27, <1>28
     DEF Acts, Step

\* A wakeup of every blocked thread, under the free mutex, leaves nobody asleep.
LEMMA AllWoken ==
    ASSUME QInv, NEW t \in Threads, ExitWake(t) \/ WaitRelease(t), Signal(Range(blocking))
    PROVE  \A v \in Threads : ~Asleep(v)'
<1> SUFFICES ASSUME NEW v \in Threads, Asleep(v)' PROVE FALSE OBVIOUS
<1>0. /\ pc \in [Threads -> Places] /\ signalled \in [Threads -> BOOLEAN] /\ mutex = NoThread
      /\ NoThread \notin Threads /\ UNCHANGED blocking /\ (pc[v] = "enqueue" => mutex = v)
  BY ThreadsAssumption
     DEF QInv, BoolType, IInv, LockType, MutexInv, MutexPlaces, ExitWake, WaitRelease, queueVars
<1>1. pc[v] # "enqueue" BY <1>0
<1>2. Sleeping(v)
  <2>1. Acts(t) BY DEF Acts, Step
  <2>2. ~EnterSlowly(t) /\ ~Notify(t) BY DEF ExitWake, WaitRelease, EnterSlowly, Notify
  <2>3. Asleep(v) BY <2>1, <2>2, AsleepStep
  <2> QED BY <1>1, <2>3 DEF Asleep
<1>3. signalled'[v] BY <1>0, <1>2 DEF Signal, Sleeping
<1>4. pc'[v] # "enqueue" BY <1>0, <1>1 DEF ExitWake, WaitRelease, Return, Goto
<1> QED BY <1>3, <1>4 DEF Asleep, Sleeping

LEMMA NotifyAsleep ==
    ASSUME QInv, NEW t \in Threads, Notify(t), NEW v \in Threads, Asleep(v)'
    PROVE  spinlockState' = "EXCEEDED" \/ Asleep(v)
<1>1. PICK all \in BOOLEAN : IF FastNotify THEN NotifyThreeTier(all) ELSE NotifyOriginal(all)
  BY NotifyEffect
<1>2. UNCHANGED pc BY DEF Notify
<1>3. CASE ~FastNotify
  <2>1. UNCHANGED blocking /\ (signalled[v] => signalled'[v]) BY <1>1, <1>3 DEF NotifyOriginal, Signal
  <2> QED BY <1>2, <2>1 DEF Asleep, Sleeping
<1>4. CASE FastNotify /\ waiting # <<>> BY <1>1, <1>4 DEF NotifyThreeTier
<1>5. CASE FastNotify /\ waiting = <<>>
  <2>1. Moved(all) = <<>> /\ Queue(blocking) BY <1>5, MovedQueue DEF QInv, QueueShape
  <2>2. blocking' = blocking /\ UNCHANGED signalled
    <3>1. blocking' = blocking \o <<>> /\ UNCHANGED signalled BY <1>1, <1>5, <2>1 DEF NotifyThreeTier
    <3> QED BY <2>1, <3>1 DEF Queue
  <2> QED BY <1>2, <2>2 DEF Asleep, Sleeping
<1> QED BY <1>3, <1>4, <1>5

\* Without spin-wake control every exit that finds the mark wakes all blocked threads.
LEMMA PlainWakeStep ==
    ASSUME QInv, WakeInv, ~SpinWakeControl, NEW t \in Threads, Acts(t)
    PROVE  WakeInv'
<1> SUFFICES ASSUME NEW v \in Threads, Asleep(v)'
             PROVE  spinlockState' = "EXCEEDED" \/ \E u \in Threads : pc'[u] = "exLock"
  BY DEF WakeInv
<1>0. pc \in [Threads -> Places] BY DEF QInv, IInv, LockType
<1>1. Asleep(v) => spinlockState = "EXCEEDED" \/ \E u \in Threads : pc[u] = "exLock" BY DEF WakeInv
<1>2. CASE ExitWake(t)
  BY <1>2, AllWoken DEF ExitWake, SpinnerWillDo, Unblocked
<1>3. CASE WaitRelease(t) /\ spinlockState = "EXCEEDED"
  BY <1>3, AllWoken DEF WaitRelease, WhenExceeded, Unblocked
<1>4. CASE WaitRelease(t) /\ spinlockState # "EXCEEDED"
  <2>1. ~ExitWake(t) /\ ~EnterSlowly(t) /\ ~Notify(t) BY <1>4 DEF WaitRelease, ExitWake, EnterSlowly, Notify
  <2> QED BY <1>1, <1>4, <2>1, AsleepStep, MarkStays
<1>5. CASE ExitSwap(t)
  <2>1. ~ExitWake(t) /\ ~EnterSlowly(t) /\ ~Notify(t) BY <1>5 DEF ExitSwap, ExitWake, EnterSlowly, Notify
  <2>2. spinlockState = "EXCEEDED" => pc'[t] = "exLock"
    BY <1>0, <1>5 DEF ExitSwap, ExitMustLook, WhenExceeded, Goto
  <2> QED BY <1>1, <2>1, <2>2, AsleepStep, MarkStays
<1>6. CASE EnterSlowly(t) BY <1>6 DEF EnterSlowly
<1>7. CASE Notify(t)
  <2>1. ~ExitWake(t) /\ ~ExitSwap(t) /\ ~WaitRelease(t) BY <1>7 DEF Notify, ExitWake, ExitSwap, WaitRelease
  <2> QED BY <1>1, <1>7, <2>1, NotifyAsleep, MarkStays
<1>8. CASE ~ExitWake(t) /\ ~WaitRelease(t) /\ ~ExitSwap(t) /\ ~EnterSlowly(t) /\ ~Notify(t)
  BY <1>1, <1>8, AsleepStep, MarkStays
<1> QED BY <1>2, <1>3, <1>4, <1>5, <1>6, <1>7, <1>8

\* With spin-wake control.  After these steps the spinlock is not free.
TakenActs(t) ==
    \/ EnterRecursively(t) \/ Exit(t) \/ Wait(t) \/ Notify(t) \/ Spin(t) \/ Acquired(t)
    \/ EnterSlowly(t) \/ EnterDone(t) \/ InterruptWaiting(t) \/ ServerInterrupts(t)

LEMMA TakenStep ==
    ASSUME QInv, NEW t \in Threads, TakenActs(t)
    PROVE  spinlockState' # "UNOWNED"
<1>1. CASE Spin(t) \/ EnterSlowly(t) BY <1>1 DEF Spin, CompareExchange, EnterSlowly
<1>2. CASE ~Spin(t) /\ ~EnterSlowly(t)
  <2>1. t \in Holders
    BY <1>2 DEF TakenActs, Holders, EnterRecursively, Exit, Idle, Wait, Notify, Acquired, EnterDone,
       InterruptWaiting,
                ServerInterrupts
  <2>2. spinlockState # "UNOWNED" BY <2>1 DEF QInv, IInv, SpinlockHasOneHolder
  <2>3. CASE Notify(t)
    BY <2>2, <2>3 DEF Notify, NotifyThreeTier, NotifyOriginal
  <2> QED BY <1>2, <2>2, <2>3
        DEF TakenActs, EnterRecursively, Exit, Wait, Acquired, EnterDone, InterruptWaiting, ServerInterrupts
<1> QED BY <1>1, <1>2

\* In these steps whoever insists goes on to.
CalmActs(t) ==
    \/ Enter(t) \/ TryEnter(t) \/ ClearInterrupted(t) \/ SpuriousWakeup(t) \/ SpinBound(t) \/ SpinAdd(t)
    \/ Block(t) \/ WaitEnds(t) \/ InterruptBlocked(t) \/ ServerStart(t)
    \/ \E u \in Callers \ {t}, f \in InterruptKinds : Interrupt(t, u, f)

LEMMA CalmStep ==
    ASSUME QInv, SpinnerInv, NEW t \in Threads, CalmActs(t), NEW v \in Threads
    PROVE  (Insists(v) => Insists(v)') /\ UNCHANGED spinlockState
<1>0. /\ pc \in [Threads -> Places] /\ signalled \in [Threads -> BOOLEAN] /\ op \in [Threads -> Ops]
      /\ target \in [Threads -> Threads \cup {NoThread}] /\ canceled \in [Threads -> BOOLEAN]
      /\ Servers \subseteq Threads /\ Callers \subseteq Threads /\ Queue(blocking)
      /\ PlaceOf(v) /\ PlaceOf(t) /\ (pc[t] = "born" => op[t] = "interruptServer")
  BY DEF QInv, BoolType, RestType, IInv, LockType, Threads, QueueShape, PlaceInv, SpinnerInv,
     SpinnerOf

<1> USE DEF lockVars, spinVars, queueVars, callVars, serverVars
<1> USE DEF Insists, Sleeping, PlaceOf, InWait
<1>1. CASE Enter(t) BY <1>0, <1>1 DEF Enter, Idle, BeginCall, Goto
<1>2. CASE TryEnter(t) BY <1>0, <1>2 DEF TryEnter, Idle, BeginCall, Goto
<1>3. CASE ClearInterrupted(t) BY <1>0, <1>3 DEF ClearInterrupted
<1>4. CASE SpuriousWakeup(t) BY <1>0, <1>4 DEF SpuriousWakeup
<1>5. ASSUME NEW u \in Callers \ {t}, NEW f \in InterruptKinds, Interrupt(t, u, f)
      PROVE  (Insists(v) => Insists(v)') /\ UNCHANGED spinlockState
  BY <1>0, <1>5 DEF Interrupt, BeginInterrupt, Goto, Signal
<1>6. CASE SpinBound(t) BY <1>0, <1>6 DEF SpinBound, Goto
<1>7. CASE SpinAdd(t) BY <1>0, <1>7 DEF SpinAdd, Goto
<1>8. CASE Block(t)
  <2>1. pc[t] = "enqueue" /\ UNCHANGED <<spinlockState, signalled, canceled, interrupter>> BY <1>8 DEF Block
  <2>2. t \notin Range(blocking) /\ (Insists(v) => v # t) BY <1>0, <2>1
  <2>3. CASE Return(t) /\ UNCHANGED blocking BY <1>0, <2>1, <2>2, <2>3 DEF Return, Goto
  <2>4. CASE blocking' = Enqueue(blocking, t) /\ Goto(t, "blocked") /\ UNCHANGED callVars
    <3>1. Range(blocking)' = Range(blocking) \cup {t} BY <1>0, <2>2, <2>4, QueueEnqueue
    <3> QED BY <1>0, <2>1, <2>2, <2>4, <3>1 DEF Goto
  <2> QED BY <1>8, <2>3, <2>4 DEF Block
<1>9. CASE WaitEnds(t) BY <1>0, <1>9 DEF WaitEnds, Goto
<1>10. CASE InterruptBlocked(t) BY <1>0, <1>10 DEF InterruptBlocked, Signal, Return, Goto
<1>11. CASE ServerStart(t)
  <2>1. UNCHANGED <<spinlockState, signalled, canceled, interrupter, blocking>> /\ pc[t] = "born" BY <1>11 DEF ServerStart
  <2>2. t \notin Range(blocking) BY <1>0, <2>1
  <2>3. CASE Return(t) /\ (canceled[t] \/ interrupter[target[t]] # t)
    <3>1. Insists(v) => v # t BY <2>1, <2>2, <2>3
    <3> QED BY <1>0, <2>1, <2>3, <3>1 DEF Return, Goto
  <2>4. CASE Goto(t, "bound") /\ UNCHANGED callVars BY <1>0, <2>1, <2>2, <2>4 DEF Goto
  <2> QED BY <1>11, <2>3, <2>4 DEF ServerStart
<1> QED BY <1>1, <1>2, <1>3, <1>4, <1>5, <1>6, <1>7, <1>8, <1>9, <1>10, <1>11 DEF CalmActs

\* An exit that wakes somebody, or finds a thread that spins, leaves a thread that insists.
LEMMA SomebodyWoken ==
    ASSUME QInv, SpinnerInv, SpinWakeControl, NEW t \in Threads, ExitWake(t) \/ WaitEnqueue(t),
           spinlockState' = "UNOWNED", NEW v \in Threads, Asleep(v)'
    PROVE  \E u \in Threads : Insists(u)'
<1>0. /\ pc \in [Threads -> Places] /\ signalled \in [Threads -> BOOLEAN] /\ op \in [Threads -> Ops]
      /\ spinning \in [Threads -> BOOLEAN]
      /\ NoThread \notin Threads /\ Servers \subseteq Threads /\ Queue(blocking)
      /\ UNCHANGED <<spinlockState, blocking, spinning>>
      /\ pc[t] \in {"exLock", "wEnqueue"} /\ (pc[t] = "wEnqueue" => mutex = t) /\ (pc[t] = "exLock" => mutex = NoThread)
      /\ (pc[v] = "enqueue" => mutex = v)
      /\ \A u \in Threads : SpinnerOf(u) /\ (spinning[u] => pc[u] \in {"spin", "spun", "unspun"})
      /\ \E p \in {"idle", "unborn", "waiting"} : pc' = [pc EXCEPT ![t] = p]
      /\ \A u \in Threads \ {t} : op'[u] = op[u]
  BY ThreadsAssumption
     DEF QInv, BoolType, IInv, LockType, Threads, QueueShape, MutexInv, MutexPlaces, SpinnerInv, SpinInv,
         ExitWake, WaitEnqueue, lockVars, spinVars, queueVars, callVars, Return, Goto
<1>1. CASE spinThreads # 0
  <2>1. PICK u \in Threads : spinning[u]
    <3>1. Spinning # {}
      <4>1. CASE Spinning = {} BY <1>1, <4>1, FS_EmptySet DEF QInv, SpinInv
      <4> QED BY <4>1
    <3> QED BY <3>1 DEF Spinning
  <2>2. pc[u] # "spun" BY <1>0 DEF QInv, IInv, SpinlockHasOneHolder, Holders
  <2>3. u # t /\ pc[u] \in {"spin", "unspun"} /\ op[u] # "try_enter" BY <1>0, <2>1, <2>2 DEF SpinnerOf
  <2>4. pc'[u] = pc[u] /\ op'[u] = op[u] BY <1>0, <2>3
  <2> QED BY <2>3, <2>4 DEF Insists
<1>2. CASE spinThreads = 0
  <2>1. Signal(Unblocked)
    BY <1>2 DEF ExitWake, WaitEnqueue, SpinnerWillDo
  <2>2. Sleeping(v)
    <3>1. Acts(t) BY DEF Acts, Step
    <3>2. ~EnterSlowly(t) /\ ~Notify(t) BY DEF ExitWake, WaitEnqueue, EnterSlowly, Notify
    <3>3. Asleep(v) BY <3>1, <3>2, AsleepStep
    <3>4. pc[v] # "enqueue" BY <1>0
    <3> QED BY <3>3, <3>4 DEF Asleep
  <2>3. 1 \in DOMAIN blocking /\ blocking[1] \in Threads /\ blocking[1] \in Range(blocking)
    <3>1. blocking \in Seq(Threads) BY <1>0 DEF Queue
    <3>2. PICK i \in 1..Len(blocking) : blocking[i] = v BY <2>2, <3>1, InQueue DEF Sleeping
    <3>3. 1 \in 1..Len(blocking) BY <3>1, <3>2
    <3> QED BY <3>1, <3>3, InQueue
  <2>4. blocking[1] \in Unblocked
    <3>1. 1 <= MaxWakeThreads BY ModeAssumption
    <3> QED BY <2>3, <3>1 DEF Unblocked
  <2> PICK u \in Threads : u = blocking[1] /\ u \in Range(blocking) /\ u \in Unblocked BY <2>3, <2>4
  <2>5. ~Sleeping(u)'
    <3>1. PlaceOf(u) BY <2>3 DEF QInv, PlaceInv
    <3>2. pc[u] \in {"blocked"} \cup InWait /\ u # t BY <1>0, <2>3, <3>1 DEF PlaceOf, InWait
    <3>3. pc'[u] = pc[u] BY <1>0, <2>3, <3>2
    <3>4. pc[u] \in {"blocked", "waiting"} => signalled'[u] BY <2>1 DEF Signal
    <3> QED BY <3>3, <3>4 DEF Sleeping
  <2> QED BY <1>0, <2>3, <2>5 DEF Insists
<1> QED BY <1>1, <1>2

LEMMA InsistStep ==
    ASSUME QInv, SpinnerInv, WakeInv, SpinWakeControl, NEW t \in Threads, Acts(t),
           spinlockState' = "UNOWNED", NEW v \in Threads, Asleep(v)'
    PROVE  \E u \in Threads : Insists(u)'
<1>0. /\ pc \in [Threads -> Places] /\ op \in [Threads -> Ops] /\ Servers \subseteq Threads
      /\ interrupter \in [Threads -> Servers \cup {NoThread}] /\ Queue(blocking)
      /\ target \in [Threads -> Threads \cup {NoThread}] /\ canceled \in [Threads -> BOOLEAN]
      /\ CallOf(t) /\ SpinnerOf(t) /\ PlaceOf(t) /\ ServerPlaces
  BY DEF QInv, BoolType, RestType, IInv, LockType, Threads, QueueShape, CallInv, PlaceInv,
     SpinnerInv
<1>a. ASSUME ~Notify(t), ~EnterSlowly(t), spinlockState = "UNOWNED" PROVE \E u \in Threads : Insists(u)
  BY <1>a, AsleepStep DEF WakeInv
<1> USE DEF lockVars, spinVars, queueVars, callVars, serverVars
<1>1. CASE TakenActs(t) BY <1>1, TakenStep
<1>2. CASE CalmActs(t) /\ ~TakenActs(t)
  <2>1. UNCHANGED spinlockState /\ \A u \in Threads : Insists(u) => Insists(u)' BY <1>2, CalmStep
  <2> QED BY <1>a, <1>2, <2>1 DEF TakenActs
<1>3. CASE ExitSwap(t) \/ WaitRelease(t)
  <2>1. pc'[t] \in {"exLock", "wEnqueue"} BY <1>0, <1>3 DEF ExitSwap, ExitMustLook, WaitRelease, Goto
  <2> QED BY <2>1 DEF Insists
<1>4. CASE ExitWake(t) \/ WaitEnqueue(t) BY <1>4, SomebodyWoken
<1>5. CASE Unblock(t)
  <2>1. ~IsAborted(t) BY <1>0 DEF SpinnerOf, IsAborted
  <2>2. pc'[t] = "bound" /\ op'[t] = op[t] /\ op[t] # "try_enter"
    BY <1>0, <1>5, <2>1 DEF Unblock, Goto, CallOf, Entering
  <2> QED BY <2>2 DEF Insists
<1>6. CASE Resume(t)
  <2>1. op'[t] = "wait" /\ pc[t] \in InWait BY <1>0, <1>6 DEF Resume, CallOf, InWait
  <2>2. CASE Goto(t, "bound") BY <1>0, <2>1, <2>2 DEF Goto, Insists
  <2>3. CASE ~Notified(t) /\ Goto(t, "waiting") /\ UNCHANGED <<queueVars, flags, serverVars>>
    <3>1. t \notin Range(blocking) BY <1>0, <2>1, <2>3 DEF PlaceOf, Notified, InWait
    <3>2. ~Notify(t) /\ ~EnterSlowly(t) /\ UNCHANGED <<spinlockState, op, target, signalled>> 
      BY <1>6 DEF Resume, Notify, EnterSlowly
    <3>3. PICK u \in Threads : Insists(u) BY <1>a, <3>2
    <3>4. u # t BY <2>1, <3>1, <3>3 DEF Insists, InWait
    <3>5. Insists(u)' BY <1>0, <2>3, <3>2, <3>3, <3>4 DEF Goto, Insists, Sleeping
    <3> QED BY <3>5
  <2> QED BY <1>6, <2>2, <2>3 DEF Resume
<1>7. CASE NotAcquired(t)
  <2>0. pc[t] = "unspun" /\ UNCHANGED <<spinlockState, blocking, signalled>> BY <1>7 DEF NotAcquired
  <2>1. CASE Entering(t)
    BY <1>0, <1>7, <2>1 DEF NotAcquired, Goto, Insists, Entering
  <2>2. CASE op[t] = "try_enter"
    <3>1. Return(t) /\ UNCHANGED serverVars BY <1>7, <2>2 DEF NotAcquired, Entering
    <3>2. ~Notify(t) /\ ~EnterSlowly(t) BY <2>0 DEF Notify, EnterSlowly
    <3>3. PICK u \in Threads : Insists(u) BY <1>a, <2>0, <3>2
    <3>4. t \notin Range(blocking) BY <1>0, <2>0 DEF PlaceOf, InWait
    <3>5. u # t BY <2>0, <2>2, <3>3, <3>4 DEF Insists
    <3>6. Insists(u)' BY <1>0, <2>0, <3>1, <3>3, <3>5 DEF Return, Goto, Insists, Sleeping
    <3> QED BY <3>6
  <2>3. CASE op[t] = "interrupt"
    <3>1. PICK s \in Servers : /\ interrupter' = [interrupter EXCEPT ![target[t]] = s]
                               /\ canceled' = [canceled EXCEPT ![s] = FALSE]
                               /\ target' = [target EXCEPT ![t] = NoThread, ![s] = target[t]]
                               /\ pc' = [pc EXCEPT ![t] = "idle", ![s] = "born"]
      BY <1>7, <2>3 DEF NotAcquired, Entering
    <3>2. target[t] \in Threads /\ s \in Threads BY <1>0, <2>3 DEF SpinnerOf
    <3>3. pc'[s] = "born" /\ ~canceled'[s] /\ interrupter'[target'[s]] = s BY <1>0, <3>1, <3>2
    <3> QED BY <3>2, <3>3 DEF Insists
  <2> QED BY <1>7, <2>1, <2>2, <2>3 DEF NotAcquired
<1> QED BY <1>1, <1>2, <1>3, <1>4, <1>5, <1>6, <1>7 DEF Acts, Step, TakenActs, CalmActs

LEMMA NextWake ==
    ASSUME SpinnersInsist
    PROVE  QInv /\ SpinnerInv /\ WakeInv /\ [Next]_vars => SpinnerInv' /\ WakeInv'
<1> SUFFICES ASSUME QInv, SpinnerInv, WakeInv, [Next]_vars PROVE SpinnerInv' /\ WakeInv'
  OBVIOUS
<1>1. CASE UNCHANGED vars
  <2> USE <1>1 DEF vars, lockVars, spinVars, queueVars, callVars, serverVars
  <2>1. SpinnerInv' BY DEF SpinnerInv, SpinnerOf
  <2>2. \A v \in Threads : (Asleep(v)' <=> Asleep(v)) /\ (Insists(v)' <=> Insists(v))
    BY DEF Asleep, Insists, Sleeping
  <2>3. WakeInv' BY <2>2 DEF WakeInv
  <2> QED BY <2>1, <2>3
<1>2. CASE Next
  <2>1. PICK t \in Threads : Acts(t) BY <1>2 DEF Next, Acts
  <2>2. \A v \in Threads : SpinnerOf(v)' BY <2>1, SpinnerStep
  <2>3. WakeInv'
    <3>1. CASE SpinWakeControl
      <4>1. ASSUME spinlockState' = "UNOWNED", NEW v \in Threads, Asleep(v)'
            PROVE  \E u \in Threads : Insists(u)'
        BY <2>1, <3>1, <4>1, InsistStep
      <4> QED BY <3>1, <4>1 DEF WakeInv
    <3>2. CASE ~SpinWakeControl BY <2>1, <3>2, PlainWakeStep
    <3> QED BY <3>1, <3>2
  <2> QED BY <2>2, <2>3 DEF SpinnerInv
<1> QED BY <1>1, <1>2

\* While threads sleep on a free monitor, somebody is on its way to take it or to wake
\* them: always in a build without spin-wake control, and with it as long as no try_enter
\* spins and no thread is aborted (StrandedByTryEnter and StrandedByAbort show why).
THEOREM NobodyStranded ==
    ASSUME SpinnersInsist
    PROVE  Spec => []NoStrandedThread
<1>1. Init => SpinnerInv /\ WakeInv
  <2> SUFFICES ASSUME Init PROVE SpinnerInv /\ WakeInv
    OBVIOUS
  <2>1. \A t \in Threads : ~Asleep(t) BY EmptyQueue DEF Init, Asleep, Sleeping
  <2>2. SpinnerInv BY DEF Init, SpinnerInv, SpinnerOf
  <2> QED BY <2>1, <2>2 DEF WakeInv
<1>2. WakeInv => NoStrandedThread
  <2> SUFFICES ASSUME WakeInv, NEW t \in Threads, Sleeping(t), spinlockState = "UNOWNED"
               PROVE  \E u \in Threads : WillTryOrWake(u)
    BY DEF NoStrandedThread
  <2>1. \A u \in Threads : Insists(u) \/ pc[u] = "exLock" => WillTryOrWake(u) BY DEF Insists, WillTryOrWake
  <2> QED BY <2>1 DEF WakeInv, Asleep
<1> QED BY <1>1, <1>2, NextWake, Invariance, PTL DEF Spec
=============================================================================

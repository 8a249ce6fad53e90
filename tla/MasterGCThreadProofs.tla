------------------------ MODULE MasterGCThreadProofs ------------------------
(***************************************************************************)
(* Proofs about MasterGCThread, for any set of mutators and any number of  *)
(* collections: the handshake loses no notification and meets no state its *)
(* assertions exclude, and the shutdown is final, until an explicit master *)
(* is asked to collect while it is shut down.                              *)
(***************************************************************************)
EXTENDS MasterGCThread, TLAPS

-----------------------------------------------------------------------------
(* The inductive invariant. *)

\* The master has attached and has not reported its end.
Live == masterPc \notin {"none", "attach", "gone"}

\* How the life of the master, _masterThreadState and the controller fit together.
Life ==
    /\ registered <=> Live
    /\ Live => state \in {"WAITING", "GC_REQUESTED", "RUNNING_CONCURRENT", "TERMINATION_REQUESTED"}
    /\ masterPc = "none" => state \in {"ERROR", "DISABLED"} /\ controllerPc \in {"new", "up", "down"}
    /\ masterPc = "attach" => state = "STARTING" /\ controllerPc = "starting"
    /\ masterPc = "gone" => \/ state = "TERMINATED" /\ controllerPc \in {"stopping", "down"}
                            \/ state = "ERROR" /\ controllerPc \in {"starting", "up", "down"}
    /\ controllerPc = "new" => masterPc = "none"
    /\ controllerPc = "stop" => Live
    /\ controllerPc = "down" => ~Live
    /\ controllerPc = "stopping" => state \in {"TERMINATION_REQUESTED", "TERMINATED"}
    /\ state = "TERMINATION_REQUESTED" => controllerPc = "stopping"

\* Where the master gives up the mutex in handleConcurrent it has found work, or is
\* implicit: it does not go on to wait with a state that was changed meanwhile.
Phase ==
    /\ masterPc \in {"look", "after"} => ~implicit /\ state = "RUNNING_CONCURRENT"
    /\ masterPc \in {"acquire", "lookOut", "release"} => implicit
    /\ masterPc = "collect" => workDone /\ work # "complete"
    /\ masterPc = "reenter" /\ ~implicit => workDone
    /\ again => ~implicit

\* A call of garbageCollect has exclusive access; a request is made of a master that is
\* there, and stands until it is answered.
Calls ==
    /\ \A t \in Mutators :
        /\ mutatorPc[t] # "run" => exclusive = t
        /\ mutatorPc[t] = "ask" => implicit
        /\ mutatorPc[t] \in {"request", "asked"} => ~implicit
        /\ mutatorPc[t] = "request" => Live
        /\ mutatorPc[t] = "asked" => incoming = IF state = "GC_REQUESTED" THEN t ELSE NoThread
    /\ controllerPc \in {"stop", "stopping"} => ~Asked
    /\ ~implicit /\ state = "GC_REQUESTED" => \E t \in Mutators : mutatorPc[t] = "asked"

\* Who waits, and for what: never two threads at a time, so that a single notification
\* cannot go to the wrong one.
Waits ==
    /\ Master \in waiters => masterPc = "waiting" /\ state = "WAITING"
    /\ Controller \in waiters => \/ controllerPc = "starting" /\ masterPc = "attach"
                                 \/ controllerPc = "stopping" /\ state = "TERMINATION_REQUESTED"
    /\ \A t \in Mutators : t \in waiters => mutatorPc[t] = "asked" /\ state = "GC_REQUESTED"

IInv == TypeOK /\ Life /\ Phase /\ Calls /\ Waits

\* What holds in any case.
Inv == TypeOK /\ (collided \/ IInv)

\* The Boolean part of TypeOK.
Flags ==
    /\ implicit \in BOOLEAN /\ registered \in BOOLEAN /\ vmAccess \in BOOLEAN
    /\ again \in BOOLEAN /\ workDone \in BOOLEAN /\ collided \in BOOLEAN

-----------------------------------------------------------------------------
(* Every step preserves it. *)

LEMMA InitIInv == Init => IInv
<1> SUFFICES ASSUME Init PROVE IInv
  OBVIOUS
<1> USE MasterAssumption DEF Init, Holding
<1>1. TypeOK
  <2>1. Flags
    BY Zenon DEF Flags
  <2> QED BY <2>1 DEF Flags, TypeOK, States
<1>2. Life /\ Phase
  BY DEF Life, Live, Phase
<1>3. Calls /\ Waits
  BY DEF Calls, Asked, Waits
<1> QED BY <1>1, <1>2, <1>3 DEF IInv

\* A notification takes a thread from the wait set, if there is one.
LEMMA NotifiedWaiters ==
    ASSUME NEW ws \in Notified
    PROVE  /\ ws \subseteq waiters
           /\ \A t : waiters \subseteq {t} => ws = {}
  BY DEF Notified

LEMMA TypeStep == TypeOK /\ [Next]_vars => TypeOK'
<1> SUFFICES ASSUME TypeOK, [Next]_vars PROVE TypeOK'
  OBVIOUS
<1> USE MasterAssumption DEF TypeOK, Holding, States, sharedVars, accessVars, masterVars, otherVars
<1>1. CASE UNCHANGED vars
  BY <1>1 DEF vars
<1>2. CASE Startup
  BY <1>2 DEF Startup
<1>3. CASE StartedUp
  BY <1>3 DEF StartedUp
<1>4. CASE BeginShutdown
  BY <1>4 DEF BeginShutdown
<1>5. CASE Shutdown
  BY <1>5 DEF Shutdown, Terminated, Notified
<1>6. CASE Attach
  <2>1. Flags'
    BY <1>6, Zenon DEF Flags, Attach
  <2>2. waiters' \subseteq waiters
    BY <1>6, NotifiedWaiters DEF Attach
  <2> QED BY <1>6, <2>1, <2>2 DEF Flags, Attach
<1>7. CASE Top
  <2>1. Flags'
    BY <1>7, Zenon DEF Flags, Top, CallHandleConcurrent, AfterSTW, ForgetIncoming
  <2>2. waiters' \subseteq waiters
    BY <1>7, NotifiedWaiters DEF Top, CallHandleConcurrent, AfterSTW, ForgetIncoming
  <2> QED BY <1>7, <2>1, <2>2 DEF Flags, Top, CallHandleConcurrent, AfterSTW, ForgetIncoming
<1>8. CASE Second
  <2>1. Flags'
    BY <1>8, Zenon DEF Flags, Second, CallHandleConcurrent, WaitForWork
  <2> QED BY <1>8, <2>1 DEF Flags, Second, CallHandleConcurrent, WaitForWork
<1>9. CASE Awake
  <2>1. Flags'
    BY <1>9, Zenon DEF Flags, Awake
  <2> QED BY <1>9, <2>1 DEF Flags, Awake
<1>10. CASE Bottom
  <2>1. Flags'
    BY <1>10, Zenon DEF Flags, Bottom
  <2>2. waiters' \subseteq waiters
    BY <1>10, NotifiedWaiters DEF Bottom
  <2> QED BY <1>10, <2>1, <2>2 DEF Flags, Bottom
<1>11. CASE AcquireVMAccess
  <2>1. Flags'
    BY <1>11, Zenon DEF Flags, AcquireVMAccess
  <2> QED BY <1>11, <2>1 DEF Flags, AcquireVMAccess
<1>12. CASE LookForWork
  <2>1. Flags'
    BY <1>12, Zenon DEF Flags, LookForWork
  <2> QED BY <1>12, <2>1 DEF Flags, LookForWork
<1>13. CASE ConcurrentCollect
  <2>1. Flags'
    BY <1>13, Zenon DEF Flags, ConcurrentCollect
  <2> QED BY <1>13, <2>1 DEF Flags, ConcurrentCollect
<1>14. CASE ReleaseVMAccess
  <2>1. Flags'
    BY <1>14, Zenon DEF Flags, ReleaseVMAccess
  <2> QED BY <1>14, <2>1 DEF Flags, ReleaseVMAccess
<1>15. CASE HandledConcurrent
  <2>1. Flags'
    BY <1>15, Zenon DEF Flags, HandledConcurrent, WaitForWork, NothingDone, StateAfterConcurrent
  <2> QED BY <1>15, <2>1 DEF Flags, HandledConcurrent, WaitForWork, NothingDone, StateAfterConcurrent
<1>16. ASSUME NEW t \in Mutators, GarbageCollect(t)
      PROVE  TypeOK'
  BY <1>16 DEF GarbageCollect, Now
<1>17. ASSUME NEW t \in Mutators, CollectAsCaller(t)
      PROVE  TypeOK'
  BY <1>17 DEF CollectAsCaller, Now, AfterSTW
<1>18. ASSUME NEW t \in Mutators, AskForConcurrent(t)
      PROVE  TypeOK'
  BY <1>18 DEF AskForConcurrent, Now, MasterWaits, Notified
<1>19. ASSUME NEW t \in Mutators, Request(t)
      PROVE  TypeOK'
  BY <1>19 DEF Request, Now, Notified
<1>20. ASSUME NEW t \in Mutators, Answered(t)
      PROVE  TypeOK'
  BY <1>20 DEF Answered, Now
<1> HIDE DEF TypeOK
<1> QED BY <1>1, <1>2, <1>3, <1>4, <1>5, <1>6, <1>7, <1>8, <1>9, <1>10, <1>11, <1>12, <1>13, <1>14, <1>15, <1>16, <1>17, <1>18, <1>19, <1>20
        DEF Next, MasterStep, MutatorStep

LEMMA StartupStep ==
    ASSUME IInv, TypeOK', ~collided', Startup
    PROVE  IInv'
<1> USE MasterAssumption DEF IInv, TypeOK, Holding, Startup
<1>2. Life'
  BY DEF Life, Live, sharedVars, accessVars, masterVars, otherVars
<1>3. Phase'
  BY DEF Phase, Life, sharedVars, accessVars, masterVars, otherVars
<1>4. Calls'
  BY DEF Calls, Life, Live, Asked, sharedVars, accessVars, masterVars, otherVars
<1>5. Waits'
  BY DEF Waits, Life, Calls, Live, sharedVars, accessVars, masterVars, otherVars
<1> QED BY <1>2, <1>3, <1>4, <1>5

LEMMA StartedUpStep ==
    ASSUME IInv, TypeOK', ~collided', StartedUp
    PROVE  IInv'
<1> USE MasterAssumption DEF IInv, TypeOK, Holding, StartedUp, MutexFree
<1>2. Life'
  BY DEF Life, Live, sharedVars, accessVars, masterVars, otherVars
<1>3. Phase'
  BY DEF Phase, sharedVars, accessVars, masterVars, otherVars
<1>4. Calls'
  BY DEF Calls, Life, Live, Asked, sharedVars, accessVars, masterVars, otherVars
<1>5. Waits'
  BY DEF Waits, Life, Calls, Live, sharedVars, accessVars, masterVars, otherVars
<1> QED BY <1>2, <1>3, <1>4, <1>5

LEMMA BeginShutdownStep ==
    ASSUME IInv, TypeOK', ~collided', BeginShutdown
    PROVE  IInv'
<1> USE MasterAssumption DEF IInv, TypeOK, Holding, BeginShutdown
<1>2. Life'
  BY DEF Life, Live, sharedVars, accessVars, masterVars, otherVars
<1>3. Phase'
  BY DEF Phase, sharedVars, accessVars, masterVars, otherVars
<1>4. Calls'
  BY DEF Calls, Life, Live, Asked, sharedVars, accessVars, masterVars, otherVars
<1>5. Waits'
  BY DEF Waits, Life, Calls, Live, sharedVars, accessVars, masterVars, otherVars
<1> QED BY <1>2, <1>3, <1>4, <1>5

LEMMA ShutdownStep ==
    ASSUME IInv, TypeOK', ~collided', Shutdown
    PROVE  IInv'
<1> USE MasterAssumption DEF IInv, TypeOK, Holding, Shutdown, Terminated, Notified, MutexFree
<1>2. Life'
  BY DEF Life, Live, sharedVars, accessVars, masterVars, otherVars
<1>3. Phase'
  BY DEF Phase, sharedVars, accessVars, masterVars, otherVars
<1>4. Calls'
  BY DEF Calls, Life, Live, Asked, sharedVars, accessVars, masterVars, otherVars
<1>5. Waits'
  BY DEF Waits, Life, Calls, Live, sharedVars, accessVars, masterVars, otherVars
<1> QED BY <1>2, <1>3, <1>4, <1>5

LEMMA AttachStep ==
    ASSUME IInv, TypeOK', ~collided', Attach
    PROVE  IInv'
<1> USE MasterAssumption DEF IInv, TypeOK, Holding, Attach, Notified
<1>2. Life'
  BY DEF Life, Live, sharedVars, accessVars, masterVars, otherVars
<1>3. Phase'
  BY DEF Phase, sharedVars, accessVars, masterVars, otherVars
<1>4. Calls'
  BY DEF Calls, Life, Live, Asked, sharedVars, accessVars, masterVars, otherVars
<1>5. Waits'
  BY DEF Waits, Life, Calls, Live, sharedVars, accessVars, masterVars, otherVars
<1> QED BY <1>2, <1>3, <1>4, <1>5

LEMMA TopStep ==
    ASSUME IInv, TypeOK', ~collided', Top
    PROVE  IInv'
<1> USE MasterAssumption DEF IInv, TypeOK, Holding, Top, CallHandleConcurrent, ForgetIncoming, AfterSTW, Notified
<1>2. Life'
  BY DEF Life, Live, sharedVars, accessVars, masterVars, otherVars
<1>3. Phase'
  BY DEF Phase, sharedVars, accessVars, masterVars, otherVars
<1>4. Calls'
  BY DEF Calls, Life, Live, Asked, sharedVars, accessVars, masterVars, otherVars
<1>5. Waits'
  BY DEF Waits, Life, Calls, Live, sharedVars, accessVars, masterVars, otherVars
<1> QED BY <1>2, <1>3, <1>4, <1>5

LEMMA SecondStep ==
    ASSUME IInv, TypeOK', ~collided', Second
    PROVE  IInv'
<1> USE MasterAssumption DEF IInv, TypeOK, Holding, Second, CallHandleConcurrent, WaitForWork
<1>2. Life'
  BY DEF Life, Live, sharedVars, accessVars, masterVars, otherVars
<1>3. Phase'
  BY DEF Phase, sharedVars, accessVars, masterVars, otherVars
<1>4. Calls'
  BY DEF Calls, Life, Live, Asked, sharedVars, accessVars, masterVars, otherVars
<1>5. Waits'
  BY DEF Waits, Life, Calls, Live, sharedVars, accessVars, masterVars, otherVars
<1> QED BY <1>2, <1>3, <1>4, <1>5

LEMMA AwakeStep ==
    ASSUME IInv, TypeOK', ~collided', Awake
    PROVE  IInv'
<1> USE MasterAssumption DEF IInv, TypeOK, Holding, Awake
<1>2. Life'
  BY DEF Life, Live, sharedVars, accessVars, masterVars, otherVars
<1>3. Phase'
  BY DEF Phase, sharedVars, accessVars, masterVars, otherVars
<1>4. Calls'
  BY DEF Calls, Life, Live, Asked, sharedVars, accessVars, masterVars, otherVars
<1>5. Waits'
  BY DEF Waits, Life, Calls, Live, sharedVars, accessVars, masterVars, otherVars
<1> QED BY <1>2, <1>3, <1>4, <1>5

LEMMA BottomStep ==
    ASSUME IInv, TypeOK', ~collided', Bottom
    PROVE  IInv'
<1> USE MasterAssumption DEF IInv, TypeOK, Holding, Bottom, Notified
<1>2. Life'
  BY DEF Life, Live, sharedVars, accessVars, masterVars, otherVars
<1>3. Phase'
  BY DEF Phase, sharedVars, accessVars, masterVars, otherVars
<1>4. Calls'
  BY DEF Calls, Life, Live, Asked, sharedVars, accessVars, masterVars, otherVars
<1>5. Waits'
  <2>1. CASE state = "TERMINATION_REQUESTED"
    <3>1. waiters \subseteq {Controller}
      BY <2>1 DEF Waits
    <3>2. waiters' = {}
      BY <2>1, <3>1, NotifiedWaiters
    <3> QED BY <3>2 DEF Waits
  <2>2. CASE state # "TERMINATION_REQUESTED"
    BY <2>2 DEF Waits, sharedVars, accessVars, masterVars, otherVars
  <2> QED BY <2>1, <2>2
<1> QED BY <1>2, <1>3, <1>4, <1>5

LEMMA AcquireVMAccessStep ==
    ASSUME IInv, TypeOK', ~collided', AcquireVMAccess
    PROVE  IInv'
<1> USE MasterAssumption DEF IInv, TypeOK, Holding, AcquireVMAccess
<1>2. Life'
  BY DEF Life, Live, sharedVars, accessVars, masterVars, otherVars
<1>3. Phase'
  BY DEF Phase, sharedVars, accessVars, masterVars, otherVars
<1>4. Calls'
  BY DEF Calls, Life, Live, Asked, sharedVars, accessVars, masterVars, otherVars
<1>5. Waits'
  BY DEF Waits, Life, Calls, Live, sharedVars, accessVars, masterVars, otherVars
<1> QED BY <1>2, <1>3, <1>4, <1>5

LEMMA LookForWorkStep ==
    ASSUME IInv, TypeOK', ~collided', LookForWork
    PROVE  IInv'
<1> USE MasterAssumption DEF IInv, TypeOK, Holding, LookForWork
<1>2. Life'
  BY DEF Life, Live, sharedVars, accessVars, masterVars, otherVars
<1>3. Phase'
  BY DEF Phase, sharedVars, accessVars, masterVars, otherVars
<1>4. Calls'
  BY DEF Calls, Life, Live, Asked, sharedVars, accessVars, masterVars, otherVars
<1>5. Waits'
  BY DEF Waits, Life, Calls, Live, sharedVars, accessVars, masterVars, otherVars
<1> QED BY <1>2, <1>3, <1>4, <1>5

LEMMA ConcurrentCollectStep ==
    ASSUME IInv, TypeOK', ~collided', ConcurrentCollect
    PROVE  IInv'
<1> USE MasterAssumption DEF IInv, TypeOK, Holding, ConcurrentCollect
<1>2. Life'
  BY DEF Life, Live, sharedVars, accessVars, masterVars, otherVars
<1>3. Phase'
  BY DEF Phase, sharedVars, accessVars, masterVars, otherVars
<1>4. Calls'
  BY DEF Calls, Life, Live, Asked, sharedVars, accessVars, masterVars, otherVars
<1>5. Waits'
  BY DEF Waits, Life, Calls, Live, sharedVars, accessVars, masterVars, otherVars
<1> QED BY <1>2, <1>3, <1>4, <1>5

LEMMA ReleaseVMAccessStep ==
    ASSUME IInv, TypeOK', ~collided', ReleaseVMAccess
    PROVE  IInv'
<1> USE MasterAssumption DEF IInv, TypeOK, Holding, ReleaseVMAccess
<1>2. Life'
  BY DEF Life, Live, sharedVars, accessVars, masterVars, otherVars
<1>3. Phase'
  BY DEF Phase, sharedVars, accessVars, masterVars, otherVars
<1>4. Calls'
  BY DEF Calls, Life, Live, Asked, sharedVars, accessVars, masterVars, otherVars
<1>5. Waits'
  BY DEF Waits, Life, Calls, Live, sharedVars, accessVars, masterVars, otherVars
<1> QED BY <1>2, <1>3, <1>4, <1>5

LEMMA HandledConcurrentStep ==
    ASSUME IInv, TypeOK', ~collided', HandledConcurrent
    PROVE  IInv'
<1> USE MasterAssumption DEF IInv, TypeOK, Holding, HandledConcurrent, StateAfterConcurrent, NothingDone, WaitForWork
<1>2. Life'
  BY DEF Life, Live, sharedVars, accessVars, masterVars, otherVars
<1>3. Phase'
  BY DEF Phase, sharedVars, accessVars, masterVars, otherVars
<1>4. Calls'
  BY DEF Calls, Life, Live, Asked, sharedVars, accessVars, masterVars, otherVars
<1>5. Waits'
  BY DEF Waits, Phase, Life, Calls, Live, sharedVars, accessVars, masterVars, otherVars
<1> QED BY <1>2, <1>3, <1>4, <1>5

LEMMA GarbageCollectStep ==
    ASSUME IInv, TypeOK', ~collided', NEW t \in Mutators, GarbageCollect(t)
    PROVE  IInv'
<1> USE MasterAssumption DEF IInv, TypeOK, Holding, GarbageCollect, Now
<1>2. Life'
  BY DEF Life, Live, sharedVars, accessVars, masterVars, otherVars
<1>3. Phase'
  BY DEF Phase, sharedVars, accessVars, masterVars, otherVars
<1>4. Calls'
  BY DEF Calls, Life, Live, Asked, sharedVars, accessVars, masterVars, otherVars
<1>5. Waits'
  BY DEF Waits, Life, Calls, Live, sharedVars, accessVars, masterVars, otherVars
<1> QED BY <1>2, <1>3, <1>4, <1>5

LEMMA CollectAsCallerStep ==
    ASSUME IInv, TypeOK', ~collided', NEW t \in Mutators, CollectAsCaller(t)
    PROVE  IInv'
<1> USE MasterAssumption DEF IInv, TypeOK, Holding, CollectAsCaller, Now, AfterSTW
<1>2. Life'
  BY DEF Life, Live, sharedVars, accessVars, masterVars, otherVars
<1>3. Phase'
  BY DEF Phase, sharedVars, accessVars, masterVars, otherVars
<1>4. Calls'
  BY DEF Calls, Life, Live, Asked, sharedVars, accessVars, masterVars, otherVars
<1>5. Waits'
  BY DEF Waits, Life, Calls, Live, sharedVars, accessVars, masterVars, otherVars
<1> QED BY <1>2, <1>3, <1>4, <1>5

LEMMA AskForConcurrentStep ==
    ASSUME IInv, TypeOK', ~collided', NEW t \in Mutators, AskForConcurrent(t)
    PROVE  IInv'
<1> USE MasterAssumption DEF IInv, TypeOK, Holding, AskForConcurrent, Now, MasterWaits, Notified, MutexFree
<1>2. Life'
  BY DEF Life, Live, sharedVars, accessVars, masterVars, otherVars
<1>3. Phase'
  BY DEF Phase, sharedVars, accessVars, masterVars, otherVars
<1>4. Calls'
  BY DEF Calls, Life, Live, Asked, sharedVars, accessVars, masterVars, otherVars
<1>5. Waits'
  BY DEF Waits, Life, Calls, Live, sharedVars, accessVars, masterVars, otherVars
<1> QED BY <1>2, <1>3, <1>4, <1>5

LEMMA RequestStep ==
    ASSUME IInv, TypeOK', ~collided', NEW t \in Mutators, Request(t)
    PROVE  IInv'
<1> USE MasterAssumption DEF IInv, TypeOK, Holding, Request, Now, Notified, MutexFree
<1>2. Life'
  BY DEF Life, Calls, Asked, Live, sharedVars, accessVars, masterVars, otherVars
<1>3. Phase'
  BY DEF Phase, sharedVars, accessVars, masterVars, otherVars
<1>4. Calls'
  BY DEF Calls, Life, Live, Asked, sharedVars, accessVars, masterVars, otherVars
<1>5. Waits'
  <2>1. state \in {"WAITING", "RUNNING_CONCURRENT"} /\ masterPc # "attach"
    BY DEF Life, Calls, Live, Asked
  <2>2. waiters \subseteq {Master} /\ (state # "WAITING" => waiters = {})
    BY <2>1 DEF Waits
  <2>3. waiters' = {t}
    BY <2>1, <2>2, NotifiedWaiters
  <2>4. mutatorPc'[t] = "asked" /\ state' = "GC_REQUESTED"
    OBVIOUS
  <2> QED BY <2>3, <2>4 DEF Waits
<1> QED BY <1>2, <1>3, <1>4, <1>5

LEMMA AnsweredStep ==
    ASSUME IInv, TypeOK', ~collided', NEW t \in Mutators, Answered(t)
    PROVE  IInv'
<1> USE MasterAssumption DEF IInv, TypeOK, Holding, Answered, Now, MutexFree
<1>2. Life'
  BY DEF Life, Live, sharedVars, accessVars, masterVars, otherVars
<1>3. Phase'
  BY DEF Phase, sharedVars, accessVars, masterVars, otherVars
<1>4. Calls'
  BY DEF Calls, Life, Live, Asked, sharedVars, accessVars, masterVars, otherVars
<1>5. Waits'
  BY DEF Waits, Life, Calls, Live, sharedVars, accessVars, masterVars, otherVars
<1> QED BY <1>2, <1>3, <1>4, <1>5

-----------------------------------------------------------------------------
(* The theorems. *)

\* A collision is not forgotten.
LEMMA CollidedStays == [Next]_vars /\ collided => collided'
  BY DEF Next, MasterStep, MutatorStep, vars, otherVars, Startup, StartedUp, BeginShutdown, Shutdown,
         Attach, Top, Second, Awake, Bottom, AcquireVMAccess, LookForWork, ConcurrentCollect,
         ReleaseVMAccess, HandledConcurrent, GarbageCollect, CollectAsCaller, AskForConcurrent,
         Request, Answered

LEMMA Inductive == Inv /\ [Next]_vars => Inv'
<1> SUFFICES ASSUME Inv, [Next]_vars, ~collided' PROVE IInv'
  BY TypeStep DEF Inv
<1>0. IInv /\ TypeOK'
  BY CollidedStays, TypeStep DEF Inv
<1>1. CASE UNCHANGED vars
  BY <1>0, <1>1 DEF vars, sharedVars, accessVars, masterVars, otherVars, IInv, TypeOK, Life, Live,
                    Phase, Calls, Asked, Waits
<1>2. CASE Startup \/ StartedUp \/ BeginShutdown \/ Shutdown
  BY <1>0, <1>2, StartupStep, StartedUpStep, BeginShutdownStep, ShutdownStep
<1>3. CASE MasterStep
  BY <1>0, <1>3, AttachStep, TopStep, SecondStep, AwakeStep, BottomStep, AcquireVMAccessStep,
     LookForWorkStep, ConcurrentCollectStep, ReleaseVMAccessStep, HandledConcurrentStep
     DEF MasterStep
<1>4. ASSUME NEW t \in Mutators, GarbageCollect(t) \/ MutatorStep(t)
      PROVE  IInv'
  BY <1>0, <1>4, GarbageCollectStep, CollectAsCallerStep, AskForConcurrentStep, RequestStep,
     AnsweredStep DEF MutatorStep
<1> QED BY <1>1, <1>2, <1>3, <1>4 DEF Next

LEMMA Invariance == Spec => []Inv
<1>1. Init => Inv
  BY InitIInv DEF Inv, IInv
<1> QED BY <1>1, Inductive, PTL DEF Spec

\* shutdown() returns only once the master thread has reported its end, or was never
\* there; after that report _masterGCThread is NULL and the state is ERROR or TERMINATED;
\* until an explicit master is asked to collect while it is shut down.
THEOREM Final == Spec => []ShutdownIsFinal
<1>1. Inv => ShutdownIsFinal
  BY DEF Inv, IInv, TypeOK, States, Life, Live, ShutdownIsFinal
<1> QED BY <1>1, Invariance, PTL

\* For any number of requesters, until an explicit master is asked to collect while it is
\* shut down: the states the assertions of garbageCollect and handleSTW exclude are never
\* met, and every notify of the one monitor reaches the thread that it is for; and the
\* end of the master is final.
THEOREM Handshake == Spec => []HandshakeInv
<1>1. Inv /\ ShutdownIsFinal => HandshakeInv
  <2> SUFFICES ASSUME IInv PROVE AssertionsHold /\ NobodyOversleeps
    BY DEF Inv, HandshakeInv
  <2>1. AssertionsHold
    BY MasterAssumption
       DEF IInv, TypeOK, Holding, Life, Live, Phase, Calls, Asked, AssertionsHold, MutexFree
  <2>2. NobodyOversleeps
    BY MasterAssumption DEF IInv, TypeOK, Life, Waits, NobodyOversleeps
  <2> QED BY <2>1, <2>2
<1> QED BY <1>1, Final, Invariance, PTL
=============================================================================

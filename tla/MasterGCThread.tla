-------------------------- MODULE MasterGCThread --------------------------
(***************************************************************************)
(* MM_MasterGCThread, gc/base/MasterGCThread.cpp: the handshake between    *)
(* the threads that ask for a collection, the dedicated master GC thread   *)
(* and the controller that starts it up and shuts it down, all on one      *)
(* monitor with single notifications.                                      *)
(*                                                                         *)
(* The master is implicit, with VM access while it runs a concurrent phase *)
(* (as the concurrent scavenger uses it: the requester collects, the       *)
(* master only runs the concurrent phase), or explicit, without (the       *)
(* default: the master collects for the requester).  The other two values  *)
(* of the two flags are not used by any collector and not modelled.        *)
(*                                                                         *)
(* A section under _collectorControlMutex is one step, except where the    *)
(* master releases it half-way; it holds the mutex between its steps when  *)
(* its pc is in Holding.  The wait set remains.                            *)
(*                                                                         *)
(* Definitions marked `mutant' are seeded faults, used to show that the    *)
(* properties can fail.                                                    *)
(***************************************************************************)
EXTENDS Naturals

CONSTANTS
    Mutators,           \* the threads that ask for collections
    Master, Controller, NoThread,
    MaxCollections      \* bound on the calls of garbageCollect

ASSUME MasterAssumption ==
    /\ Master # Controller /\ {Master, Controller} \cap Mutators = {}
    /\ NoThread \notin Mutators \cup {Master, Controller}
    /\ MaxCollections \in Nat

VARIABLES
    implicit,           \* _runAsImplicit, and _acquireVMAccessDuringConcurrent (fixed)
    state,              \* _masterThreadState
    registered,         \* _masterGCThread is not NULL
    incoming,           \* _incomingCycleState: whose, or NoThread
    waiters,            \* threads that wait on the monitor and were not notified
    work,               \* the collector's concurrent state, between its STW phases
    exclusive,          \* the thread with exclusive VM access
    vmAccess,           \* the master has VM access
    masterPc, again, workDone,  \* where the master is; in handleConcurrent, where it was called, its result
    mutatorPc, controllerPc,
    collections,
    collided            \* history: an explicit master was asked to collect while it was shut down

sharedVars == <<state, registered, incoming, waiters>>
accessVars == <<exclusive, vmAccess>>
masterVars == <<masterPc, again, workDone>>
otherVars == <<mutatorPc, controllerPc, collections, collided>>
vars == <<implicit, sharedVars, work, accessVars, masterVars, otherVars>>

States == {"ERROR", "DISABLED", "STARTING", "WAITING", "GC_REQUESTED", "RUNNING_CONCURRENT",
           "TERMINATION_REQUESTED", "TERMINATED"}
Holding == {"top", "second", "bottom", "look", "after"}

\* The collector is not left half-way in an STW phase, as switchConcurrentForThread asserts.
TypeOK ==
    /\ implicit \in BOOLEAN /\ state \in States /\ registered \in BOOLEAN
    /\ incoming \in Mutators \cup {NoThread} /\ waiters \subseteq Mutators \cup {Master, Controller}
    /\ work \in {"idle", "scan", "complete"}
    /\ exclusive \in Mutators \cup {NoThread} /\ vmAccess \in BOOLEAN
    /\ masterPc \in Holding \cup {"none", "attach", "waiting", "acquire", "lookOut", "collect", "release",
                                  "reenter", "gone"}
    /\ again \in BOOLEAN /\ workDone \in BOOLEAN
    /\ mutatorPc \in [Mutators -> {"run", "collect", "ask", "request", "asked"}]
    /\ controllerPc \in {"new", "starting", "up", "stop", "stopping", "down"}
    /\ collections \in 0..MaxCollections /\ collided \in BOOLEAN

\* initialize().
Init ==
    /\ implicit \in BOOLEAN
    /\ state = "ERROR" /\ registered = FALSE /\ incoming = NoThread /\ waiters = {}
    /\ work = "idle" /\ exclusive = NoThread /\ vmAccess = FALSE
    /\ masterPc = "none" /\ again = FALSE /\ workDone = FALSE
    /\ mutatorPc = [t \in Mutators |-> "run"] /\ controllerPc = "new" /\ collections = 0
    /\ collided = FALSE

MutexFree == masterPc \notin Holding
\* The wait set after a notify and then, if it waits, the addition of a thread.
Notified == IF waiters = {} THEN {{}} ELSE {waiters \ {t} : t \in waiters}

-----------------------------------------------------------------------------
(* startup() and shutdown() *)

Startup ==
    /\ controllerPc = "new"
    /\ \/ /\ state' = "DISABLED" /\ controllerPc' = "up"        \* fvtest_disableExplictMasterThread
          /\ UNCHANGED <<waiters, masterPc>>
       \/ /\ state' = "ERROR" /\ controllerPc' = "up"           \* the thread is not created
          /\ UNCHANGED <<waiters, masterPc>>
       \/ /\ state' = "STARTING" /\ controllerPc' = "starting" /\ masterPc' = "attach"
          /\ waiters' = waiters \cup {Controller}
    /\ UNCHANGED <<implicit, registered, incoming, work, accessVars, again, workDone, mutatorPc, collections, collided>>

\* The wait of startup() has ended, with success or in error.
StartedUp ==
    /\ controllerPc = "starting" /\ Controller \notin waiters /\ MutexFree /\ state # "STARTING"
    /\ controllerPc' = "up"
    /\ UNCHANGED <<implicit, sharedVars, work, accessVars, masterVars, mutatorPc, collections, collided>>

\* shutdown(), which looks at the state without the mutex.
Asked == \E t \in Mutators : mutatorPc[t] \in {"request", "asked"}
BeginShutdown ==
    /\ controllerPc = "up"
    /\ controllerPc' = IF state \in {"ERROR", "DISABLED"} THEN "down" ELSE "stop"
    /\ collided' = (collided \/ Asked)
    /\ UNCHANGED <<implicit, sharedVars, work, accessVars, masterVars, mutatorPc, collections>>

Terminated == state = "TERMINATED"
Shutdown ==
    /\ controllerPc \in {"stop", "stopping"} /\ Controller \notin waiters /\ MutexFree
    /\ IF Terminated
       THEN controllerPc' = "down" /\ UNCHANGED <<state, waiters>>
       ELSE /\ controllerPc' = "stopping" /\ state' = "TERMINATION_REQUESTED"
            /\ \E ws \in Notified : waiters' = ws \cup {Controller}
    /\ UNCHANGED <<implicit, registered, incoming, work, accessVars, masterVars, mutatorPc, collections, collided>>

-----------------------------------------------------------------------------
(* masterThreadEntryPoint() *)

Attach ==
    /\ masterPc = "attach"
    /\ \/ state' = "WAITING" /\ registered' = TRUE /\ masterPc' = "top"
       \/ state' = "ERROR" /\ masterPc' = "gone" /\ UNCHANGED registered
    /\ waiters' \in Notified
    /\ UNCHANGED <<implicit, incoming, work, accessVars, again, workDone, otherVars>>

\* What an STW increment leaves the collector's concurrent state at: it ends the cycle, or
\* it starts one and stops before the scan, unless it backs out.
AfterSTW(w) == IF w = "idle" THEN {"idle", "scan"} ELSE {"idle"}

\* handleConcurrent, from its call to where it looks for work.
CallHandleConcurrent(second) ==
    /\ state' = "RUNNING_CONCURRENT" /\ again' = second
    /\ masterPc' = IF implicit THEN "acquire" ELSE "look"

\* The loop: a request is handled.
ForgetIncoming == NoThread
Top ==
    /\ masterPc = "top"
    /\ \/ /\ state = "GC_REQUESTED" /\ implicit
          /\ CallHandleConcurrent(FALSE)
          /\ UNCHANGED <<incoming, waiters, work>>
       \/ /\ state = "GC_REQUESTED" /\ ~implicit        \* handleSTW
          /\ work' \in AfterSTW(work)
          /\ incoming' = ForgetIncoming /\ state' = "WAITING" /\ waiters' \in Notified
          /\ masterPc' = "second" /\ UNCHANGED again
       \/ /\ state # "GC_REQUESTED"
          /\ masterPc' = "second"
          /\ UNCHANGED <<incoming, state, waiters, work, again>>
    /\ UNCHANGED <<implicit, registered, accessVars, workDone, otherVars>>

WaitForWork == waiters' = waiters \cup {Master} /\ masterPc' = "waiting"

Second ==
    /\ masterPc = "second"
    /\ \/ /\ state = "WAITING" /\ implicit
          /\ WaitForWork /\ UNCHANGED <<state, again>>
       \/ /\ state = "WAITING" /\ ~implicit
          /\ CallHandleConcurrent(TRUE) /\ UNCHANGED waiters
       \/ /\ state # "WAITING"
          /\ masterPc' = "bottom" /\ UNCHANGED <<state, waiters, again>>
    /\ UNCHANGED <<implicit, registered, incoming, work, accessVars, workDone, otherVars>>

Awake ==
    /\ masterPc = "waiting" /\ Master \notin waiters
    /\ masterPc' = "bottom"
    /\ UNCHANGED <<implicit, sharedVars, work, accessVars, again, workDone, otherVars>>

Bottom ==
    /\ masterPc = "bottom"
    /\ IF state = "TERMINATION_REQUESTED"
       THEN /\ state' = "TERMINATED" /\ registered' = FALSE /\ waiters' \in Notified
            /\ masterPc' = "gone"
       ELSE masterPc' = "top" /\ UNCHANGED <<state, registered, waiters>>
    /\ UNCHANGED <<implicit, incoming, work, accessVars, again, workDone, otherVars>>

-----------------------------------------------------------------------------
(* handleConcurrent() *)

AcquireVMAccess ==
    /\ masterPc = "acquire" /\ exclusive = NoThread
    /\ vmAccess' = TRUE /\ masterPc' = "lookOut"
    /\ UNCHANGED <<implicit, sharedVars, work, exclusive, again, workDone, otherVars>>

\* isConcurrentWorkAvailable; the mutex is given up before the concurrent phase.
LookForWork ==
    /\ masterPc \in {"look", "lookOut"}
    /\ masterPc' = IF work = "scan" THEN "collect" ELSE IF implicit THEN "release" ELSE "after"
    /\ workDone' = (work = "scan")
    /\ UNCHANGED <<implicit, sharedVars, work, accessVars, again, otherVars>>

\* masterThreadConcurrentCollect, which forceConcurrentFinish may cut short.
ConcurrentCollect ==
    /\ masterPc = "collect"
    /\ work' = IF work = "scan" THEN "complete" ELSE work
    /\ masterPc' = IF implicit THEN "release" ELSE "reenter"
    /\ UNCHANGED <<implicit, sharedVars, accessVars, again, workDone, otherVars>>

ReleaseVMAccess ==
    /\ masterPc = "release"
    /\ vmAccess' = FALSE /\ masterPc' = "reenter"
    /\ UNCHANGED <<implicit, sharedVars, work, exclusive, again, workDone, otherVars>>

\* The state is reset, unless a request has changed it meanwhile.
AlwaysWaiting == "WAITING"      \* mutant
StateAfterConcurrent == IF state = "RUNNING_CONCURRENT" THEN "WAITING" ELSE state
WaitAlways == TRUE              \* mutant
NothingDone == ~workDone
HandledConcurrent ==
    /\ masterPc \in {"reenter", "after"}
    /\ state' = StateAfterConcurrent
    /\ IF again /\ NothingDone THEN WaitForWork
       ELSE masterPc' = (IF again THEN "bottom" ELSE "second") /\ UNCHANGED waiters
    /\ workDone' = FALSE
    /\ UNCHANGED <<implicit, registered, incoming, work, accessVars, again, otherVars>>

-----------------------------------------------------------------------------
(* garbageCollect(), with exclusive VM access *)

Now(t, place) == mutatorPc' = [mutatorPc EXCEPT ![t] = place]

GarbageCollect(t) ==
    /\ mutatorPc[t] = "run" /\ collections < MaxCollections
    /\ exclusive = NoThread /\ ~vmAccess
    /\ exclusive' = t /\ collections' = collections + 1
    /\ Now(t, IF implicit \/ ~registered THEN "collect" ELSE "request")
    /\ collided' = (collided \/ (~implicit /\ registered /\ controllerPc \in {"stop", "stopping"}))
    /\ UNCHANGED <<implicit, sharedVars, work, vmAccess, masterVars, controllerPc>>

\* The caller collects; then the concurrent phase, if there is one, is left to the master.
CollectAsCaller(t) ==
    /\ mutatorPc[t] = "collect"
    /\ work' \in AfterSTW(work)
    /\ IF implicit /\ work' = "scan"
       THEN Now(t, "ask") /\ UNCHANGED exclusive
       ELSE Now(t, "run") /\ exclusive' = NoThread
    /\ UNCHANGED <<implicit, sharedVars, vmAccess, masterVars, controllerPc, collections, collided>>

MasterWaits == state = "WAITING"
AskForConcurrent(t) ==
    /\ mutatorPc[t] = "ask" /\ MutexFree
    /\ IF MasterWaits
       THEN state' = "GC_REQUESTED" /\ waiters' \in Notified
       ELSE UNCHANGED <<state, waiters>>
    /\ Now(t, "run") /\ exclusive' = NoThread
    /\ UNCHANGED <<implicit, registered, incoming, work, vmAccess, masterVars, controllerPc, collections, collided>>

\* The master is asked to collect, and the caller waits.
Request(t) ==
    /\ mutatorPc[t] = "request" /\ MutexFree
    /\ incoming' = t /\ state' = "GC_REQUESTED"
    /\ \E ws \in IF state = "WAITING" THEN Notified ELSE {waiters} : waiters' = ws \cup {t}
    /\ Now(t, "asked")
    /\ UNCHANGED <<implicit, registered, work, accessVars, masterVars, controllerPc, collections, collided>>

Answered(t) ==
    /\ mutatorPc[t] = "asked" /\ t \notin waiters /\ MutexFree /\ state # "GC_REQUESTED"
    /\ Now(t, "run") /\ exclusive' = NoThread
    /\ UNCHANGED <<implicit, sharedVars, work, vmAccess, masterVars, controllerPc, collections, collided>>

-----------------------------------------------------------------------------
MasterStep ==
    \/ (Attach /\ MutexFree) \/ Top \/ Second \/ Awake \/ Bottom
    \/ AcquireVMAccess \/ LookForWork \/ ConcurrentCollect \/ ReleaseVMAccess \/ HandledConcurrent

MutatorStep(t) == CollectAsCaller(t) \/ AskForConcurrent(t) \/ Request(t) \/ Answered(t)

Next ==
    \/ MasterStep \/ Startup \/ StartedUp \/ BeginShutdown \/ Shutdown
    \/ \E t \in Mutators : GarbageCollect(t) \/ MutatorStep(t)

Spec == Init /\ [][Next]_vars

\* Every thread that is in a call, and the master, runs.
FairSpec ==
    /\ Spec /\ WF_vars(MasterStep) /\ WF_vars(StartedUp \/ Shutdown)
    /\ \A t \in Mutators : WF_vars(MutatorStep(t))

-----------------------------------------------------------------------------
(* Properties. *)

\* A notification goes to one thread only, and it is the right one: nobody waits on for
\* what has come about - the master for a request or its termination, the requester for
\* the end of its collection, the controller for the start or the end of the master.
NobodyOversleeps ==
    /\ state \in {"GC_REQUESTED", "TERMINATION_REQUESTED"} => Master \notin waiters
    /\ state # "GC_REQUESTED" => waiters \cap Mutators = {}
    /\ state # "STARTING" /\ controllerPc = "starting" => Controller \notin waiters
    /\ state = "TERMINATED" => Controller \notin waiters

\* The assertions of garbageCollect, handleSTW and masterThreadConcurrentCollect: a request
\* finds the master waiting or in a concurrent phase and is answered only when its cycle
\* has been taken; the master has a cycle to take; no concurrent phase is begun twice.
AssertionsHold ==
    /\ \A t \in Mutators :
        /\ mutatorPc[t] = "request" /\ MutexFree => state \in {"WAITING", "RUNNING_CONCURRENT"}
        /\ mutatorPc[t] = "asked" /\ state # "GC_REQUESTED" => incoming = NoThread
    /\ ~implicit /\ state = "GC_REQUESTED" => incoming # NoThread
    /\ masterPc = "collect" => work # "complete"

\* Once it has reported its end the master is neither asked nor expected to do anything, and
\* shutdown() does not return before that; until an explicit master is
\* asked to collect while it is shut down.
ShutdownIsFinal ==
    ~collided =>
        /\ controllerPc = "down" /\ state \notin {"ERROR", "DISABLED"} => masterPc = "gone"
        /\ masterPc = "gone" => state \in {"ERROR", "TERMINATED"} /\ ~registered

\* The handshake over the one monitor: states and requests fit together, as the code
\* asserts, and nobody sleeps through what it waits for, with the same exception; and the
\* end of the master is final.
HandshakeInv == TypeOK /\ (~collided => AssertionsHold /\ NobodyOversleeps) /\ ShutdownIsFinal

\* A collection that was asked for ends, whether the master has started, runs a concurrent
\* phase, is shut down or is gone; an explicit master that is asked while it is shut down
\* is the exception.
CollectionsEnd == \A t \in Mutators : (mutatorPc[t] # "run") ~> (mutatorPc[t] = "run" \/ collided)

\* startup() and shutdown() return, whatever an implicit master is doing when they are
\* called; an explicit one may run a concurrent phase, but must not be asked to collect
\* meanwhile.
ControllerReturns ==
    /\ (controllerPc = "starting") ~> (controllerPc = "up")
    /\ (controllerPc = "stop") ~> (controllerPc = "down" \/ collided)

\* The calls of garbageCollect, startup and shutdown all return, with these exceptions: what
\* a lost notification, or a state overwritten while the master runs without the mutex,
\* would prevent.
CallsEnd == CollectionsEnd /\ ControllerReturns
=============================================================================

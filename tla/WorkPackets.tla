---------------------------- MODULE WorkPackets ----------------------------
(***************************************************************************)
(* Parallel marking: the GC threads in MM_MarkingScheme::completeScan, the *)
(* work stack of each (gc/base/WorkStack.cpp), the packets they share      *)
(* (gc/base/WorkPackets.cpp), how they find out that no work is left, and  *)
(* the overflow of work into the mark map when the packets run out         *)
(* (gc/base/standard/OverflowStandard.cpp).                                *)
(*                                                                         *)
(* A packet is the sequence of objects in it: packets have no identity.    *)
(* A list is a sequence of packets with its head last; the lock of a list  *)
(* makes push and pop atomic, and a list is not split (packetListSplit=1). *)
(* Counters and lists that the code reads without a lock are read in steps *)
(* of their own.  The locals of a thread are the record env[t]; what a     *)
(* call does to them alone is an operator on that record.                  *)
(*                                                                         *)
(* Definitions marked `mutant' are seeded faults, used to show that the    *)
(* properties can fail.                                                    *)
(***************************************************************************)
EXTENDS Naturals, FiniteSets, SequencesExt

CONSTANTS
    Threads,                \* the threads of the marking task
    Master,                 \* the one with slave ID 0
    NoThread, NoPacket,     \* NULL
    HeapTop,                \* objects have the addresses 1..HeapTop
    Refs,                   \* the slots of each object: [Objects -> Seq(Objects)]
    Roots,                  \* what the language marks before each completeScan
    Slots,                  \* _slotsInPacket
    FullPacketThreshold, SatisfactoryCapacity, MaxPacketSearch,
    InitialPackets, PacketsPerBlock, MaxPackets

Objects == 1..HeapTop
Packets == Seq(Objects)

ASSUME ThreadsAssumption ==
    IsFiniteSet(Threads) /\ Master \in Threads /\ NoThread \notin Threads
ASSUME HeapAssumption ==
    /\ HeapTop \in Nat /\ Refs \in [Objects -> Seq(Objects)]
    /\ Roots \in Seq(Seq(Objects)) /\ Roots # <<>>
\* Two packets per thread, `so that every thread can make forward progress at once'.
ASSUME PacketsAssumption ==
    /\ Slots \in Nat \ {0} /\ FullPacketThreshold \in Nat /\ SatisfactoryCapacity \in Nat
    /\ MaxPacketSearch \in Nat \ {0} /\ PacketsPerBlock \in Nat \ {0} /\ NoPacket \notin Packets
    /\ InitialPackets \in Nat /\ InitialPackets >= 2 * Cardinality(Threads) /\ MaxPackets \in Nat

VARIABLES
    list, activePackets,                    \* the packet lists, _activePackets
    inputListWaitCount, inputListDoneIndex,
    owner, count, waitState, saved,         \* _inputListMonitor
    marked, overflowed,     \* the mark bits, the overflow bits (double marking)
    overflow,               \* _overflow
    walk,                   \* where the master is in its walk of the heap
    scanned,                \* objects taken for scanning (history)
    env                     \* the locals of each thread

Monitor == INSTANCE Monitor

listVars == <<list, activePackets>>
countVars == <<inputListWaitCount, inputListDoneIndex>>
monitorVars == <<owner, count, waitState, saved>>
markVars == <<marked, overflowed, overflow, walk, scanned>>
vars == <<listVars, countVars, monitorVars, markVars, env>>

Lists == {"empty", "full", "relativelyFull", "nonEmpty"}

\* The order in which inputPacketAvailable and getLeastFullPacket read the lists.
InputLists == <<"full", "relativelyFull", "nonEmpty">>
OutputLists == <<"nonEmpty", "relativelyFull">>

Locals ==
    [pc : {"mark", "pop", "check", "choose", "take", "took", "swap", "enter", "entered", "finish", "wait",
           "waiting", "leave", "put", "push", "pushNotify", "pushed", "notify", "notifying", "notified",
           "takeEmpty", "search", "putBack", "allocate", "takeFull", "alert", "pushItem", "scanDone",
           "sync", "walk", "flush", "done"},
     \* the call the thread is in
     call : {"none", "retrieve", "get", "getNoWait", "last", "waiting", "more", "roots", "pushFailed",
             "first", "second", "third", "overflowed", "flush"},
     round : 1..Len(Roots),             \* the call of completeScan it has come to
     from : {"roots", "scan", "walk"},  \* what the scanning of slots returns to
     todo : Seq(Objects),               \* slots still to be marked
     item : Objects \cup {0},           \* the element pushFailed has to push
     input : Packets \cup {NoPacket}, output : Packets \cup {NoPacket},
     hand : Seq(Packets), selected : 0..MaxPacketSearch,    \* `temps' and `selected'
     look : Seq(Lists),                 \* lists still to be looked at
     doneIndex : Nat]

TypeOK ==
    /\ list \in [Lists -> Seq(Packets)] /\ activePackets \in Nat
    /\ inputListWaitCount \in 0..Cardinality(Threads) /\ inputListDoneIndex \in Nat
    /\ Monitor!TypeOK
    /\ marked \in SUBSET Objects /\ overflowed \in SUBSET marked /\ scanned \in SUBSET marked
    /\ overflow \in BOOLEAN /\ walk \in 0..(HeapTop + 1)
    /\ env \in [Threads -> Locals]

\* The task has started: the threads are about to mark the roots.
Init ==
    /\ list = [l \in Lists |-> IF l = "empty" THEN [i \in 1..InitialPackets |-> <<>>] ELSE <<>>]
    /\ activePackets = InitialPackets
    /\ inputListWaitCount = 0 /\ inputListDoneIndex = 0
    /\ Monitor!Init
    /\ marked = {} /\ overflowed = {} /\ overflow = FALSE /\ walk = 0 /\ scanned = {}
    /\ env = [t \in Threads |->
                [pc |-> "mark", call |-> "none", round |-> 1, from |-> "roots", todo |-> Roots[1], item |-> 0,
                 input |-> NoPacket, output |-> NoPacket, hand |-> <<>>, selected |-> 0, look |-> <<>>,
                 doneIndex |-> 0]]

-----------------------------------------------------------------------------
(* Building blocks. *)

At(t, place) == env[t].pc = place
Becomes(t, e) == env' = [env EXCEPT ![t] = e]

\* The head of list l; the lists with l popped; with packet p pushed on l.
HeadOf(l) == Last(list[l])
Popped(l) == [list EXCEPT ![l] = Front(@)]
Pushed(l, p) == [list EXCEPT ![l] = Append(@, p)]

freeSlots(p) == Slots - Len(p)
HasWork(p) == p # NoPacket /\ p # <<>>

\* The locals e at another place, in another call.
Goto(e, place) == [e EXCEPT !.pc = place]
Calls(e, place, call) == [e EXCEPT !.pc = place, !.call = call]

\* inputPacketAvailable, getLeastFullPacket and putPacket(p) are called.
Checks(e, call) == [e EXCEPT !.pc = "check", !.call = call, !.look = InputLists]
Searches(e, call) == [e EXCEPT !.pc = "search", !.call = call, !.look = OutputLists]
Puts(e, p, call) == [e EXCEPT !.pc = "put", !.call = call, !.hand = Append(@, p)]

\* The return from putPacket or notifyWaitingThreads.
Returns(e) ==
    CASE e.call \in {"more", "roots"} -> Calls(e, "pop", "none")
      [] e.call = "pushFailed" -> Calls(e, "takeEmpty", "first")
      [] e.call \in {"first", "second", "third"} -> Goto(e, "putBack")
      [] e.call = "overflowed" -> Calls(e, "pushItem", "none")
      [] e.call = "flush" -> Calls(e, "flush", "none")

-----------------------------------------------------------------------------
(* MarkingScheme: marking the slots of an object, or the roots. *)

\* MM_WorkStack::push of o, up to the calls of pushFailed.
Push(e, o) ==
    CASE e.output # NoPacket /\ freeSlots(e.output) > 0 -> [e EXCEPT !.output = Append(@, o)]
      [] e.output # NoPacket /\ freeSlots(e.output) = 0 ->
            Puts([e EXCEPT !.item = o, !.output = NoPacket], e.output, "pushFailed")
      [] e.output = NoPacket -> Calls([e EXCEPT !.item = o], "takeEmpty", "first")

\* inlineMarkObjectNoCheck of the next slot.
MarkSlot(t) ==
    LET o == Head(env[t].todo)
        e == [env[t] EXCEPT !.todo = Tail(@)]
    IN
    /\ At(t, "mark") /\ env[t].todo # <<>>
    /\ marked' = marked \cup {o}
    /\ Becomes(t, IF o \in marked THEN e ELSE Push(e, o))
    /\ UNCHANGED <<listVars, countVars, monitorVars, overflowed, overflow, walk, scanned>>

\* All slots are done.
ScanEnds(t) ==
    /\ At(t, "mark") /\ env[t].todo = <<>>
    /\ Becomes(t, Goto(env[t], IF env[t].from = "walk" THEN "walk" ELSE "pop"))
    /\ UNCHANGED <<listVars, countVars, monitorVars, markVars>>

\* flushOutputPacket, which the language may call when it has marked roots.
FlushOutputPacket(t) ==
    /\ At(t, "mark") /\ env[t].todo = <<>> /\ env[t].from = "roots" /\ env[t].output # NoPacket
    /\ Becomes(t, Puts([env[t] EXCEPT !.output = NoPacket], env[t].output, "roots"))
    /\ UNCHANGED <<listVars, countVars, monitorVars, markVars>>

-----------------------------------------------------------------------------
(* putPacket and notifyWaitingThreads. *)

ListFor(p) ==
    CASE freeSlots(p) = Slots -> "empty"
      [] freeSlots(p) = 0     -> "full"
      [] freeSlots(p) \in 1..(FullPacketThreshold - 1) -> "relativelyFull"
      [] OTHER -> "nonEmpty"

\* The list is chosen and, unless the packet is empty, asked whether it is empty ...
PutPacket(t) ==
    LET p == Last(env[t].hand)  e == [env[t] EXCEPT !.hand = Front(@)] IN
    /\ At(t, "put")
    /\ IF p = <<>> THEN list' = Pushed("empty", p) /\ Becomes(t, Returns(e))
       ELSE /\ Becomes(t, Goto(env[t], IF list[ListFor(p)] = <<>> THEN "pushNotify" ELSE "push"))
            /\ UNCHANGED list
    /\ UNCHANGED <<activePackets, countVars, monitorVars, markVars>>

\* ... the packet is pushed ...
PutPush(t) ==
    LET p == Last(env[t].hand)  e == [env[t] EXCEPT !.hand = Front(@)] IN
    /\ env[t].pc \in {"push", "pushNotify"}
    /\ list' = Pushed(ListFor(p), p)
    /\ Becomes(t, IF At(t, "push") THEN Returns(e) ELSE Goto(e, "pushed"))
    /\ UNCHANGED <<activePackets, countVars, monitorVars, markVars>>

\* ... and the wait count is read, without the monitor.
PutNotify(t) ==
    /\ At(t, "pushed")
    /\ Becomes(t, IF inputListWaitCount > 0 THEN Goto(env[t], "notify") ELSE Returns(env[t]))
    /\ UNCHANGED <<listVars, countVars, monitorVars, markVars>>

\* notifyWaitingThreads only tries to enter the monitor.
TryEnter(t) ==
    /\ At(t, "notify")
    /\ \/ owner = NoThread /\ Monitor!Enter(t) /\ Becomes(t, Goto(env[t], "notifying"))
       \/ owner # NoThread /\ Becomes(t, Returns(env[t])) /\ UNCHANGED monitorVars
    /\ UNCHANGED <<listVars, countVars, markVars>>

Notifying(t) ==
    /\ At(t, "notifying") /\ Becomes(t, Goto(env[t], "notified"))
    /\ IF inputListWaitCount > 0 THEN Monitor!Notify(t) ELSE UNCHANGED monitorVars
    /\ UNCHANGED <<listVars, countVars, markVars>>

Notified(t) ==
    /\ At(t, "notified") /\ Monitor!Exit(t) /\ Becomes(t, Returns(env[t]))
    /\ UNCHANGED <<listVars, countVars, markVars>>

-----------------------------------------------------------------------------
(* MM_WorkStack::pop, getInputPacketNoWait and getInputPacket. *)

\* An object is scanned.
Scans(e, o, caller) == [e EXCEPT !.pc = "mark", !.call = "none", !.from = caller, !.todo = Refs[o]]

\* popFailed puts an empty input packet back.
ReturnEmptyInput(t) == list' = IF env[t].input = NoPacket THEN list ELSE Pushed("empty", env[t].input)

Pop(t) ==
    LET e == env[t] IN
    /\ At(t, "pop")
    /\ \/ /\ HasWork(e.input)
          /\ scanned' = scanned \cup {Last(e.input)}
          /\ Becomes(t, Scans([e EXCEPT !.input = Front(@)], Last(e.input), "scan"))
          /\ UNCHANGED list
       \/ /\ ~HasWork(e.input) /\ ReturnEmptyInput(t)
          /\ Becomes(t, Checks([e EXCEPT !.input = NoPacket], "retrieve"))
          /\ UNCHANGED scanned
    /\ UNCHANGED <<activePackets, countVars, monitorVars, marked, overflowed, overflow, walk>>

\* What an answer of inputPacketAvailable leads to.
Available(e) ==
    CASE e.call \in {"retrieve", "getNoWait"} -> Goto(e, "choose")
      [] e.call = "get"     -> Checks(e, "getNoWait")
      [] e.call = "last"    -> Checks(e, "waiting")
      [] e.call = "waiting" -> Goto(e, "leave")
      [] e.call = "more"    -> Goto(e, "notify")

Unavailable(e) ==
    CASE e.call = "retrieve"  -> Goto(e, "swap")
      [] e.call = "getNoWait" -> Checks(e, "get")
      [] e.call = "get"       -> Goto(e, "enter")
      [] e.call = "last"      -> Goto(e, "finish")
      [] e.call = "waiting"   -> Goto(e, "wait")
      [] e.call = "more"      -> Calls(e, "pop", "none")

\* The next list was found empty: another one is looked at, or that was the last.
Misses(e, exhausted) == IF Len(e.look) > 1 THEN [e EXCEPT !.look = Tail(@)] ELSE exhausted

\* inputPacketAvailable reads one list after the other; overflow is no input.
InputPacketAvailable(t) ==
    /\ At(t, "check")
    /\ Becomes(t, IF list[Head(env[t].look)] # <<>> THEN Available(env[t]) ELSE Misses(env[t], Unavailable(env[t])))
    /\ UNCHANGED <<listVars, countVars, monitorVars, markVars>>

\* getInputPacketNoWait: which list to take a packet from first ...
Choose(t) ==
    LET few == list["nonEmpty"] # <<>> /\ Len(list["empty"]) < activePackets \div 4 IN
    /\ At(t, "choose")
    /\ Becomes(t, [env[t] EXCEPT !.pc = "take", !.look = IF few THEN Reverse(InputLists) ELSE InputLists])
    /\ UNCHANGED <<listVars, countVars, monitorVars, markVars>>

Take(t) ==
    LET l == Head(env[t].look) IN
    /\ At(t, "take")
    /\ \/ list[l] # <<>> /\ list' = Popped(l) /\ Becomes(t, [env[t] EXCEPT !.pc = "took", !.input = HeadOf(l)])
       \/ list[l] = <<>> /\ Becomes(t, Misses(env[t], Unavailable(env[t]))) /\ UNCHANGED list
    /\ UNCHANGED <<activePackets, countVars, monitorVars, markVars>>

\* ... and, with a packet in hand, a waiting thread is told if there is another one.
Took(t) ==
    /\ At(t, "took")
    /\ Becomes(t, IF inputListWaitCount > 0 THEN Checks(env[t], "more") ELSE Calls(env[t], "pop", "none"))
    /\ UNCHANGED <<listVars, countVars, monitorVars, markVars>>

\* retrieveInputPacket found none: the output packet becomes the input packet, or
\* getInputPacket is called, which reads the done index first.
KeepsOutput(e) == [e EXCEPT !.input = e.output]                     \* mutant
Swapped(e) == [e EXCEPT !.input = e.output, !.output = NoPacket]

Swap(t) ==
    LET e == env[t] IN
    /\ At(t, "swap")
    /\ Becomes(t, IF HasWork(e.output) THEN Calls(Swapped(e), "pop", "none")
                  ELSE Checks([e EXCEPT !.doneIndex = inputListDoneIndex], "get"))
    /\ UNCHANGED <<listVars, countVars, monitorVars, markVars>>

\* getInputPacket and the end of getPacketByOverflowing enter the monitor.
Enter(t) ==
    /\ Monitor!Enter(t)
    /\ \/ At(t, "enter") /\ Becomes(t, Goto(env[t], "entered"))
       \/ At(t, "alert") /\ Becomes(t, Calls(env[t], "notifying", "overflowed"))
    /\ UNCHANGED <<listVars, countVars, markVars>>

\* Is the entering thread the last one to run out of work?
LastButOne == inputListWaitCount + 2 = Cardinality(Threads)         \* mutant
OthersWait == inputListWaitCount + 1 = Cardinality(Threads)

Entered(t) ==
    /\ At(t, "entered")
    /\ IF env[t].doneIndex = inputListDoneIndex
       THEN /\ inputListWaitCount' = inputListWaitCount + 1
            /\ Becomes(t, Checks(env[t], IF OthersWait THEN "last" ELSE "waiting"))
       ELSE Becomes(t, Goto(env[t], "leave")) /\ UNCHANGED inputListWaitCount
    /\ UNCHANGED <<listVars, inputListDoneIndex, monitorVars, markVars>>

\* The last one found no packet: this round is over.
TellNobody(t) == UNCHANGED monitorVars                              \* mutant
TellAll(t) == Monitor!NotifyAll(t)

Finish(t) ==
    /\ At(t, "finish") /\ Becomes(t, Goto(env[t], "leave"))
    /\ inputListDoneIndex' = inputListDoneIndex + 1
    /\ inputListWaitCount' = 0
    /\ TellAll(t)
    /\ UNCHANGED <<listVars, markVars>>

Wait(t) ==
    /\ At(t, "wait")
    /\ \/ env[t].doneIndex = inputListDoneIndex /\ Monitor!Wait(t) /\ Becomes(t, Goto(env[t], "waiting"))
       \/ env[t].doneIndex # inputListDoneIndex /\ Becomes(t, Goto(env[t], "leave")) /\ UNCHANGED monitorVars
    /\ UNCHANGED <<listVars, countVars, markVars>>

Reacquire(t) ==
    /\ At(t, "waiting") /\ Monitor!Reacquire(t) /\ Becomes(t, Checks(env[t], "waiting"))
    /\ UNCHANGED <<listVars, countVars, markVars>>

\* Only a thread that goes on looking for work takes back its count.
OneLessWaits == inputListWaitCount' = inputListWaitCount - 1

Leave(t) ==
    /\ At(t, "leave") /\ Monitor!Exit(t)
    /\ \/ /\ env[t].doneIndex # inputListDoneIndex
          /\ Becomes(t, Calls(env[t], "scanDone", "none")) /\ UNCHANGED inputListWaitCount
       \/ env[t].doneIndex = inputListDoneIndex /\ OneLessWaits /\ Becomes(t, Checks(env[t], "get"))
    /\ UNCHANGED <<listVars, inputListDoneIndex, markVars>>

-----------------------------------------------------------------------------
(* getOutputPacket. *)

\* A packet from the list of empty ones, or else getLeastFullPacket.
TakeEmptyOr(t, call) ==
    \/ /\ list["empty"] # <<>> /\ list' = Popped("empty")
       /\ Becomes(t, Calls([env[t] EXCEPT !.output = HeadOf("empty")], "pushItem", "none"))
    \/ list["empty"] = <<>> /\ Becomes(t, Searches(env[t], call)) /\ UNCHANGED list

\* First, after a block was added, and again in getPacketByOverflowing.
TakeEmpty(t) ==
    /\ At(t, "takeEmpty") /\ TakeEmptyOr(t, env[t].call)
    /\ UNCHANGED <<activePackets, countVars, monitorVars, markVars>>

\* getLeastFullPacket: the packets looked at are kept in hand.
RequiredSlots == 2
MaxCapacity(e) == IF e.selected = 0 THEN RequiredSlots - 1 ELSE freeSlots(e.hand[e.selected])

\* Packet p is looked at; the search may end with it.
LookAt(e, p) ==
    LET capacity == freeSlots(p)
        better == capacity > MaxCapacity(e)
        enough == \/ Len(e.hand) + 1 = MaxPacketSearch
                  \/ better /\ capacity >= SatisfactoryCapacity
                  \/ ~better /\ MaxCapacity(e) >= FullPacketThreshold /\ capacity < FullPacketThreshold
    IN  [e EXCEPT !.hand = Append(@, p), !.look = OutputLists,
                  !.selected = IF better THEN Len(e.hand) + 1 ELSE @,
                  !.pc = IF enough THEN "putBack" ELSE @]

GiveUp(e) == Goto(e, "putBack")

Search(t) ==
    LET l == Head(env[t].look) IN
    /\ At(t, "search")
    /\ \/ list[l] # <<>> /\ list' = Popped(l) /\ Becomes(t, LookAt(env[t], HeadOf(l)))
       \/ list[l] = <<>> /\ Becomes(t, Misses(env[t], GiveUp(env[t]))) /\ UNCHANGED list
    /\ UNCHANGED <<activePackets, countVars, monitorVars, markVars>>

\* The packets that were not selected go back, the last one first; the selected one
\* is the output packet.  If there is none, getOutputPacket tries what comes next.
PutBack(t) ==
    LET e == env[t] IN
    /\ At(t, "putBack")
    /\ Becomes(t,
         CASE e.hand # <<>> /\ Len(e.hand) = e.selected ->
                [e EXCEPT !.output = Last(e.hand), !.hand = Front(@), !.selected = 0]
           [] e.hand # <<>> /\ Len(e.hand) # e.selected -> Goto(e, "put")
           [] e.hand = <<>> /\ (e.output # NoPacket \/ e.call = "third") -> Calls(e, "pushItem", "none")
           [] e.hand = <<>> /\ e.output = NoPacket /\ e.call = "first"  -> Goto(e, "allocate")
           [] e.hand = <<>> /\ e.output = NoPacket /\ e.call = "second" -> Goto(e, "takeFull"))
    /\ UNCHANGED <<listVars, countVars, monitorVars, markVars>>

\* getPacketByAdddingWorkPacketBlock: the monitor _allocatingPackets makes looking
\* for an empty packet and adding a block one step.  There may be no memory for it.
Allocate(t) ==
    /\ At(t, "allocate")
    /\ \/ TakeEmptyOr(t, "second") /\ UNCHANGED activePackets
       \/ /\ list["empty"] = <<>> /\ activePackets < MaxPackets
          /\ list' = [list EXCEPT !["empty"] = [i \in 1..PacketsPerBlock |-> <<>>]]
          /\ activePackets' = activePackets + PacketsPerBlock
          /\ Becomes(t, Calls(env[t], "takeEmpty", "second"))
    /\ UNCHANGED <<countVars, monitorVars, markVars>>

\* emptyToOverflow and overflowItem of the standard handler.
Overflow(objects) == overflow' = TRUE /\ overflowed' = overflowed \cup objects

\* getPacketByOverflowing: a full packet is emptied into the mark map.
TakeFull(t) ==
    /\ At(t, "takeFull")
    /\ \/ /\ list["full"] # <<>> /\ list' = Popped("full")
          /\ Overflow(ToSet(HeadOf("full")))
          /\ Becomes(t, [env[t] EXCEPT !.output = <<>>, !.pc = "alert"])
       \/ /\ list["full"] = <<>> /\ Becomes(t, Calls(env[t], "takeEmpty", "third"))
          /\ UNCHANGED <<list, overflow, overflowed>>
    /\ UNCHANGED <<activePackets, countVars, monitorVars, marked, walk, scanned>>

\* The end of pushFailed: without an output packet the element itself overflows.
PushItem(t) ==
    LET e == [env[t] EXCEPT !.item = 0, !.pc = "mark"] IN
    /\ At(t, "pushItem")
    /\ \/ /\ e.output # NoPacket /\ Becomes(t, [e EXCEPT !.output = Append(@, env[t].item)])
          /\ UNCHANGED <<overflow, overflowed>>
       \/ e.output = NoPacket /\ Overflow({env[t].item}) /\ Becomes(t, e)
    /\ UNCHANGED <<listVars, countVars, monitorVars, marked, walk, scanned>>

-----------------------------------------------------------------------------
(* handleWorkPacketOverflow, and what follows completeScan. *)

\* Is there overflowed work to handle before completeScan can return?
NoneLeft == FALSE                                                   \* mutant
OverflowLeft == overflow

\* The language has more to mark before another completeScan, or the task ends.
ScanDone(t) ==
    LET e == env[t] IN
    /\ At(t, "scanDone")
    /\ Becomes(t,
         CASE OverflowLeft -> Goto(e, "sync")
           [] ~OverflowLeft /\ e.round < Len(Roots) ->
                [e EXCEPT !.pc = "mark", !.from = "roots", !.round = @ + 1, !.todo = Roots[e.round + 1]]
           [] ~OverflowLeft /\ e.round = Len(Roots) -> Goto(e, "flush"))
    /\ UNCHANGED <<listVars, countVars, monitorVars, markVars>>

\* handleOverflow: synchronizeGCThreadsAndReleaseMaster holds the other threads
\* (see ParallelTask), and the master clears the flag before it walks the heap.
ReleaseMaster(t) ==
    /\ t = Master /\ \A u \in Threads : At(u, "sync")
    /\ overflow' = FALSE /\ walk' = 1 /\ Becomes(t, Goto(env[t], "walk"))
    /\ UNCHANGED <<listVars, countVars, monitorVars, marked, overflowed, scanned>>

\* An object that has both bits set is scanned, without the second one.
WalkHeap(t) ==
    /\ At(t, "walk") /\ walk <= HeapTop
    /\ walk' = walk + 1
    /\ overflowed' = overflowed \ {walk}
    /\ IF walk \in overflowed
       THEN scanned' = scanned \cup {walk} /\ Becomes(t, Scans(env[t], walk, "walk"))
       ELSE UNCHANGED <<scanned, env>>
    /\ UNCHANGED <<listVars, countVars, monitorVars, marked, overflow>>

\* releaseSynchronizedGCThreads: all threads pop again.
ReleaseThreads(t) ==
    /\ At(t, "walk") /\ walk > HeapTop
    /\ walk' = 0 /\ env' = [u \in Threads |-> Goto(env[u], "pop")]
    /\ UNCHANGED <<listVars, countVars, monitorVars, marked, overflowed, overflow, scanned>>

\* A packet, if there is one; the packets of the work stack.
Just(p) == IF p = NoPacket THEN <<>> ELSE <<p>>
Own(e) == Just(e.output) \o Just(e.input)

\* MM_WorkStack::flush at the end of the task: the input packet is put first.
Flush(t) ==
    LET packets == Own(env[t]) \o env[t].hand IN
    /\ At(t, "flush")
    /\ Becomes(t, IF packets = <<>> THEN Goto(env[t], "done")
                  ELSE [env[t] EXCEPT !.pc = "put", !.call = "flush", !.hand = packets,
                                      !.input = NoPacket, !.output = NoPacket])
    /\ UNCHANGED <<listVars, countVars, monitorVars, markVars>>

-----------------------------------------------------------------------------
MarkStep(t) == MarkSlot(t) \/ ScanEnds(t) \/ FlushOutputPacket(t) \/ Pop(t)
PutStep(t) == PutPacket(t) \/ PutPush(t) \/ PutNotify(t) \/ TryEnter(t) \/ Notifying(t) \/ Notified(t)
InputStep(t) ==
    \/ InputPacketAvailable(t) \/ Choose(t) \/ Take(t) \/ Took(t) \/ Swap(t) \/ Enter(t)
    \/ Entered(t) \/ Finish(t) \/ Wait(t) \/ Reacquire(t) \/ Leave(t)
OutputStep(t) ==
    \/ TakeEmpty(t) \/ Search(t) \/ PutBack(t) \/ Allocate(t) \/ TakeFull(t) \/ PushItem(t)
OverflowStep(t) == ScanDone(t) \/ ReleaseMaster(t) \/ WalkHeap(t) \/ ReleaseThreads(t) \/ Flush(t)

Step(t) == MarkStep(t) \/ PutStep(t) \/ InputStep(t) \/ OutputStep(t) \/ OverflowStep(t)

Next == \E t \in Threads : Step(t)

Spec == Init /\ [][Next]_vars

\* The scheduler runs every GC thread.
FairSpec == Spec /\ \A t \in Threads : WF_vars(Step(t))

-----------------------------------------------------------------------------
(* What makes marking correct. *)

\* Who has packets, and which; every place a packet can be.
Holders == ({"list"} \X Lists) \cup ({"hand", "input", "output"} \X Threads)
Stack(h) ==
    CASE h[1] = "list"   -> list[h[2]]
      [] h[1] = "hand"   -> env[h[2]].hand
      [] h[1] = "input"  -> Just(env[h[2]].input)
      [] h[1] = "output" -> Just(env[h[2]].output)
Places == UNION {{h} \X DOMAIN Stack(h) : h \in Holders}
PacketAt(place) == Stack(place[1])[place[2]]

\* Where object o is between being marked and having been taken for scanning.
Homes(o) ==
    (UNION {{place} \X {k \in DOMAIN PacketAt(place) : PacketAt(place)[k] = o} : place \in Places})
        \cup ({"item"} \X {t \in Threads : env[t].item = o})
        \cup ({"bits"} \X {b \in {"overflowed", "scanned"} :
                             o \in IF b = "overflowed" THEN overflowed ELSE scanned})

\* No marked object is lost or taken twice, through all the hands and lists its
\* packet passes, input and output packets swapped, and overflow: it is in exactly
\* one packet slot or has its overflow bit set, until it is taken for scanning.
WorkConserved == \A o \in Objects : Cardinality(Homes(o)) = IF o \in marked THEN 1 ELSE 0

\* No packet is lost: all that were allocated are in a list or with a thread, and
\* after the task they are all in the list of empty packets, as resetAllPackets
\* asserts.
PacketsConserved ==
    /\ Cardinality(Places) = activePackets
    /\ (\A t \in Threads : At(t, "done")) => Len(list["empty"]) = activePackets

\* What is reachable from the roots of the first r rounds: the objects in every set
\* that has the roots and is closed under references.
Reachable ==
    [r \in 1..Len(Roots) |->
        {o \in Objects : \A S \in SUBSET Objects :
            /\ \A q \in 1..r : ToSet(Roots[q]) \subseteq S
            /\ \A p \in S : ToSet(Refs[p]) \subseteq S
            => o \in S}]

\* completeScan `is a joining scan': when any thread has returned from it, whatever
\* is reachable from the roots that were marked before has been marked and scanned,
\* with no thread still to do a part of it and nothing left to overflow.
Past(t, r) ==
    \/ env[t].round > r
    \/ env[t].round = r /\ (env[t].pc \in {"flush", "done"} \/ env[t].call = "flush")

MarkingComplete == \A t \in Threads, r \in 1..Len(Roots) : Past(t, r) => Reachable[r] \subseteq scanned

\* Who is counted in _inputListWaitCount.
Counted(t) ==
    /\ env[t].doneIndex = inputListDoneIndex
    /\ \/ env[t].pc \in {"finish", "wait", "waiting", "leave"}
       \/ At(t, "check") /\ env[t].call \in {"last", "waiting"}

\* The count of waiting threads, which is reset by one thread while others still
\* have to wake up, counts those and only those that look for work in the current
\* round.
WaitCountExact == inputListWaitCount = Cardinality({t \in Threads : Counted(t)})

\* Packets and what is in them are conserved while they change hands, and so is the
\* number of threads that wait for one.
PacketInv == TypeOK /\ WorkConserved /\ PacketsConserved /\ WaitCountExact

NoWork == (\A place \in Places : PacketAt(place) = <<>>) /\ (\A t \in Threads : env[t].item = 0)

\* Termination is detected only when no packet, in a list or with a thread, has any
\* work, although the lists and the count are read at different times.
TerminationSound == [][inputListDoneIndex' # inputListDoneIndex => NoWork]_vars

\* Marking ends: no thread waits for ever for work, for the monitor, for the others
\* at the overflow barrier, or in a round the others have left.
MarkingEnds == <>(\A t \in Threads : At(t, "done"))
=============================================================================

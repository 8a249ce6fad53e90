---------------------------- MODULE SublistPool ----------------------------
(***************************************************************************)
(* The remembered set: MM_SublistPool (gc/structs) and the scavenger's use *)
(* of it (gc/base/standard/Scavenger.cpp).                                 *)
(*                                                                         *)
(* The pool is a list of puddles, arrays that are filled from the front.   *)
(* A thread reserves a fragment of the allocation puddle by compare-and-   *)
(* exchange, fills it without contention and adds its count to the pool    *)
(* when it flushes it; the unused rest of a fragment stays as NULL slots.  *)
(* A scavenge sets the list aside, scans every slot, flags the objects     *)
(* that need not be remembered any longer, remembers others meanwhile, and *)
(* prunes the flagged slots at its end.  When no puddle can be allocated   *)
(* the set overflows: the flags in the objects are then the only record of *)
(* it, and the next scavenge rebuilds the list from the heap.              *)
(*                                                                         *)
(* A thread stands for a mutator between scavenges and for a slave during  *)
(* one.  The mutators' barrier belongs to the language; it uses the same   *)
(* fragments.  Not concurrent (IS_CONCURRENT_ENABLED is false) and without *)
(* back-out.  What a thread does under _mutex is one step: without it, the *)
(* others can only move the front of the puddle that was _allocPuddle.     *)
(*                                                                         *)
(* Definitions marked `mutant' are seeded faults, used to show that the    *)
(* properties can fail.                                                    *)
(***************************************************************************)
EXTENDS Naturals, FiniteSets, FiniteSetsExt, SequencesExt

CONSTANTS
    Threads, Master,    \* the slaves, and the one that is released alone
    Objects,            \* the tenured objects
    None,
    FragmentSize,       \* OMR_SCV_REMSET_FRAGMENT_SIZE, in slots
    GrowSize,           \* OMR_SCV_REMSET_SIZE, in slots
    MaxPuddles,         \* bound on the puddles that exist at a time
    MaxCycles           \* bound on the collections

ASSUME ConstantsAssumption ==
    /\ IsFiniteSet(Threads) /\ Master \in Threads /\ None \notin Objects
    /\ FragmentSize \in Nat \ {0} /\ GrowSize \in Nat \ {0} /\ MaxPuddles \in Nat /\ MaxCycles \in Nat

VARIABLES
    slots, current,             \* the slots and _listCurrent of each puddle
    live,                       \* the puddles that are allocated
    list, alloc, previous,      \* _list, _allocPuddle, _previousList
    rest, dest,                 \* compact(): the puddles still to come, destinationPuddle
    currentSize, count,         \* _currentSize in slots, _count
    overflow, overflowAtStart,  \* the overflow state; _isRememberedSetInOverflowAtTheBeginning
    remembered,                 \* the objects whose remembered flag is set
    young,                      \* those that refer to the nursery when the scavenge ends
    splits,                     \* parts of arrays to scan, each with its _arraySplitRememberedSlot
    units,                      \* the puddles that no thread has begun to prune
    walk,                       \* the objects that the heap walk has not come to
    cycles,
    pc, back, object, seen,     \* per thread: where it is, where it adds from, what, _allocPuddle as read
    fragment, held, iterator    \* per thread: its fragment, its puddle, the slot iterator on it

compactVars == <<rest, dest>>
poolVars == <<live, list, alloc, previous, currentSize, compactVars>>
puddleVars == <<slots, current>>
cycleVars == <<overflowAtStart, units, walk, cycles>>
objectVars == <<remembered, young>>
addVars == <<back, object, seen>>
scanVars == <<held, iterator>>
vars == <<poolVars, puddleVars, count, overflow, cycleVars, objectVars, splits, pc, addVars, fragment, scanVars>>

Puddles == 1..MaxPuddles
Places == 1..GrowSize
Empty == <<>>                   \* NULL
Entry(o) == <<o, FALSE>>
Flagged(o) == <<o, TRUE>>       \* DEFERRED_RS_REMOVE_FLAG
Entries == {Empty} \cup (Objects \X BOOLEAN)

\* The slots from next to below top are the thread's to fill.
NoFragment == [puddle |-> 0, next |-> 0, top |-> 0, count |-> 0]
NoIterator == [scan |-> 0, removed |-> 0]
NewPuddle == [i \in Places |-> Empty]

TypeOK ==
    /\ slots \in [Puddles -> [Places -> Entries]] /\ current \in [Puddles -> 0..GrowSize]
    /\ live \subseteq Puddles /\ list \in Seq(live) /\ previous \in Seq(live)
    /\ rest \in Seq(live) /\ dest \in live \cup {0} /\ alloc \in Puddles \cup {0}
    /\ currentSize \in Nat /\ count \in Nat
    /\ overflow \in BOOLEAN /\ overflowAtStart \in BOOLEAN
    /\ remembered \subseteq Objects /\ young \subseteq Objects /\ walk \subseteq Objects
    /\ splits \subseteq live \X Places \X Objects /\ units \in Seq(live) /\ cycles \in 0..MaxCycles
    /\ pc \in [Threads -> {"run", "add", "bump", "lock", "begin", "overflowed", "pop", "slots", "verdict", "scan",
                           "prune", "pruneSlots", "pruneOverflow", "rebuild", "done", "compact"}]
    /\ back \in [Threads -> {"run", "scan", "rebuild"}]
    /\ object \in [Threads -> Objects \cup {None}] /\ seen \in [Threads -> Puddles \cup {0}]
    /\ fragment \in [Threads -> [puddle : Puddles \cup {0}, next : 0..GrowSize + 1,
                                 top : 0..GrowSize + 1, count : 0..FragmentSize]]
    /\ held \in [Threads -> live \cup {0}]
    /\ iterator \in [Threads -> [scan : 0..GrowSize + 1, removed : Nat]]

Init ==
    /\ slots = [p \in Puddles |-> NewPuddle] /\ current = [p \in Puddles |-> 0]
    /\ live = {} /\ list = <<>> /\ alloc = 0 /\ previous = <<>> /\ rest = <<>> /\ dest = 0 /\ currentSize = 0
    /\ count = 0 /\ overflow = FALSE /\ overflowAtStart = FALSE
    /\ remembered = {} /\ young = {} /\ splits = {} /\ units = <<>> /\ walk = {} /\ cycles = 0
    /\ pc = [t \in Threads |-> "run"] /\ back = [t \in Threads |-> "run"]
    /\ object = [t \in Threads |-> None] /\ seen = [t \in Threads |-> 0]
    /\ fragment = [t \in Threads |-> NoFragment]
    /\ held = [t \in Threads |-> 0] /\ iterator = [t \in Threads |-> NoIterator]

All(place) == \A t \in Threads : pc[t] = place
Goto(t, place) == pc' = [pc EXCEPT ![t] = place]
AllGoto(place) == pc' = [t \in Threads |-> place]

-----------------------------------------------------------------------------
(* Adding an object. *)

\* rememberObject: the flag is set atomically, by one thread.  In a scavenge the object is
\* one that was found to refer to the nursery.
RememberObject(t, o) ==
    /\ pc[t] \in {"run", "scan"} /\ o \notin remembered
    /\ remembered' = remembered \cup {o}
    /\ young' = IF pc[t] = "scan" THEN young \cup {o} ELSE young
    /\ object' = [object EXCEPT ![t] = o] /\ back' = [back EXCEPT ![t] = pc[t]]
    /\ Goto(t, "add")
    /\ UNCHANGED <<poolVars, puddleVars, count, overflow, cycleVars, splits, seen, fragment, scanVars>>

AddingEnds(t) ==
    /\ Goto(t, back[t])
    /\ back' = [back EXCEPT ![t] = "run"] /\ object' = [object EXCEPT ![t] = None]

HasRoom(t) == fragment[t].next < fragment[t].top

\* addToRememberedSetFragment, with room in the fragment.
AddEntry(t) ==
    /\ pc[t] = "add" /\ HasRoom(t)
    /\ slots' = [slots EXCEPT ![fragment[t].puddle][fragment[t].next] = Entry(object[t])]
    /\ fragment' = [fragment EXCEPT ![t].next = @ + 1, ![t].count = @ + 1]
    /\ AddingEnds(t)
    /\ UNCHANGED <<poolVars, current, count, overflow, cycleVars, objectVars, splits, seen, scanVars>>

\* MM_SublistFragment::flush: the pool's count is increased and the fragment is given up.
Flushed(ts) == [t \in Threads |-> IF t \in ts THEN NoFragment ELSE fragment[t]]
Uncounted(ts) == Cardinality(UNION {{t} \X (1..fragment[t].count) : t \in ts})

\* Without room, allocateMemoryForSublistFragment flushes and MM_SublistPool::allocate
\* reads _allocPuddle without the mutex.
AskForFragment(t) ==
    /\ pc[t] = "add" /\ ~HasRoom(t)
    /\ count' = count + Uncounted({t}) /\ fragment' = Flushed({t})
    /\ seen' = [seen EXCEPT ![t] = alloc]
    /\ Goto(t, "bump")
    /\ UNCHANGED <<poolVars, puddleVars, overflow, cycleVars, objectVars, splits, back, object, scanVars>>

\* MM_SublistPuddle::allocate: the exchange that succeeds.
PuddleTop(p) == Min({GrowSize, current[p] + FragmentSize})
Reserved(p) == [puddle |-> p, next |-> current[p] + 1, top |-> PuddleTop(p) + 1, count |-> 0]
Reserve(t, p) ==
    /\ current' = [current EXCEPT ![p] = PuddleTop(p)]
    /\ fragment' = [fragment EXCEPT ![t] = Reserved(p)]
IsFull(p) == current[p] = GrowSize
CanAllocate(p) == p # 0 /\ ~IsFull(p)

AllocateUnlocked(t) ==
    /\ pc[t] = "bump" /\ CanAllocate(seen[t])
    /\ Reserve(t, seen[t]) /\ seen' = [seen EXCEPT ![t] = 0]
    /\ Goto(t, "add")
    /\ UNCHANGED <<poolVars, slots, count, overflow, cycleVars, objectVars, splits, back, object, scanVars>>

NoRoomUnlocked(t) ==
    /\ pc[t] = "bump" /\ ~CanAllocate(seen[t])
    /\ Goto(t, "lock") /\ seen' = [seen EXCEPT ![t] = 0]
    /\ UNCHANGED <<poolVars, puddleVars, count, overflow, cycleVars, objectVars, splits, back, object, fragment,
                   scanVars>>

\* With the mutex: another thread may have found or added a puddle meanwhile.
Retry(t) == CanAllocate(alloc)

AllocateLocked(t) ==
    /\ pc[t] = "lock" /\ Retry(t)
    /\ Reserve(t, alloc)
    /\ Goto(t, "add")
    /\ UNCHANGED <<poolVars, slots, count, overflow, cycleVars, objectVars, splits, addVars, scanVars>>

\* A new puddle: its first fragment is the thread's before the others can see it.
\* (Puddles after _allocPuddle, which the code looks for first, do not occur: PoolShape.)
AddPuddle(t) ==
    /\ pc[t] = "lock" /\ ~Retry(t) /\ live # Puddles
    /\ LET p == CHOOSE q \in Puddles : q \notin live
       IN  /\ live' = live \cup {p} /\ currentSize' = currentSize + GrowSize
           /\ Reserve(t, p)
           /\ list' = Append(list, p) /\ alloc' = p
    /\ Goto(t, "add")
    /\ UNCHANGED <<previous, compactVars, slots, count, overflow, cycleVars, objectVars, splits, addVars, scanVars>>

\* The memory for a puddle may be refused: the set overflows and the object is not added.
Overflow(t) ==
    /\ pc[t] = "lock" /\ ~Retry(t)
    /\ overflow' = TRUE
    /\ AddingEnds(t)
    /\ UNCHANGED <<poolVars, puddleVars, count, cycleVars, objectVars, splits, seen, fragment, scanVars>>

-----------------------------------------------------------------------------
(* A scavenge: the slots are scanned. *)

\* clear(), and what becomes of a puddle's memory.
Freed(ps) == /\ slots' = [p \in Puddles |-> IF p \in ps THEN NewPuddle ELSE slots[p]]
             /\ current' = [p \in Puddles |-> IF p \in ps THEN 0 ELSE current[p]]
Clear == LET ps == Range(list) \cup Range(previous)
         IN  /\ Freed(ps) /\ live' = live \ ps
             /\ list' = <<>> /\ alloc' = 0 /\ previous' = <<>> /\ currentSize' = 0 /\ count' = 0

\* The mutators have stopped and their fragments are flushed (flushNonAllocationCaches of
\* EnvironmentStandard.cpp, by flushCachesForGC); masterSetupForGC and workerSetupForGC.
\* Which objects will still refer to the nursery is the program's doing.
StartScavenge ==
    /\ All("run") /\ cycles < MaxCycles
    /\ cycles' = cycles + 1
    /\ count' = count + Uncounted(Threads) /\ fragment' = Flushed(Threads)
    /\ overflowAtStart' = overflow
    /\ previous' = list /\ list' = <<>> /\ alloc' = 0       \* startProcessingSublist
    /\ young' \in SUBSET remembered
    /\ AllGoto("begin")
    /\ UNCHANGED <<live, currentSize, compactVars, puddleVars, overflow, units, walk, remembered, splits, addVars,
                   scanVars>>

\* scavengeRememberedSet: a thread that comes late must do as those that have already
\* added objects, and perhaps overflowed the set.
InOverflowNow == overflow       \* mutant
InOverflow == overflowAtStart
ScavengeRememberedSet(t) ==
    /\ pc[t] = "begin"
    /\ Goto(t, IF InOverflow THEN "overflowed" ELSE "pop")
    /\ UNCHANGED <<poolVars, puddleVars, count, overflow, cycleVars, objectVars, splits, addVars, fragment, scanVars>>

\* scavengeRememberedSetOverflow: the master alone drops the lists; the objects are found
\* in the heap and scanned, and their flags stay.
ScavengeOverflow ==
    /\ All("overflowed")
    /\ Clear
    /\ AllGoto("scan")
    /\ UNCHANGED <<compactVars, overflow, cycleVars, objectVars, splits, addVars, fragment, scanVars>>

\* popPreviousPuddle(held[t]): the puddle is returned to the front of the list, and becomes
\* _allocPuddle when there is none.
Returned(p) == IF p = 0 THEN list ELSE <<p>> \o list
AllocAfterReturn(p) == IF alloc = 0 THEN p ELSE alloc
PopPreviousPuddle(t) ==
    /\ pc[t] = "pop"
    /\ list' = Returned(held[t]) /\ alloc' = AllocAfterReturn(held[t])
    /\ IF previous = <<>>
       THEN /\ held' = [held EXCEPT ![t] = 0] /\ Goto(t, "scan")
            /\ UNCHANGED <<previous, iterator>>
       ELSE /\ held' = [held EXCEPT ![t] = Head(previous)] /\ previous' = Tail(previous)
            /\ iterator' = [iterator EXCEPT ![t] = [NoIterator EXCEPT !.scan = 1]]
            /\ Goto(t, "slots")
    /\ UNCHANGED <<live, currentSize, compactVars, puddleVars, count, overflow, cycleVars, objectVars, splits,
                   addVars, fragment>>

\* The slot iterator: the slot that nextSlot returns, and what removeSlot does to it (the
\* last slot takes its place and is the next to be returned).
AtEnd(t) == iterator[t].scan > current[held[t]]
Slot(t) == slots[held[t]][iterator[t].scan]
Uncounts(t) == IF Slot(t) = Empty THEN 0 ELSE 1
BackUp(t) == iterator[t].scan
RemoveSlot(t) ==
    LET p == held[t]
    IN  /\ slots' = [slots EXCEPT ![p][iterator[t].scan] = slots[p][current[p]], ![p][current[p]] = Empty]
        /\ current' = [current EXCEPT ![p] = @ - 1]
        /\ iterator' = [iterator EXCEPT ![t].removed = @ + Uncounts(t), ![t].scan = BackUp(t)]

\* nextSlot at the end of the puddle: decrementCount.
EndOfPuddle(t) ==
    /\ count' = count - iterator[t].removed
    /\ iterator' = [iterator EXCEPT ![t] = NoIterator]

\* scavengeRememberedSetList.  The slot is flagged before the object is scanned; of an array
\* only a first part may be, and the rest is left to any thread, with the slot.
ScavengeSlot(t) ==
    /\ pc[t] = "slots" /\ ~AtEnd(t)
    /\ IF Slot(t) = Empty
       THEN RemoveSlot(t) /\ UNCHANGED <<pc, splits>>
       ELSE /\ LET o == Slot(t)[1]
               IN  /\ slots' = [slots EXCEPT ![held[t]][iterator[t].scan] = Flagged(o)]
                   /\ splits' \in {splits, splits \cup {<<held[t], iterator[t].scan, o>>}}
            /\ Goto(t, "verdict")
            /\ UNCHANGED <<current, iterator>>
    /\ UNCHANGED <<poolVars, count, overflow, cycleVars, objectVars, addVars, fragment, held>>

\* The thread's scan found a nursery reference, or it did not: then there is none, or it is
\* in the rest of an array, whose scan may be over by now.
FlagAfterScan(t) == Flagged(Slot(t)[1])     \* mutant
NotFound(t) == Slot(t)
Verdict(t) ==
    /\ pc[t] = "verdict"
    /\ LET o == Slot(t)[1]
       IN  \/ /\ o \in young
              /\ slots' = [slots EXCEPT ![held[t]][iterator[t].scan] = Entry(o)]
           \/ /\ o \in young => Slot(t) = Entry(o) \/ \E s \in splits : s[3] = o
              /\ slots' = [slots EXCEPT ![held[t]][iterator[t].scan] = NotFound(t)]
    /\ iterator' = [iterator EXCEPT ![t].scan = @ + 1]
    /\ Goto(t, "slots")
    /\ UNCHANGED <<poolVars, current, count, overflow, cycleVars, objectVars, splits, addVars, fragment, held>>

ScavengedPuddle(t) ==
    /\ pc[t] = "slots" /\ AtEnd(t)
    /\ EndOfPuddle(t)
    /\ Goto(t, "pop")
    /\ UNCHANGED <<poolVars, puddleVars, overflow, cycleVars, objectVars, splits, addVars, fragment, held>>

-----------------------------------------------------------------------------
(* completeScan: what has been copied is scanned, arrays' rests among it, and objects are  *)
(* remembered (RememberObject), until all threads wait for more work.                      *)

\* The rest of an array is scanned; if it refers to the nursery its slot is unflagged.  The
\* rest may be split again; all its parts do the same to the slot and are taken as one.
ScanSplit(t, s) ==
    /\ pc[t] = "scan" /\ s \in splits
    /\ splits' = splits \ {s}
    /\ slots' = IF s[3] \in young THEN [slots EXCEPT ![s[1]][s[2]] = Entry(s[3])] ELSE slots
    /\ UNCHANGED <<poolVars, current, count, overflow, cycleVars, objectVars, pc, addVars, fragment, scanVars>>

\* flushBuffersForGetNextScanCache, by a thread that is about to wait.
FlushToWait(t) ==
    /\ pc[t] = "scan" /\ fragment[t].count # 0
    /\ count' = count + Uncounted({t}) /\ fragment' = Flushed({t})
    /\ UNCHANGED <<poolVars, puddleVars, overflow, cycleVars, objectVars, splits, pc, addVars, scanVars>>

AllFlushed == \A t \in Threads : fragment[t].count = 0   \* mutant: does not look for scan caches
\* The scan is declared done.  That the threads come to agree on this, and only when nothing
\* is left, is the subject of ScanCaches (DoneMeansDone, ScansEnd) and taken as given here.
NoWorkLeft == splits = {} /\ \A t \in Threads : fragment[t].count = 0
ScanComplete ==
    /\ All("scan") /\ NoWorkLeft
    /\ AllGoto("prune") /\ units' = IF overflow THEN <<>> ELSE list
    /\ UNCHANGED <<poolVars, puddleVars, count, overflow, overflowAtStart, walk, cycles, objectVars, splits,
                   addVars, fragment, scanVars>>

-----------------------------------------------------------------------------
(* pruneRememberedSet. *)

\* pruneRememberedSetList: each puddle of the list is a work unit.
PrunePuddle(t) ==
    /\ pc[t] = "prune" /\ ~overflow /\ units # <<>>
    /\ held' = [held EXCEPT ![t] = Head(units)] /\ units' = Tail(units)
    /\ iterator' = [iterator EXCEPT ![t] = [NoIterator EXCEPT !.scan = 1]]
    /\ Goto(t, "pruneSlots")
    /\ UNCHANGED <<poolVars, puddleVars, count, overflow, overflowAtStart, walk, cycles, objectVars, splits,
                   addVars, fragment>>

PruneSlot(t) ==
    /\ pc[t] = "pruneSlots" /\ ~AtEnd(t)
    /\ IF Slot(t) # Empty /\ ~Slot(t)[2]
       THEN /\ iterator' = [iterator EXCEPT ![t].scan = @ + 1]
            /\ UNCHANGED <<puddleVars, remembered>>
       ELSE /\ RemoveSlot(t)
            /\ remembered' = IF Slot(t) = Empty THEN remembered ELSE remembered \ {Slot(t)[1]}
    /\ UNCHANGED <<poolVars, count, overflow, cycleVars, young, splits, pc, addVars, fragment, held>>

PrunedPuddle(t) ==
    /\ pc[t] = "pruneSlots" /\ AtEnd(t)
    /\ EndOfPuddle(t)
    /\ held' = [held EXCEPT ![t] = 0]
    /\ Goto(t, "prune")
    /\ UNCHANGED <<poolVars, puddleVars, overflow, cycleVars, objectVars, splits, addVars, fragment>>

PruneDone(t) ==
    /\ pc[t] = "prune" /\ ~overflow /\ units = <<>>
    /\ Goto(t, "done")
    /\ UNCHANGED <<poolVars, puddleVars, count, overflow, cycleVars, objectVars, splits, addVars, fragment, scanVars>>

\* pruneRememberedSetOverflow: the threads reset their fragments and wait; the master drops
\* the lists and walks the heap, adding the objects that are still to be remembered.
PruneOverflow(t) ==
    /\ pc[t] = "prune" /\ overflow
    /\ fragment' = [fragment EXCEPT ![t] = [NoFragment EXCEPT !.count = fragment[t].count]]
    /\ Goto(t, "pruneOverflow")
    /\ UNCHANGED <<poolVars, puddleVars, count, overflow, cycleVars, objectVars, splits, addVars, scanVars>>

Rebuild ==
    /\ All("pruneOverflow")
    /\ overflow' = FALSE
    /\ Clear
    /\ walk' = remembered
    /\ Goto(Master, "rebuild")
    /\ UNCHANGED <<compactVars, overflowAtStart, units, cycles, objectVars, splits, addVars, fragment, scanVars>>

RebuildObject(o) ==
    /\ pc[Master] = "rebuild" /\ o \in walk
    /\ walk' = walk \ {o}
    /\ IF o \in young
       THEN /\ object' = [object EXCEPT ![Master] = o] /\ back' = [back EXCEPT ![Master] = "rebuild"]
            /\ Goto(Master, "add")
            /\ UNCHANGED remembered
       ELSE /\ remembered' = remembered \ {o}
            /\ UNCHANGED <<pc, object, back>>
    /\ UNCHANGED <<poolVars, puddleVars, count, overflow, overflowAtStart, units, cycles, young, splits, seen,
                   fragment, scanVars>>

RebuildDone ==
    /\ pc[Master] = "rebuild" /\ walk = {}
    /\ count' = count + Uncounted({Master}) /\ fragment' = Flushed({Master})
    /\ AllGoto("done")
    /\ UNCHANGED <<poolVars, puddleVars, overflow, cycleVars, objectVars, splits, addVars, scanVars>>

EndScavenge ==
    /\ All("done")
    /\ AllGoto("run") /\ young' = {}
    /\ UNCHANGED <<poolVars, puddleVars, count, overflow, cycleVars, remembered, splits, addVars, fragment, scanVars>>

-----------------------------------------------------------------------------
(* compact(), at the end of a global collection and of a successful scavenge. *)

\* The list is taken, to be built again.
StartCompact ==
    /\ All("run") /\ cycles < MaxCycles
    /\ cycles' = cycles + 1
    /\ count' = count + Uncounted(Threads) /\ fragment' = Flushed(Threads)
    /\ rest' = list /\ list' = <<>>
    /\ AllGoto("compact")
    /\ UNCHANGED <<live, alloc, previous, currentSize, dest, puddleVars, overflow, overflowAtStart, units, walk,
                   objectVars, splits, addVars, scanVars>>

\* MM_SublistPuddle::merge: the tail of the source, as much of it as there is room for.
HeadOf(consumed, n) == 0        \* mutant
TailOf(consumed, n) == consumed - n
Moved(to, from) == Min({GrowSize - current[to], current[from]})
Merge(to, from) ==
    LET n == Moved(to, from)
        offset == TailOf(current[from], n)
    IN  /\ slots' = [slots EXCEPT ![to] = [i \in Places |-> IF i \in current[to] + 1 .. current[to] + n
                                                            THEN slots[from][offset + (i - current[to])]
                                                            ELSE @[i]],
                                  ![from] = [i \in Places |-> IF i > current[from] - n THEN Empty ELSE @[i]]]
        /\ current' = [current EXCEPT ![to] = @ + n, ![from] = @ - n]

\* A destination that is full is linked, a source that is empty is freed; the other one, if
\* there is one, is merged into next.
MergeInto(to, from) ==
    LET full == current[to] + Moved(to, from) = GrowSize
        emptied == Moved(to, from) = current[from]
    IN  /\ Merge(to, from)
        /\ list' = IF full THEN <<to>> \o list ELSE list
        /\ dest' = IF ~full THEN to ELSE IF emptied THEN 0 ELSE from
        /\ live' = IF full /\ ~emptied THEN live ELSE live \ {from}
        /\ currentSize' = IF full /\ ~emptied THEN currentSize ELSE currentSize - GrowSize

\* One puddle after the other: an empty one is freed (its slots are NULL), a full one linked.
CompactPuddle ==
    LET p == Head(rest)
        partial == current[p] \in 1 .. GrowSize - 1
    IN
    /\ All("compact") /\ rest # <<>> /\ rest' = Tail(rest)
    /\ \/ current[p] = 0 /\ live' = live \ {p} /\ UNCHANGED <<list, dest, currentSize, puddleVars>>
       \/ IsFull(p) /\ list' = <<p>> \o list /\ UNCHANGED <<live, dest, currentSize, puddleVars>>
       \/ partial /\ dest = 0 /\ dest' = p /\ UNCHANGED <<live, list, currentSize, puddleVars>>
       \/ partial /\ dest # 0 /\ current[dest] >= current[p] /\ MergeInto(dest, p)
       \/ partial /\ dest # 0 /\ current[dest] < current[p] /\ MergeInto(p, dest)
    /\ UNCHANGED <<alloc, previous, count, overflow, cycleVars, objectVars, splits, pc, addVars, fragment, scanVars>>

\* What is left to merge into is the last of the list, and is allocated from.
CompactDone ==
    LET whole == IF dest = 0 THEN list ELSE Append(list, dest) IN
    /\ All("compact") /\ rest = <<>>
    /\ list' = whole /\ alloc' = (IF whole = <<>> THEN 0 ELSE Last(whole)) /\ dest' = 0
    /\ AllGoto("run")
    /\ UNCHANGED <<live, previous, rest, currentSize, puddleVars, count, overflow, cycleVars, objectVars, splits,
                   addVars, fragment, scanVars>>

-----------------------------------------------------------------------------
Adding(t) ==
    \/ AddEntry(t) \/ AskForFragment(t) \/ AllocateUnlocked(t) \/ NoRoomUnlocked(t)
    \/ AllocateLocked(t) \/ AddPuddle(t) \/ Overflow(t)

Collecting(t) ==
    \/ ScavengeRememberedSet(t) \/ PopPreviousPuddle(t) \/ ScavengeSlot(t) \/ Verdict(t) \/ ScavengedPuddle(t)
    \/ (\E s \in splits : ScanSplit(t, s)) \/ FlushToWait(t)
    \/ PrunePuddle(t) \/ PruneSlot(t) \/ PrunedPuddle(t) \/ PruneDone(t) \/ PruneOverflow(t)

Together ==
    \/ ScavengeOverflow \/ ScanComplete \/ Rebuild \/ (\E o \in Objects : RebuildObject(o))
    \/ RebuildDone \/ EndScavenge \/ CompactPuddle \/ CompactDone

Next ==
    \/ \E t \in Threads : Adding(t) \/ Collecting(t) \/ \E o \in Objects : RememberObject(t, o)
    \/ Together \/ StartScavenge \/ StartCompact

Spec == Init /\ [][Next]_vars

\* Every thread runs; the program need not remember, nor collect.
FairSpec == Spec /\ WF_vars(Together) /\ \A t \in Threads : WF_vars(Adding(t) \/ Collecting(t))

-----------------------------------------------------------------------------
(* Properties. *)

\* The slots that hold an object, flagged or not.
Filled == {x \in live \X Places : slots[x[1]][x[2]] # Empty}
Holding(o) == {x \in Filled : slots[x[1]][x[2]][1] = o}
OnItsWay(o) == o \in walk \/ \E t \in Threads : object[t] = o

\* As long as the set has not overflowed, an object has its remembered flag if and only if
\* exactly one slot of the pool holds it, but for one that is being added: no slot is lost
\* or duplicated by fragments that race for puddles, by removeSlot's moves, by pruning, by
\* rebuilding or by compact() (SublistPool.cpp, SublistSlotIterator.cpp, Scavenger.cpp).
RememberedConserved ==
    ~overflow => \A o \in Objects : Cardinality(Holding(o)) = IF o \in remembered /\ ~OnItsWay(o) THEN 1 ELSE 0

\* countElements() is the number of entries once what the threads have added and removed but
\* not yet reported is taken into account; in particular it is exact when all fragments are
\* flushed, as its comment requires (SublistPool.cpp, SublistSlotIterator.cpp).
Unreported == UNION {{t} \X (1..iterator[t].removed) : t \in Threads}
CountExact == count + Uncounted(Threads) = Cardinality(Filled) + Cardinality(Unreported)

\* The puddles that exist are the list, the previous list, what scanning threads hold and what
\* compact() has in hand, each once; _allocPuddle is the last of the list, as
\* MM_SublistPool::allocate asserts, but while compact() builds the list again; only
\* what fragments reserved is not NULL, and no two fragments overlap; a pool whose size is 0,
\* which ConcurrentGC takes for an empty remembered set, has no puddle.
Holders == {t \in Threads : pc[t] \in {"pop", "slots", "verdict"} /\ held[t] # 0}
Within(t) == {fragment[t].puddle} \X (fragment[t].next .. fragment[t].top - 1)
PoolShape ==
    /\ live = Range(list) \cup Range(previous) \cup Range(rest) \cup {held[t] : t \in Holders} \cup ({dest} \ {0})
    /\ Cardinality(live) = Len(list) + Len(previous) + Len(rest) + Cardinality(Holders) + IF dest = 0 THEN 0 ELSE 1
    /\ ~All("compact") => alloc = IF list = <<>> THEN 0 ELSE Last(list)
    /\ \A p \in live, i \in Places : i > current[p] => slots[p][i] = Empty
    /\ \A t \in Threads : HasRoom(t) => /\ fragment[t].puddle \in live
                                        /\ fragment[t].top - 1 <= current[fragment[t].puddle]
                                        /\ Within(t) \cap Filled = {}
    /\ \A t, u \in Threads : t # u /\ HasRoom(t) /\ HasRoom(u) => Within(t) \cap Within(u) = {}
    /\ currentSize = 0 => live = {}

\* A slot that was left with a part of an array is still the array's when that part is
\* scanned (the assertion on _arraySplitRememberedSlot), whatever was removed meanwhile.
SplitSlotsStay == \A s \in splits : slots[s[1]][s[2]] \in {Entry(s[3]), Flagged(s[3])}

\* The pool is well-formed, its count is exact, and the slots it was asked to keep in
\* their places are there.
PoolInv == TypeOK /\ PoolShape /\ CountExact /\ SplitSlotsStay

\* An object that refers to the nursery stays remembered through the scavenge, and one that
\* does not is forgotten by its end (scavengeRememberedSetList with pruneRememberedSet).
PruneExact ==
    /\ young \subseteq remembered
    /\ All("done") => remembered = young

\* Every scavenge ends, and so does every compaction, given that completeScan does
\* (ScansEnd of ScanCaches): the threads take the same path through the overflow and list
\* versions of scavenging and pruning the set, and none runs into a barrier of the other.
ScavengeEnds == (\E t \in Threads : pc[t] \notin {"run", "add", "bump", "lock"}) ~> All("run")
=============================================================================

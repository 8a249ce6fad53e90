-------------------------- MODULE ForwardedHeader --------------------------
(***************************************************************************)
(* Scavenger threads that come to the same object in evacuate space, each  *)
(* with a slot to update: MM_Scavenger::copyAndForward and copy            *)
(* (gc/base/standard/Scavenger.cpp) with MM_ForwardedHeader                *)
(* (gc/structs/ForwardedHeader.cpp).                                       *)
(*                                                                         *)
(* With the concurrent scavenger a small object is copied by everybody and *)
(* one copy wins; a large one has one copy, which its winner and the       *)
(* threads that lost make together, a section at a time, before anyone may *)
(* see it.  Without, the winner copies and nobody waits for it.            *)
(*                                                                         *)
(* A compare-and-exchange that succeeds found the word as it was read, so  *)
(* that the loops which read, decide and exchange are single steps here: a *)
(* failed round changes nothing.  A thread names the space it reserved.    *)
(*                                                                         *)
(* Definitions marked `mutant' are seeded faults, used to show that the    *)
(* properties can fail.                                                    *)
(***************************************************************************)
EXTENDS Naturals, FiniteSets, FiniteSetsExt

CONSTANTS
    Threads, Original, NoPlace,
    Sizes,              \* of the object, without what precedes the forwarding slot
    DuplicateLimit,     \* up to this size copies may be duplicated
    Alignment,          \* _copySizeAlignement + 1
    MinIncrement,       \* _minIncrement
    MaxOutstanding      \* MAX_OUTSTANDING_COPIES

ASSUME ThreadsAssumption ==
    IsFiniteSet(Threads) /\ Original \notin Threads /\ NoPlace \notin Threads \cup {Original}
ASSUME SizesAssumption == Sizes \subseteq Nat \ {0} /\ DuplicateLimit \in Nat
\* The count of copies fits below the aligned sizes, and _minIncrement is aligned.
ASSUME WordAssumption ==
    /\ Alignment \in Nat \ {0} /\ MaxOutstanding \in 0..(Alignment - 1)
    /\ MinIncrement \in Nat \ {0} /\ MinIncrement % Alignment = 0

VARIABLES
    size, concurrent,   \* the object, and whether the scavenger is concurrent (fixed)
    header,             \* the forwarding slot of the object
    backOut,            \* isBackOutFlagRaised()
    word,               \* the same slot in the space each thread has reserved
    copied,             \* the bytes that have been copied to that space
    pc, preserved, section, participating,      \* the locals of each thread
    slot                \* the slot each thread has to update

objectVars == <<size, concurrent>>
spaceVars == <<word, copied>>
localVars == <<pc, preserved, section, participating, slot>>
vars == <<objectVars, header, backOut, spaceVars, localVars>>

Plain == [tag |-> "plain", to |-> NoPlace, hint |-> FALSE]
SelfForwarded == [tag |-> "self", to |-> Original, hint |-> FALSE]
ForwardedTo(d, hint) == [tag |-> "forwarded", to |-> d, hint |-> hint]
Headers == {Plain, SelfForwarded} \cup {ForwardedTo(d, hint) : d \in Threads, hint \in BOOLEAN}

Bytes == 0..(size - 1)
NoBytes == [from |-> 0, length |-> 0]

\* The word in the destination: with its tag set, what remains to be copied and the
\* number of helping threads in one number; without, the header is restored.
Progress(remaining, outstanding) == [beingCopied |-> TRUE, value |-> remaining + outstanding]
Restored == [beingCopied |-> FALSE, value |-> 0]
Remaining(w) == (w.value \div Alignment) * Alignment
Outstanding(w) == w.value % Alignment

Duplicates == concurrent /\ size <= DuplicateLimit
Sections == concurrent /\ size > DuplicateLimit

ObjectType == size \in Sizes /\ concurrent \in BOOLEAN /\ header \in Headers /\ backOut \in BOOLEAN
SpaceType ==
    /\ word \in [Threads -> [beingCopied : BOOLEAN, value : Nat]]
    /\ copied \in [Threads -> SUBSET Bytes]
SectionType ==
    /\ section \in [Threads -> [from : Nat, length : Nat]]
    /\ \A t \in Threads : section[t].from + section[t].length <= size
LocalType ==
    /\ pc \in [Threads -> {"start", "check", "reserve", "memcpy", "forward", "fail", "first", "win", "copy",
                            "commence", "commit", "unhint", "help", "assist", "done"}]
    /\ preserved \in [Threads -> Headers]
    /\ participating \in [Threads -> BOOLEAN]
    /\ slot \in [Threads -> Threads \cup {Original, NoPlace}]
TypeOK == ObjectType /\ SpaceType /\ SectionType /\ LocalType

Init ==
    /\ size \in Sizes /\ concurrent \in BOOLEAN
    /\ header = Plain /\ backOut = FALSE
    /\ word = [t \in Threads |-> Restored] /\ copied = [t \in Threads |-> {}]
    /\ pc = [t \in Threads |-> "start"] /\ preserved = [t \in Threads |-> Plain]
    /\ section = [t \in Threads |-> NoBytes] /\ participating = [t \in Threads |-> FALSE]
    /\ slot = [t \in Threads |-> NoPlace]

-----------------------------------------------------------------------------
Goto(t, place) == pc' = [pc EXCEPT ![t] = place]

\* copyAndForward updates the slot and returns.
Finish(t, place) == slot' = [slot EXCEPT ![t] = place] /\ Goto(t, "done")

\* copyOrWait: without the hint in forwarding header h the copy is complete.
IgnoreHint(h) == FALSE                                              \* mutant
IsBeingCopied(h) == h.hint

CopyOrWait(t, h) ==
    \/ IsBeingCopied(h) /\ Goto(t, "help") /\ UNCHANGED slot
    \/ ~IsBeingCopied(h) /\ Finish(t, h.to)

\* The header is read; getForwardedObject() is NULL for a self-forwarded object too.
Start(t) ==
    /\ pc[t] = "start"
    /\ preserved' = [preserved EXCEPT ![t] = header]
    /\ \/ header.tag = "forwarded" /\ CopyOrWait(t, header)
       \/ header.tag # "forwarded" /\ Goto(t, "check") /\ UNCHANGED slot
    /\ UNCHANGED <<objectVars, header, backOut, spaceVars, section, participating>>

\* copy() does nothing after a back-out; the flag is read once.
Hurry == FALSE                                                      \* mutant
BackOutSeen == backOut

Check(t) ==
    /\ pc[t] = "check" /\ Goto(t, IF BackOutSeen THEN "fail" ELSE "reserve")
    /\ UNCHANGED <<objectVars, header, backOut, spaceVars, preserved, section, participating, slot>>

-----------------------------------------------------------------------------
(* The space, and the forwarding pointer. *)

\* SIZE_OF_SECTION_TO_COPY, the minimum increment, and no more than what remains.
SectionOf(remaining, wanted) == Min({remaining, Max({wanted, MinIncrement})})

\* copySetup copies the bytes that do not fill an aligned section first.
LeaveResidue(remaining) == SectionOf(remaining, remaining \div 128)     \* mutant
FirstSection(remaining) ==
    LET wanted == SectionOf(remaining, remaining \div 128) IN wanted + ((remaining - wanted) % Alignment)

CopySetup(t) ==
    LET length == FirstSection(size) IN
    /\ section' = [section EXCEPT ![t] = [from |-> size - length, length |-> length]]
    /\ word' = [word EXCEPT ![t] = Progress(size - length, 0)]

\* Space is reserved, in one of the spaces, or none is left and the flag is raised.
Reserve(t) ==
    /\ pc[t] = "reserve"
    /\ \/ /\ IF Sections THEN CopySetup(t) ELSE UNCHANGED <<section, word>>
          /\ Goto(t, IF Duplicates THEN "memcpy" ELSE "forward") /\ UNCHANGED backOut
       \/ backOut' = TRUE /\ Goto(t, "fail") /\ UNCHANGED <<section, word>>
    /\ UNCHANGED <<objectVars, header, copied, preserved, participating, slot>>

\* The object is copied at once, before it is forwarded or, in a stop-the-world
\* scavenge, after.
Memcpy(t) ==
    /\ pc[t] = "memcpy"
    /\ copied' = [copied EXCEPT ![t] = Bytes]
    /\ IF Duplicates THEN Goto(t, "forward") /\ UNCHANGED slot ELSE Finish(t, t)
    /\ UNCHANGED <<objectVars, header, backOut, word, preserved, section, participating>>

\* setForwardedObjectInternal wins; what is left to do depends on the kind of copy.
ForwardWins(t) ==
    /\ pc[t] = "forward" /\ header = preserved[t]
    /\ header' = ForwardedTo(t, Sections)
    /\ IF Duplicates THEN Finish(t, t)
       ELSE Goto(t, IF Sections THEN "first" ELSE "memcpy") /\ UNCHANGED slot
    /\ UNCHANGED <<objectVars, backOut, spaceVars, preserved, section, participating>>

\* It loses: the reserved space is left for the next object.  The winner may have
\* self-forwarded the object: then copy() has failed.
ForwardLoses(t) ==
    /\ pc[t] = "forward" /\ header # preserved[t]
    /\ section' = [section EXCEPT ![t] = NoBytes]
    /\ \/ header.tag = "forwarded" /\ CopyOrWait(t, header)
       \/ header.tag = "self" /\ Goto(t, "fail") /\ UNCHANGED slot
    /\ UNCHANGED <<objectVars, header, backOut, spaceVars, preserved, participating>>

\* copy() has failed: the object stays where it is, and with the concurrent scavenger
\* setSelfForwardedObject keeps others from copying it unless somebody has.
Overwrite(t) == TRUE                                                \* mutant
StillUnforwarded(t) == header = preserved[t]

Fail(t) ==
    /\ pc[t] = "fail"
    /\ \/ ~concurrent /\ Finish(t, Original) /\ UNCHANGED header
       \/ concurrent /\ StillUnforwarded(t) /\ header' = SelfForwarded /\ Finish(t, Original)
       \/ concurrent /\ ~StillUnforwarded(t) /\ CopyOrWait(t, header) /\ UNCHANGED header
    /\ UNCHANGED <<objectVars, backOut, spaceVars, preserved, section, participating>>

-----------------------------------------------------------------------------
(* Copying a large object in sections. *)

\* winObjectSectionToCopy on the word of destination d, for a helper that joins.
WinSection(t, d, joins) ==
    LET remaining == Remaining(word[d])
        length == SectionOf(remaining, ((remaining \div 128) \div Alignment) * Alignment)
        left == remaining - length
    IN
    /\ word' = [word EXCEPT ![d] = Progress(left, Outstanding(@) + IF joins THEN 1 ELSE 0)]
    /\ section' = [section EXCEPT ![t] = [from |-> left, length |-> length]]

\* copySection.
CopySection(t, d) ==
    /\ copied' = [copied EXCEPT ![d] = @ \cup (section[t].from..(section[t].from + section[t].length - 1))]
    /\ section' = [section EXCEPT ![t] = NoBytes]

WinnerCopies(t) ==
    /\ pc[t] \in {"first", "copy"} /\ CopySection(t, t) /\ Goto(t, "win")
    /\ UNCHANGED <<objectVars, header, backOut, word, preserved, participating, slot>>

\* copyOrWaitWinner returns when nothing remains and all helpers are done.
WaitForNoOne(w) == Remaining(w) = 0                                 \* mutant
AllCopied(w) == Remaining(w) = 0 /\ Outstanding(w) = 0

Winner(t) ==
    /\ pc[t] = "win"
    /\ \/ Remaining(word[t]) > 0 /\ WinSection(t, t, FALSE) /\ Goto(t, "copy")
       \/ AllCopied(word[t]) /\ Goto(t, "commence") /\ UNCHANGED <<word, section>>
    /\ UNCHANGED <<objectVars, header, backOut, copied, preserved, participating, slot>>

\* The header of the copy: commenceFixup and commitFixup write the word as they
\* find it, and last the hint in the original is removed.
CommenceFixup(t) ==
    /\ pc[t] = "commence"
    /\ word' = [word EXCEPT ![t] = Progress(0, 0)] /\ Goto(t, "commit")
    /\ UNCHANGED <<objectVars, header, backOut, copied, preserved, section, participating, slot>>

CommitFixup(t) ==
    /\ pc[t] = "commit"
    /\ word' = [word EXCEPT ![t] = Restored] /\ Goto(t, "unhint")
    /\ UNCHANGED <<objectVars, header, backOut, copied, preserved, section, participating, slot>>

RemoveHint(t) ==
    /\ pc[t] = "unhint" /\ header' = ForwardedTo(header.to, FALSE) /\ Finish(t, t)
    /\ UNCHANGED <<objectVars, backOut, spaceVars, preserved, section, participating>>

\* copyOrWaitOutline: a helper wins a section, counting itself with its first one ...
Joins(t) == ~participating[t]

Assist(t) ==
    LET w == word[header.to] IN
    /\ pc[t] = "help" /\ w.beingCopied /\ Remaining(w) > 0
    /\ Joins(t) => Outstanding(w) < MaxOutstanding
    /\ WinSection(t, header.to, Joins(t))
    /\ participating' = [participating EXCEPT ![t] = TRUE]
    /\ Goto(t, "assist")
    /\ UNCHANGED <<objectVars, header, backOut, copied, preserved, slot>>

AssistCopies(t) ==
    /\ pc[t] = "assist" /\ CopySection(t, header.to) /\ Goto(t, "help")
    /\ UNCHANGED <<objectVars, header, backOut, word, preserved, participating, slot>>

\* ... takes its count back when nothing remains ...
Retire(t) ==
    LET w == word[header.to] IN
    /\ pc[t] = "help" /\ w.beingCopied /\ Remaining(w) = 0 /\ participating[t]
    /\ word' = [word EXCEPT ![header.to] = Progress(0, Outstanding(w) - 1)]
    /\ participating' = [participating EXCEPT ![t] = FALSE]
    /\ UNCHANGED <<objectVars, header, backOut, copied, pc, preserved, section, slot>>

\* ... and waits until the winner has restored the header.
HelpEnds(t) ==
    /\ pc[t] = "help" /\ ~word[header.to].beingCopied /\ Finish(t, header.to)
    /\ UNCHANGED <<objectVars, header, backOut, spaceVars, preserved, section, participating>>

-----------------------------------------------------------------------------
Step(t) ==
    \/ Start(t) \/ Check(t) \/ Reserve(t) \/ Memcpy(t) \/ ForwardWins(t) \/ ForwardLoses(t) \/ Fail(t)
    \/ WinnerCopies(t) \/ Winner(t) \/ CommenceFixup(t) \/ CommitFixup(t) \/ RemoveHint(t)
    \/ Assist(t) \/ AssistCopies(t) \/ Retire(t) \/ HelpEnds(t)

Next == \E t \in Threads : Step(t)

Spec == Init /\ [][Next]_vars

\* The scheduler runs every thread; copyOrWait spins.
FairSpec == Spec /\ \A t \in Threads : WF_vars(Step(t))

-----------------------------------------------------------------------------
(* What makes copying correct. *)

Done(t) == pc[t] = "done"
BytesOf(s) == s.from..(s.from + s.length - 1)

\* With the concurrent scavenger all slots end up with the same place, a copy or the
\* original, whatever the order in which threads forward, fail and self-forward; in
\* a stop-the-world scavenge they may differ only when it is backed out.
OneDestination ==
    \A t, u \in Threads :
        Done(t) /\ Done(u) => slot[t] = slot[u] \/ (~concurrent /\ backOut /\ Original \in {slot[t], slot[u]})

\* With the concurrent scavenger no thread gets to see a copy that is not complete,
\* header included, or that another thread is still writing to.
CopiedBeforeUse ==
    \A t \in Threads : concurrent /\ slot[t] \in Threads =>
        /\ copied[slot[t]] = Bytes /\ ~word[slot[t]].beingCopied
        /\ \A u \in Threads : pc[u] \notin {"first", "copy", "assist", "commence", "commit"}

\* The bytes of a large object that is being copied are accounted for: those that
\* remain, those in the section of each thread and those that were copied have none
\* in common and are all there are, although sizes and a count share one word.
Copiers == {t \in Threads : pc[t] \in {"first", "copy", "assist"}}
BytesAccounted ==
    Sections /\ header.tag = "forwarded" =>
        LET d == header.to
            remaining == IF word[d].beingCopied THEN 0..(Remaining(word[d]) - 1) ELSE {}
        IN  /\ Bytes = remaining \cup copied[d] \cup UNION {BytesOf(section[t]) : t \in Copiers}
            /\ remaining \cap copied[d] = {}
            /\ \A t \in Copiers :
                /\ BytesOf(section[t]) \cap (remaining \cup copied[d]) = {}
                /\ \A u \in Copiers \ {t} : BytesOf(section[t]) \cap BytesOf(section[u]) = {}

\* The count in the word is the number of helpers that may still be copying, so that
\* the winner does not restore the header before they are done.
ParticipantsCounted ==
    Sections /\ header.tag = "forwarded" =>
        Outstanding(word[header.to]) = Cardinality({t \in Threads : participating[t]})

\* The word that the copying threads share accounts for all bytes and all threads.  The word
\* is a number without a limit here: objects whose remaining size does not fit in a 32-bit
\* slot, to which builds with compressed references cast it, are outside the model.
CopyInv == TypeOK /\ BytesAccounted /\ ParticipantsCounted

\* Where an object was forwarded to, or that it stays, is decided once: a copy is
\* never started for an object that another thread has self-forwarded, which only
\* the back-out flag prevents.
ForwardingIsFinal ==
    [][header.tag # "plain" => header'.tag = header.tag /\ header'.to = header.to]_vars

\* Every thread gets a place: the winner and its helpers do not wait for each other
\* for ever.
AllReturn == <>(\A t \in Threads : Done(t))
=============================================================================

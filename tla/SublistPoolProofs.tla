-------------------------- MODULE SublistPoolProofs --------------------------
(***************************************************************************)
(* Theorems about SublistPool, for any number of threads, objects, puddles *)
(* and collections and any sizes of fragments and puddles: the pool is     *)
(* well-formed and its count exact, an object is remembered exactly if it  *)
(* has one slot, and a scavenge keeps the objects that refer to the        *)
(* nursery and forgets the others.                                         *)
(*                                                                         *)
(* The inductive invariant IInv says which phase the threads are in        *)
(* together (PhaseInv) and, by phase, where the puddles are (LinkInv),     *)
(* what the fragments may write (FragmentInv, RoomInv), how far the        *)
(* iterators have come (IteratorInv, UnitInv) and what that means for the  *)
(* flags of the slots (FlagInv).                                           *)
(***************************************************************************)
EXTENDS SublistPool, FiniteSetTheorems, TLAPS

-----------------------------------------------------------------------------
(* The inductive invariant. *)

\* A thread that adds an object returns to where it came from.
AddPlaces == {"add", "bump", "lock"}
Stage(t) == IF pc[t] \in AddPlaces THEN back[t] ELSE pc[t]
InStages(S) == \A t \in Threads : Stage(t) \in S

\* The phases that all threads are in together.
ScanStages == {"begin", "overflowed", "pop", "slots", "verdict", "scan"}
RunPhase == InStages({"run"})
ScanPhase ==
    /\ InStages(ScanStages)
    /\ overflowAtStart => overflow /\ (InStages({"begin", "overflowed"}) \/ InStages({"scan"}))
    /\ ~overflowAtStart => InStages(ScanStages \ {"overflowed"})
PrunePhase == InStages(IF overflow THEN {"prune", "pruneOverflow"} ELSE {"prune", "pruneSlots", "done"})
RebuildPhase == Stage(Master) = "rebuild" /\ \A t \in Threads : t = Master \/ Stage(t) = "pruneOverflow"
DonePhase == InStages({"done"})
CompactPhase == InStages({"compact"})
PhaseInv == RunPhase \/ ScanPhase \/ PrunePhase \/ RebuildPhase \/ DonePhase \/ CompactPhase

\* The locals of the calls that add an object.
AddInv ==
    \A t \in Threads :
        /\ object[t] # None <=> pc[t] \in AddPlaces
        /\ back[t] # "run" => pc[t] \in AddPlaces
        /\ seen[t] # 0 => pc[t] = "bump" /\ seen[t] \in Range(list)

\* A fragment is flushed before its thread can go on to where it may not add.
FragmentInv ==
    \A t \in Threads :
        /\ fragment[t].count = 0 /\ pc[t] # "add" => ~HasRoom(t)
        /\ pc[t] \in {"bump", "lock"} \/ Stage(t) \notin {"run", "scan", "rebuild"} => fragment[t].count = 0

\* What is left of a fragment is its own.
RoomInv ==
    /\ \A t \in Threads : HasRoom(t) =>
         /\ fragment[t].puddle \in Range(list) /\ 1 <= fragment[t].next
         /\ fragment[t].top <= current[fragment[t].puddle] + 1
         /\ fragment[t].count + (fragment[t].top - fragment[t].next) <= FragmentSize
         /\ \A i \in Places : fragment[t].next <= i /\ i < fragment[t].top =>
              slots[fragment[t].puddle][i] = Empty
    /\ \A t, u \in Threads : t # u /\ HasRoom(t) /\ HasRoom(u) /\ fragment[t].puddle = fragment[u].puddle =>
         fragment[t].top <= fragment[u].next \/ fragment[u].top <= fragment[t].next

\* What is behind the front of a puddle is NULL, and so is a puddle that does not exist.
EmptyInv ==
    \A p \in Puddles : /\ \A i \in Places : current[p] < i => slots[p][i] = Empty
                       /\ p \notin live => current[p] = 0

\* Every puddle is in one place.
HeldPuddles == {held[t] : t \in Holders}
LinkInv ==
    /\ IsInjective(list) /\ IsInjective(previous) /\ IsInjective(rest)
    /\ live = Range(list) \cup Range(previous) \cup Range(rest) \cup HeldPuddles \cup ({dest} \ {0})
    /\ Range(list) \cap Range(previous) = {} /\ HeldPuddles \cap (Range(list) \cup Range(previous)) = {}
    /\ \A t, u \in Holders : held[t] = held[u] => t = u
    /\ Range(list) \cap Range(rest) = {} /\ dest \notin Range(list) \cup Range(rest)
    /\ previous # <<>> => InStages(ScanStages \ {"scan"})
    /\ rest # <<>> \/ dest # 0 => CompactPhase
    /\ ~CompactPhase => alloc = IF list = <<>> THEN 0 ELSE Last(list)
    /\ \A t \in Threads : held[t] # 0 => pc[t] \in {"pop", "slots", "verdict", "pruneSlots"}

\* The slot iterators.
IteratorInv ==
    \A t \in Threads :
        /\ pc[t] \in {"slots", "verdict", "pruneSlots"} => held[t] # 0 /\ iterator[t].scan # 0
        /\ pc[t] = "verdict" => iterator[t].scan <= current[held[t]] /\ Slot(t) # Empty
        /\ iterator[t].removed # 0 => pc[t] = "pruneSlots"

\* A puddle of the list is one unit of pruning.
UnitInv ==
    /\ IsInjective(units) /\ Range(units) \subseteq Range(list)
    /\ units # <<>> => InStages({"prune", "pruneSlots"}) /\ ~overflow
    /\ \A t \in Threads : pc[t] = "pruneSlots" =>
         /\ held[t] \in Range(list) \ Range(units)
         /\ \A u \in Threads : pc[u] = "pruneSlots" /\ held[u] = held[t] => u = t

\* The slots that are left with parts of arrays are behind the iterators.
SplitInv ==
    \A s \in splits :
        /\ ScanPhase /\ ~overflowAtStart
        /\ s[1] \notin Range(previous) /\ slots[s[1]][s[2]] \in {Entry(s[3]), Flagged(s[3])}
        /\ \A t \in Threads : held[t] = s[1] =>
             /\ pc[t] = "slots" => s[2] < iterator[t].scan
             /\ pc[t] = "verdict" => s[2] <= iterator[t].scan

\* An object that is being added is remembered and nowhere else.
ObjectInv ==
    /\ young \subseteq remembered /\ walk \subseteq remembered
    /\ \A t \in Threads : object[t] # None =>
         /\ object[t] \in remembered \ walk
         /\ \A u \in Threads : object[u] = object[t] => u = t
         /\ back[t] # "run" => object[t] \in young
    /\ walk # {} => RebuildPhase

\* The slots of the remembered objects, one each.
Spots == Puddles \X Places
At(f, x) == f[x[1]][x[2]]
HoldsAt(f, x, o) == At(f, x) # Empty /\ At(f, x)[1] = o
OneSlot(f) == \A x, y \in Spots, o \in Objects : HoldsAt(f, x, o) /\ HoldsAt(f, y, o) => x = y
HasSlot(f, o) == \E x \in Spots : HoldsAt(f, x, o)
SlotInv ==
    ~overflow => OneSlot(slots) /\ \A o \in Objects : HasSlot(slots, o) <=> o \in remembered /\ ~OnItsWay(o)

\* No iterator has come to the slot yet; one is at it.
Ahead(p, i) ==
    \/ p \in Range(previous)
    \/ \E t \in Threads : held[t] = p /\ pc[t] = "slots" /\ iterator[t].scan <= i
    \/ \E t \in Threads : held[t] = p /\ pc[t] = "verdict" /\ iterator[t].scan < i
Pending(p, i) == \E t \in Threads : held[t] = p /\ pc[t] = "verdict" /\ iterator[t].scan = i
Unpruned(p, i) ==
    \/ p \in Range(units)
    \/ \E t \in Threads : held[t] = p /\ pc[t] = "pruneSlots" /\ iterator[t].scan <= i

\* When a slot is flagged.
FlaggedRight(p, i, o) ==
    \/ ScanPhase /\ ~Ahead(p, i) /\ (o \in young => <<p, i, o>> \in splits \/ Pending(p, i))
    \/ PrunePhase /\ Unpruned(p, i) /\ o \notin young
EntryRight(p, i, o) == o \in young \/ RunPhase \/ CompactPhase \/ (ScanPhase /\ Ahead(p, i))
FlagInv ==
    ~overflow => \A p \in Puddles, i \in Places, o \in Objects :
        /\ slots[p][i] = Flagged(o) => FlaggedRight(p, i, o)
        /\ slots[p][i] = Entry(o) => EntryRight(p, i, o)

\* The objects that are not young are on their way out, or were never in.
DoneInv ==
    /\ RebuildPhase => remembered \subseteq young \cup walk
    /\ DonePhase => remembered = young

SizeInv == currentSize >= GrowSize * Cardinality(live)

IInv ==
    /\ TypeOK /\ PhaseInv /\ AddInv /\ FragmentInv /\ RoomInv /\ EmptyInv /\ LinkInv /\ IteratorInv /\ UnitInv
    /\ SplitInv /\ ObjectInv /\ SlotInv /\ FlagInv /\ DoneInv /\ CountExact /\ SizeInv

-----------------------------------------------------------------------------
(* Sequences of puddles without repetition. *)

LEMMA RangeIs ==
    ASSUME NEW S, NEW s \in Seq(S)
    PROVE  /\ Range(s) \subseteq S /\ \A x : x \in Range(s) <=> \E i \in 1..Len(s) : s[i] = x
           /\ Range(s) = {} <=> s = <<>>
           /\ s # <<>> => Last(s) \in Range(s) /\ Head(s) \in Range(s)
<1>1. DOMAIN s = 1..Len(s) /\ Len(s) \in Nat OBVIOUS
<1>2. \A x : x \in Range(s) <=> \E i \in 1..Len(s) : s[i] = x BY <1>1 DEF Range
<1>3. Range(s) \subseteq S BY <1>2
<1>4. s # <<>> => 1 \in 1..Len(s) /\ Len(s) \in 1..Len(s) OBVIOUS
<1>5. s # <<>> => Last(s) \in Range(s) /\ Head(s) \in Range(s) BY <1>2, <1>4 DEF Last
<1>6. s = <<>> => Range(s) = {} BY <1>2
<1> QED BY <1>2, <1>3, <1>5, <1>6

LEMMA RangeOfEmpty == Range(<<>>) = {} /\ IsInjective(<<>>)
  BY DEF Range, IsInjective

LEMMA Retyped ==
    ASSUME NEW S, NEW s \in Seq(S), NEW T, Range(s) \subseteq T
    PROVE  s \in Seq(T)
<1>1. \A i \in 1..Len(s) : s[i] \in T BY RangeIs
<1> QED BY <1>1

LEMMA Injective ==
    ASSUME NEW S, NEW s \in Seq(S)
    PROVE  IsInjective(s) <=> \A i, j \in 1..Len(s) : s[i] = s[j] => i = j
  BY DEF IsInjective

LEMMA ConsIs ==
    ASSUME NEW S, NEW s \in Seq(S), NEW x \in S
    PROVE  LET r == <<x>> \o s IN
           /\ r \in Seq(S) /\ r # <<>> /\ Len(r) = Len(s) + 1 /\ Range(r) = Range(s) \cup {x}
           /\ Last(r) = IF s = <<>> THEN x ELSE Last(s)
           /\ IsInjective(s) /\ x \notin Range(s) => IsInjective(r)
<1> DEFINE r == <<x>> \o s
<1>1. /\ r \in Seq(S) /\ Len(r) = Len(s) + 1 /\ r[1] = x /\ Len(s) \in Nat
      /\ \A i \in 1..Len(s) : r[i + 1] = s[i]
  OBVIOUS
<1> HIDE DEF r
<1>2. \A j \in 1..Len(r) : j = 1 \/ (j - 1 \in 1..Len(s) /\ r[j] = s[j - 1])
  <2> SUFFICES ASSUME NEW j \in 1..Len(r), j # 1 PROVE j - 1 \in 1..Len(s) /\ r[j] = s[j - 1] OBVIOUS
  <2>1. j - 1 \in 1..Len(s) /\ (j - 1) + 1 = j BY <1>1
  <2> QED BY <1>1, <2>1
<1>3. Range(r) = Range(s) \cup {x}
  <2>1. ASSUME NEW y \in Range(r) PROVE y \in Range(s) \cup {x}
    <3>1. PICK j \in 1..Len(r) : r[j] = y BY <1>1, RangeIs
    <3>2. CASE j = 1 BY <1>1, <3>1, <3>2
    <3>3. CASE j # 1
      <4>1. j - 1 \in 1..Len(s) /\ s[j - 1] = y BY <1>2, <3>1, <3>3
      <4> QED BY <4>1, RangeIs
    <3> QED BY <3>2, <3>3
  <2>2. \A y \in Range(s) : y \in Range(r)
    <3> SUFFICES ASSUME NEW y \in Range(s) PROVE y \in Range(r) OBVIOUS
    <3>1. PICK i \in 1..Len(s) : s[i] = y BY RangeIs
    <3>2. i + 1 \in 1..Len(r) /\ r[i + 1] = y BY <1>1, <3>1
    <3> QED BY <1>1, <3>2, RangeIs
  <2>3. x \in Range(r)
    <3>1. 1 \in 1..Len(r) BY <1>1
    <3> QED BY <1>1, <3>1, RangeIs
  <2> QED BY <2>1, <2>2, <2>3
<1>4. Last(r) = IF s = <<>> THEN x ELSE Last(s)
  <2>1. CASE s = <<>> BY <1>1, <2>1 DEF Last
  <2>2. CASE s # <<>>
    <3>1. Len(s) \in 1..Len(s) BY <2>2
    <3> QED BY <1>1, <2>2, <3>1 DEF Last
  <2> QED BY <2>1, <2>2
<1>5. ASSUME IsInjective(s), x \notin Range(s) PROVE IsInjective(r)
  <2>1. \A i, j \in 1..Len(s) : s[i] = s[j] => i = j BY <1>5, Injective
  <2>2. \A i \in 1..Len(s) : s[i] # x BY <1>5, RangeIs
  <2>3. ASSUME NEW i \in 1..Len(r), NEW j \in 1..Len(r), r[i] = r[j] PROVE i = j
    <3>1. CASE i = 1 /\ j = 1 BY <3>1
    <3>2. CASE i = 1 /\ j # 1 BY <1>1, <1>2, <2>2, <2>3, <3>2
    <3>3. CASE i # 1 /\ j = 1 BY <1>1, <1>2, <2>2, <2>3, <3>3
    <3>4. CASE i # 1 /\ j # 1
      <4>1. i - 1 = j - 1 BY <1>2, <2>1, <2>3, <3>4
      <4> QED BY <1>1, <4>1
    <3> QED BY <3>1, <3>2, <3>3, <3>4
  <2> QED BY <1>1, <2>3, Injective
<1> QED BY <1>1, <1>3, <1>4, <1>5 DEF r

LEMMA AppendIs ==
    ASSUME NEW S, NEW s \in Seq(S), NEW x \in S
    PROVE  LET r == Append(s, x) IN
           /\ r \in Seq(S) /\ r # <<>> /\ Len(r) = Len(s) + 1 /\ Range(r) = Range(s) \cup {x} /\ Last(r) = x
           /\ IsInjective(s) /\ x \notin Range(s) => IsInjective(r)
<1> DEFINE r == Append(s, x)
<1>1. /\ r \in Seq(S) /\ Len(r) = Len(s) + 1 /\ r[Len(s) + 1] = x /\ Len(s) \in Nat
      /\ \A i \in 1..Len(s) : r[i] = s[i]
  OBVIOUS
<1> HIDE DEF r
<1>2. \A j \in 1..Len(r) : j = Len(s) + 1 \/ j \in 1..Len(s) BY <1>1
<1>3. Range(r) = Range(s) \cup {x}
  <2>1. \A y \in Range(r) : y \in Range(s) \cup {x} BY <1>1, <1>2, RangeIs
  <2>2. \A y \in Range(s) : y \in Range(r)
    <3> SUFFICES ASSUME NEW y \in Range(s) PROVE y \in Range(r) OBVIOUS
    <3>1. PICK i \in 1..Len(s) : s[i] = y BY RangeIs
    <3>2. i \in 1..Len(r) /\ r[i] = y BY <1>1, <3>1
    <3> QED BY <1>1, <3>2, RangeIs
  <2>3. x \in Range(r)
    <3>1. Len(s) + 1 \in 1..Len(r) BY <1>1
    <3> QED BY <1>1, <3>1, RangeIs
  <2> QED BY <2>1, <2>2, <2>3
<1>4. Last(r) = x BY <1>1 DEF Last
<1>5. ASSUME IsInjective(s), x \notin Range(s) PROVE IsInjective(r)
  <2>1. \A i, j \in 1..Len(s) : s[i] = s[j] => i = j BY <1>5, Injective
  <2>2. \A i \in 1..Len(s) : s[i] # x BY <1>5, RangeIs
  <2>3. ASSUME NEW i \in 1..Len(r), NEW j \in 1..Len(r), r[i] = r[j] PROVE i = j
    BY <1>1, <1>2, <2>1, <2>2, <2>3
  <2> QED BY <1>1, <2>3, Injective
<1> QED BY <1>1, <1>3, <1>4, <1>5 DEF r

LEMMA TailIs ==
    ASSUME NEW S, NEW s \in Seq(S), s # <<>>, IsInjective(s)
    PROVE  /\ Head(s) \in S /\ Head(s) \in Range(s) /\ Tail(s) \in Seq(S) /\ IsInjective(Tail(s))
           /\ Range(Tail(s)) = Range(s) \ {Head(s)} /\ Len(Tail(s)) = Len(s) - 1
<1> DEFINE r == Tail(s)
<1>1. /\ r \in Seq(S) /\ Len(r) = Len(s) - 1 /\ Len(s) \in Nat /\ Len(s) # 0 /\ Head(s) = s[1] /\ s[1] \in S
      /\ \A i \in 1..Len(r) : r[i] = s[i + 1]
  OBVIOUS
<1>2. \A i, j \in 1..Len(s) : s[i] = s[j] => i = j BY Injective
<1> HIDE DEF r
<1>3. \A i \in 1..Len(r) : i + 1 \in 1..Len(s) /\ i + 1 # 1 BY <1>1
<1>4. \A i, j \in 1..Len(r) : r[i] = r[j] => i = j
  <2> SUFFICES ASSUME NEW i \in 1..Len(r), NEW j \in 1..Len(r), r[i] = r[j] PROVE i = j OBVIOUS
  <2>1. i + 1 = j + 1 BY <1>1, <1>2, <1>3
  <2> QED BY <1>1, <2>1
<1>5. IsInjective(r) BY <1>1, <1>4, Injective
<1>6. 1 \in 1..Len(s) BY <1>1
<1>7. Range(r) = Range(s) \ {Head(s)}
  <2>1. ASSUME NEW y \in Range(r) PROVE y \in Range(s) \ {Head(s)}
    <3>1. PICK i \in 1..Len(r) : r[i] = y BY <1>1, RangeIs
    <3>2. s[i + 1] = y /\ i + 1 \in 1..Len(s) /\ i + 1 # 1 BY <1>1, <1>3, <3>1
    <3>3. y # s[1] BY <1>2, <1>6, <3>2
    <3> QED BY <1>1, <3>2, <3>3, RangeIs
  <2>2. ASSUME NEW y \in Range(s), y # Head(s) PROVE y \in Range(r)
    <3>1. PICK i \in 1..Len(s) : s[i] = y BY RangeIs
    <3>2. i # 1 BY <1>1, <2>2, <3>1
    <3>3. i - 1 \in 1..Len(r) /\ (i - 1) + 1 = i BY <1>1, <3>2
    <3>4. r[i - 1] = y BY <1>1, <3>1, <3>3
    <3> QED BY <1>1, <3>3, <3>4, RangeIs
  <2> QED BY <2>1, <2>2
<1> QED BY <1>1, <1>5, <1>7, RangeIs DEF r

LEMMA RangeSize ==
    ASSUME NEW S, NEW s \in Seq(S), IsInjective(s)
    PROVE  IsFiniteSet(Range(s)) /\ Cardinality(Range(s)) = Len(s)
<1> DEFINE n == Len(s)
           R == Range(s)
<1>1. n \in Nat /\ s \in [1..n -> S] OBVIOUS
<1>2. \A x : x \in R <=> \E i \in 1..n : s[i] = x BY RangeIs
<1>3. \A i, j \in 1..n : s[i] = s[j] => i = j BY Injective
<1> HIDE DEF n, R
<1>4. s \in [1..n -> R] BY <1>1, <1>2
<1>5. s \in Bijection(1..n, R) BY <1>2, <1>3, <1>4 DEF Bijection, Injection, IsInjective, Surjection
<1>6. ExistsBijection(1..n, R) BY <1>5 DEF ExistsBijection
<1>7. IsFiniteSet(1..n) /\ Cardinality(1..n) = n BY <1>1, FS_Interval
<1> QED BY <1>6, <1>7, FS_Bijection DEF n, R

-----------------------------------------------------------------------------
(* Slots, types and phases. *)

LEMMA EntriesAre ==
    /\ \A o \in Objects : /\ Entry(o) \in Entries /\ Flagged(o) \in Entries /\ Entry(o) # Empty /\ Flagged(o) # Empty
                          /\ Entry(o)[1] = o /\ Flagged(o)[1] = o /\ ~Entry(o)[2] /\ Flagged(o)[2]
                          /\ \A u \in Objects : Entry(o) # Flagged(u)
    /\ \A e \in Entries : e # Empty => /\ e[1] \in Objects /\ (e = Entry(e[1]) \/ e = Flagged(e[1]))
                                       /\ ~e[2] <=> e = Entry(e[1])
    /\ Empty \in Entries
<1>1. \A o \in Objects : /\ Entry(o)[1] = o /\ Flagged(o)[1] = o /\ ~Entry(o)[2] /\ Flagged(o)[2]
  BY Zenon DEF Entry, Flagged
<1>2. \A o \in Objects : Entry(o) # Empty /\ Flagged(o) # Empty
  <2>1. \A o \in Objects : Len(<<o, FALSE>>) = 2 /\ Len(<<o, TRUE>>) = 2 /\ Len(<<>>) = 0 OBVIOUS
  <2> QED BY <2>1 DEF Entry, Flagged, Empty
<1>3. \A o, u \in Objects : Entry(o) # Flagged(u) BY <1>1
<1>4. \A o \in Objects : Entry(o) \in Entries /\ Flagged(o) \in Entries BY DEF Entry, Flagged, Entries
<1>5. ASSUME NEW e \in Entries, e # Empty
      PROVE  e[1] \in Objects /\ (e = Entry(e[1]) \/ e = Flagged(e[1])) /\ (~e[2] <=> e = Entry(e[1]))
  <2>1. PICK o \in Objects, b \in BOOLEAN : e = <<o, b>> BY <1>5 DEF Entries
  <2>2. e = Entry(o) \/ e = Flagged(o) BY <2>1 DEF Entry, Flagged
  <2>3. e[1] = o BY <1>1, <2>2
  <2>4. CASE e = Entry(o) BY <1>1, <2>3, <2>4
  <2>5. CASE e = Flagged(o) BY <1>1, <1>3, <2>3, <2>5
  <2> QED BY <2>2, <2>4, <2>5
<1>6. Empty \in Entries BY DEF Entries
<1> QED BY <1>1, <1>2, <1>3, <1>4, <1>5, <1>6

Pcs == {"run", "add", "bump", "lock", "begin", "overflowed", "pop", "slots", "verdict", "scan", "prune", "pruneSlots",
        "pruneOverflow", "rebuild", "done", "compact"}
Fragments == [puddle : Puddles \cup {0}, next : 0..GrowSize + 1, top : 0..GrowSize + 1, count : 0..FragmentSize]
Iterators == [scan : 0..GrowSize + 1, removed : Nat]

\* The type invariant in parts.
SlotTypes == slots \in [Puddles -> [Places -> Entries]] /\ current \in [Puddles -> 0..GrowSize]
PoolTypes ==
    /\ live \subseteq Puddles /\ list \in Seq(live) /\ previous \in Seq(live) /\ rest \in Seq(live)
    /\ dest \in live \cup {0} /\ alloc \in Puddles \cup {0} /\ units \in Seq(live)
    /\ splits \subseteq live \X Places \X Objects /\ held \in [Threads -> live \cup {0}]
ObjectTypes ==
    /\ remembered \subseteq Objects /\ young \subseteq Objects /\ walk \subseteq Objects
    /\ object \in [Threads -> Objects \cup {None}]
PcTypes == pc \in [Threads -> Pcs] /\ back \in [Threads -> {"run", "scan", "rebuild"}]
NumberTypes == currentSize \in Nat /\ count \in Nat /\ cycles \in 0..MaxCycles
FlagTypes == overflow \in BOOLEAN /\ overflowAtStart \in BOOLEAN
FragmentTypes == fragment \in [Threads -> Fragments] /\ seen \in [Threads -> Puddles \cup {0}]
IteratorTypes == iterator \in [Threads -> Iterators]

LEMMA TypeIs ==
    TypeOK <=> /\ SlotTypes /\ PoolTypes /\ ObjectTypes /\ PcTypes /\ NumberTypes /\ FlagTypes /\ FragmentTypes
               /\ IteratorTypes
  BY DEF TypeOK, SlotTypes, PoolTypes, ObjectTypes, PcTypes, NumberTypes, FlagTypes, FragmentTypes, IteratorTypes,
         Pcs, Fragments, Iterators

LEMMA TypeNext ==
    ASSUME SlotTypes', PoolTypes', ObjectTypes', PcTypes', NumberTypes', FlagTypes', FragmentTypes', IteratorTypes'
    PROVE  TypeOK'
  BY DEF TypeOK, SlotTypes, PoolTypes, ObjectTypes, PcTypes, NumberTypes, FlagTypes, FragmentTypes, IteratorTypes,
         Pcs, Fragments, Iterators

LEMMA SlotTypeOf ==
    ASSUME SlotTypes, NEW p \in Puddles
    PROVE  /\ current[p] \in 0..GrowSize /\ slots[p] \in [Places -> Entries]
           /\ \A i \in Places : slots[p][i] \in Entries
  BY DEF SlotTypes

LEMMA FragmentOf ==
    ASSUME FragmentTypes, NEW t \in Threads
    PROVE  /\ fragment[t].puddle \in Puddles \cup {0} /\ fragment[t].next \in 0..GrowSize + 1
           /\ fragment[t].top \in 0..GrowSize + 1 /\ fragment[t].count \in 0..FragmentSize
           /\ fragment[t].next \in Nat /\ fragment[t].top \in Nat /\ fragment[t].count \in Nat
           /\ seen[t] \in Puddles \cup {0}
<1>1. fragment[t] \in Fragments /\ seen[t] \in Puddles \cup {0} BY DEF FragmentTypes
<1>2. GrowSize \in Nat /\ FragmentSize \in Nat BY ConstantsAssumption
<1> QED BY <1>1, <1>2 DEF Fragments

LEMMA IteratorOf ==
    ASSUME IteratorTypes, NEW t \in Threads
    PROVE  iterator[t].scan \in 0..GrowSize + 1 /\ iterator[t].scan \in Nat /\ iterator[t].removed \in Nat
<1>1. iterator[t] \in Iterators BY DEF IteratorTypes
<1>2. GrowSize \in Nat BY ConstantsAssumption
<1> QED BY <1>1, <1>2 DEF Iterators

\* Where a thread is, its puddle and its slot, for what holds a puddle.
WorkPlaces == {"pop", "slots", "verdict", "pruneSlots"}
SameStages == \A t \in Threads : Stage(t)' = Stage(t)
SameWork ==
    \A t \in Threads : /\ held'[t] = held[t] /\ iterator'[t] = iterator[t]
                       /\ pc[t] \in WorkPlaces \/ pc'[t] \in WorkPlaces => pc'[t] = pc[t]

LEMMA StagesSame ==
    ASSUME SameStages
    PROVE  /\ \A S : InStages(S)' <=> InStages(S)
           /\ RunPhase' <=> RunPhase
           /\ DonePhase' <=> DonePhase
           /\ CompactPhase' <=> CompactPhase
           /\ RebuildPhase' <=> RebuildPhase
<1>1. \A S : InStages(S)' <=> InStages(S) BY DEF InStages, SameStages
<1>2. RebuildPhase' <=> RebuildPhase BY ConstantsAssumption DEF RebuildPhase, SameStages
<1> QED BY <1>1, <1>2 DEF RunPhase, DonePhase, CompactPhase

LEMMA PhasesSame ==
    ASSUME SameStages, overflow' = overflow, overflowAtStart' = overflowAtStart
    PROVE  /\ ScanPhase' <=> ScanPhase
           /\ PrunePhase' <=> PrunePhase
           /\ PhaseInv' <=> PhaseInv
<1>1. \A S : InStages(S)' <=> InStages(S) BY StagesSame
<1>2. ScanPhase' <=> ScanPhase BY <1>1 DEF ScanPhase, ScanStages
<1>3. PrunePhase' <=> PrunePhase BY <1>1 DEF PrunePhase
<1> QED BY <1>2, <1>3, StagesSame DEF PhaseInv

LEMMA WorkSame ==
    ASSUME SameWork
    PROVE  /\ Holders' = Holders /\ HeldPuddles' = HeldPuddles /\ Unreported' = Unreported
           /\ Range(previous)' = Range(previous) => \A p, i : Ahead(p, i)' <=> Ahead(p, i)
           /\ \A p, i : Pending(p, i)' <=> Pending(p, i)
           /\ Range(units)' = Range(units) => \A p, i : Unpruned(p, i)' <=> Unpruned(p, i)
<1>1. Holders' = Holders BY DEF SameWork, Holders, WorkPlaces
<1>2. HeldPuddles' = HeldPuddles BY <1>1 DEF SameWork, HeldPuddles, Holders
<1>3. Unreported' = Unreported
  <2>1. \A t \in Threads : iterator'[t].removed = iterator[t].removed BY DEF SameWork
  <2> QED BY <2>1 DEF Unreported
<1>4. Range(previous)' = Range(previous) => \A p, i : Ahead(p, i)' <=> Ahead(p, i) BY DEF SameWork, Ahead, WorkPlaces
<1>5. \A p, i : Pending(p, i)' <=> Pending(p, i) BY DEF SameWork, Pending, WorkPlaces
<1>6. Range(units)' = Range(units) => \A p, i : Unpruned(p, i)' <=> Unpruned(p, i)
  BY DEF SameWork, Unpruned, WorkPlaces
<1> QED BY <1>1, <1>2, <1>3, <1>4, <1>5, <1>6

\* The phases exclude each other, but for the end of pruning.
LEMMA PhaseOf ==
    ASSUME PhaseInv, PcTypes, NEW t \in Threads
    PROVE  /\ Stage(t) = "run" => RunPhase
           /\ Stage(t) \in ScanStages => ScanPhase
           /\ Stage(t) \in {"prune", "pruneSlots"} => PrunePhase
           /\ Stage(t) = "rebuild" => RebuildPhase /\ t = Master
           /\ Stage(t) = "pruneOverflow" => (PrunePhase /\ overflow) \/ (RebuildPhase /\ t # Master)
           /\ Stage(t) = "compact" => CompactPhase
           /\ Stage(t) = "done" => (PrunePhase /\ ~overflow) \/ DonePhase
  BY DEF PhaseInv, RunPhase, ScanPhase, PrunePhase, RebuildPhase, CompactPhase, DonePhase, InStages, ScanStages

LEMMA Exclusive ==
    /\ RunPhase => ~ScanPhase /\ ~PrunePhase /\ ~RebuildPhase /\ ~DonePhase /\ ~CompactPhase
    /\ ScanPhase => ~PrunePhase /\ ~RebuildPhase /\ ~DonePhase /\ ~CompactPhase
    /\ PrunePhase => ~RebuildPhase /\ ~CompactPhase
    /\ RebuildPhase => ~DonePhase /\ ~CompactPhase
    /\ DonePhase => ~CompactPhase
<1>1. Master \in Threads BY ConstantsAssumption
<1>2. RunPhase => Stage(Master) = "run" BY <1>1 DEF RunPhase, InStages
<1>3. ScanPhase => Stage(Master) \in ScanStages BY <1>1 DEF ScanPhase, InStages
<1>4. PrunePhase => Stage(Master) \in {"prune", "pruneSlots", "pruneOverflow", "done"} BY <1>1 DEF PrunePhase, InStages
<1>5. RebuildPhase => Stage(Master) = "rebuild" BY DEF RebuildPhase
<1>6. DonePhase => Stage(Master) = "done" BY <1>1 DEF DonePhase, InStages
<1>7. CompactPhase => Stage(Master) = "compact" BY <1>1 DEF CompactPhase, InStages
<1> QED BY <1>2, <1>3, <1>4, <1>5, <1>6, <1>7 DEF ScanStages

-----------------------------------------------------------------------------
(* Counting: what the threads have not reported, and the slots that are not NULL. *)

Pairs(c, T) == UNION {{t} \X (1..c[t]) : t \in T}

LEMMA PairsIn ==
    ASSUME NEW c, NEW T
    PROVE  \A x : x \in Pairs(c, T) <=> \E t \in T : x \in {t} \X (1..c[t])
  BY Zenon DEF Pairs

LEMMA PairsFinite ==
    ASSUME NEW T, IsFiniteSet(T), NEW c \in [T -> Nat], NEW U \in SUBSET T
    PROVE  IsFiniteSet(Pairs(c, U))
<1> DEFINE S == {{t} \X (1..c[t]) : t \in U}
           f == [t \in U |-> {t} \X (1..c[t])]
<1>1. IsFiniteSet(U) BY FS_Subset
<1>2. f \in Surjection(U, S) BY DEF Surjection
<1>3. IsFiniteSet(S)
  <2> HIDE DEF S, f
  <2> QED BY <1>1, <1>2, FS_Surjection
<1>4. ASSUME NEW t \in U PROVE IsFiniteSet({t} \X (1..c[t]))
  <2>1. c[t] \in Nat OBVIOUS
  <2>2. IsFiniteSet(1..c[t]) BY <2>1, FS_Interval
  <2> QED BY <2>2, FS_Singleton, FS_Product
<1>5. \A s \in S : IsFiniteSet(s) BY <1>4
<1>6. IsFiniteSet(UNION S)
  <2> HIDE DEF S
  <2> QED BY <1>3, <1>5, FS_UNION
<1> QED BY <1>6 DEF Pairs

LEMMA PairsOne ==
    ASSUME NEW c, NEW t, c[t] \in Nat
    PROVE  IsFiniteSet(Pairs(c, {t})) /\ Cardinality(Pairs(c, {t})) = c[t]
<1>1. Pairs(c, {t}) = {t} \X (1..c[t]) BY DEF Pairs
<1>2. IsFiniteSet(1..c[t]) /\ Cardinality(1..c[t]) = c[t] BY FS_Interval
<1>3. IsFiniteSet({t}) /\ Cardinality({t}) = 1 BY FS_Singleton
<1>4. /\ IsFiniteSet({t} \X (1..c[t]))
      /\ Cardinality({t} \X (1..c[t])) = Cardinality({t}) * Cardinality(1..c[t])
  BY <1>2, <1>3, FS_Product
<1>5. 1 * c[t] = c[t] OBVIOUS
<1> QED BY <1>1, <1>2, <1>3, <1>4, <1>5

LEMMA PairsSplit ==
    ASSUME NEW T, IsFiniteSet(T), NEW c \in [T -> Nat], NEW t \in T
    PROVE  /\ Cardinality(Pairs(c, T)) = Cardinality(Pairs(c, T \ {t})) + c[t]
           /\ Cardinality(Pairs(c, T \ {t})) \in Nat /\ Cardinality(Pairs(c, T)) \in Nat
<1> DEFINE A == Pairs(c, T)
           B == Pairs(c, T \ {t})
           C == Pairs(c, {t})
<1>1. IsFiniteSet(A) /\ IsFiniteSet(B) /\ IsFiniteSet(C) BY PairsFinite
<1>2. c[t] \in Nat OBVIOUS
<1>3. Cardinality(C) = c[t] BY <1>2, PairsOne
<1>4. A = B \cup C
  <2>1. \A x : x \in A <=> x \in B \/ x \in C BY PairsIn
  <2> QED BY <2>1, Zenon
<1>5. B \cap C = {}
  <2>1. \A x : ~(x \in B /\ x \in C) BY PairsIn
  <2> QED BY <2>1, Zenon
<1> HIDE DEF A, B, C
<1>6. Cardinality(A) = Cardinality(B) + Cardinality(C) - 0 BY <1>1, <1>4, <1>5, FS_Union, FS_EmptySet
<1>7. Cardinality(A) \in Nat /\ Cardinality(B) \in Nat BY <1>1, FS_CardinalityType
<1>8. Cardinality(A) = Cardinality(B) + c[t] BY <1>2, <1>3, <1>6, <1>7
<1> QED BY <1>7, <1>8 DEF A, B

LEMMA PairsSame ==
    ASSUME NEW c, NEW d, NEW T, \A t \in T : c[t] = d[t]
    PROVE  Pairs(c, T) = Pairs(d, T)
  BY DEF Pairs

LEMMA PairsNone ==
    ASSUME NEW T, NEW c, \A t \in T : c[t] = 0
    PROVE  Pairs(c, T) = {} /\ Cardinality(Pairs(c, T)) = 0
<1>1. \A t \in T : 1..c[t] = {} OBVIOUS
<1>2. \A x : x \notin Pairs(c, T) BY <1>1, PairsIn
<1>3. Pairs(c, T) = {} BY <1>2
<1> QED BY <1>3, FS_EmptySet

\* The counts as functions.
Counts == [t \in Threads |-> fragment[t].count]
Removals == [t \in Threads |-> iterator[t].removed]

LEMMA CountsOf ==
    ASSUME NEW f \in [Threads -> Fragments]
    PROVE  LET c == [t \in Threads |-> f[t].count] IN
           /\ c \in [Threads -> Nat] /\ \A t \in Threads : c[t] = f[t].count
           /\ UNION {{t} \X (1..f[t].count) : t \in Threads} = Pairs(c, Threads)
           /\ Cardinality(Pairs(c, Threads)) \in Nat
<1> DEFINE c == [t \in Threads |-> f[t].count]
<1>1. c \in [Threads -> Nat]
  <2>1. FragmentSize \in Nat BY ConstantsAssumption
  <2>2. \A t \in Threads : f[t].count \in 0..FragmentSize BY DEF Fragments
  <2>3. \A t \in Threads : f[t].count \in Nat BY <2>1, <2>2
  <2> QED BY <2>3
<1>2. \A t \in Threads : c[t] = f[t].count OBVIOUS
<1>3. UNION {{t} \X (1..f[t].count) : t \in Threads} = Pairs(c, Threads) BY <1>2 DEF Pairs
<1>4. IsFiniteSet(Pairs(c, Threads)) BY <1>1, ConstantsAssumption, PairsFinite
<1>5. Cardinality(Pairs(c, Threads)) \in Nat BY <1>4, FS_CardinalityType
<1> QED BY <1>1, <1>2, <1>3, <1>5

LEMMA RemovalsOf ==
    ASSUME NEW f \in [Threads -> Iterators]
    PROVE  LET c == [t \in Threads |-> f[t].removed] IN
           /\ c \in [Threads -> Nat] /\ \A t \in Threads : c[t] = f[t].removed
           /\ UNION {{t} \X (1..f[t].removed) : t \in Threads} = Pairs(c, Threads)
<1> DEFINE c == [t \in Threads |-> f[t].removed]
<1>1. c \in [Threads -> Nat] BY DEF Iterators
<1>2. \A t \in Threads : c[t] = f[t].removed OBVIOUS
<1>3. UNION {{t} \X (1..f[t].removed) : t \in Threads} = Pairs(c, Threads) BY <1>2 DEF Pairs
<1> QED BY <1>1, <1>2, <1>3

LEMMA UncountedIs ==
    ASSUME FragmentTypes
    PROVE  /\ Counts \in [Threads -> Nat] /\ Uncounted(Threads) = Cardinality(Pairs(Counts, Threads))
           /\ \A t \in Threads : Uncounted({t}) = fragment[t].count
           /\ Uncounted(Threads) \in Nat
<1>1. Counts \in [Threads -> Nat]
  <2>1. \A t \in Threads : fragment[t].count \in Nat BY FragmentOf
  <2> QED BY <2>1 DEF Counts
<1>2. \A T \in SUBSET Threads : Uncounted(T) = Cardinality(Pairs(Counts, T))
  <2> SUFFICES ASSUME NEW T \in SUBSET Threads PROVE Uncounted(T) = Cardinality(Pairs(Counts, T)) OBVIOUS
  <2>1. \A t \in T : Counts[t] = fragment[t].count BY DEF Counts
  <2>2. Pairs(Counts, T) = UNION {{t} \X (1..fragment[t].count) : t \in T} BY <2>1 DEF Pairs
  <2> QED BY <2>2 DEF Uncounted
<1>3. ASSUME NEW t \in Threads PROVE Uncounted({t}) = fragment[t].count
  <2>1. Counts[t] = fragment[t].count /\ Counts[t] \in Nat BY <1>1 DEF Counts
  <2>2. Cardinality(Pairs(Counts, {t})) = Counts[t] BY <2>1, PairsOne
  <2>3. Uncounted({t}) = Cardinality(Pairs(Counts, {t})) BY <1>2
  <2> QED BY <2>1, <2>2, <2>3
<1>4. Uncounted(Threads) \in Nat
  <2>1. IsFiniteSet(Pairs(Counts, Threads)) BY <1>1, ConstantsAssumption, PairsFinite
  <2> QED BY <1>2, <2>1, FS_CardinalityType
<1> QED BY <1>1, <1>2, <1>3, <1>4

LEMMA UnreportedIs ==
    ASSUME IteratorTypes
    PROVE  /\ Removals \in [Threads -> Nat] /\ Unreported = Pairs(Removals, Threads)
           /\ IsFiniteSet(Unreported) /\ Cardinality(Unreported) \in Nat
           /\ \A t \in Threads : iterator[t].removed <= Cardinality(Unreported)
           /\ (\A t \in Threads : iterator[t].removed = 0) => Cardinality(Unreported) = 0
<1>1. Removals \in [Threads -> Nat]
  <2>1. \A t \in Threads : iterator[t].removed \in Nat BY IteratorOf
  <2> QED BY <2>1 DEF Removals
<1>2. Unreported = Pairs(Removals, Threads)
  <2>1. \A t \in Threads : Removals[t] = iterator[t].removed BY DEF Removals
  <2> QED BY <2>1 DEF Unreported, Pairs
<1>3. IsFiniteSet(Unreported) BY <1>1, <1>2, ConstantsAssumption, PairsFinite
<1>4. Cardinality(Unreported) \in Nat BY <1>3, FS_CardinalityType
<1>5. ASSUME NEW t \in Threads PROVE iterator[t].removed <= Cardinality(Unreported)
  <2>1. /\ Cardinality(Unreported) = Cardinality(Pairs(Removals, Threads \ {t})) + Removals[t]
        /\ Cardinality(Pairs(Removals, Threads \ {t})) \in Nat
    BY <1>1, <1>2, ConstantsAssumption, PairsSplit
  <2>2. Removals[t] = iterator[t].removed /\ Removals[t] \in Nat BY <1>1 DEF Removals
  <2> QED BY <2>1, <2>2
<1>6. ASSUME \A t \in Threads : iterator[t].removed = 0 PROVE Cardinality(Unreported) = 0
  <2>1. \A t \in Threads : Removals[t] = 0 BY <1>6 DEF Removals
  <2> QED BY <1>2, <2>1, PairsNone
<1> QED BY <1>1, <1>2, <1>3, <1>4, <1>5, <1>6

\* One thread's count changes, or all are given up.
LEMMA UncountedNext ==
    ASSUME FragmentTypes, FragmentTypes'
    PROVE  /\ \A t \in Threads : (\A u \in Threads \ {t} : fragment'[u].count = fragment[u].count) =>
                Uncounted(Threads)' + fragment[t].count = Uncounted(Threads) + fragment'[t].count
           /\ (\A t \in Threads : fragment'[t].count = fragment[t].count) => Uncounted(Threads)' = Uncounted(Threads)
           /\ (\A t \in Threads : fragment'[t].count = 0) => Uncounted(Threads)' = 0
<1> DEFINE c == [t \in Threads |-> fragment[t].count]
           d == [t \in Threads |-> fragment'[t].count]
           N == Uncounted(Threads)
           M == Uncounted(Threads)'
<1>0. fragment \in [Threads -> Fragments] /\ fragment' \in [Threads -> Fragments] BY DEF FragmentTypes
<1>1. c \in [Threads -> Nat] /\ d \in [Threads -> Nat] BY <1>0, CountsOf
<1>2. N = Cardinality(Pairs(c, Threads)) /\ N \in Nat BY <1>0, CountsOf DEF Uncounted
<1>3. M = Cardinality(Pairs(d, Threads)) /\ M \in Nat BY <1>0, CountsOf DEF Uncounted
<1>4. \A t \in Threads : c[t] = fragment[t].count /\ d[t] = fragment'[t].count OBVIOUS
<1> HIDE DEF c, d, N, M
<1>5. ASSUME NEW t \in Threads, \A u \in Threads \ {t} : fragment'[u].count = fragment[u].count
      PROVE  M + fragment[t].count = N + fragment'[t].count
  <2>1. Pairs(c, Threads \ {t}) = Pairs(d, Threads \ {t})
    <3>1. \A u \in Threads \ {t} : c[u] = d[u] BY <1>4, <1>5
    <3> QED BY <3>1, PairsSame
  <2> DEFINE R == Cardinality(Pairs(c, Threads \ {t}))
  <2>2. N = R + c[t] /\ R \in Nat BY <1>1, <1>2, ConstantsAssumption, PairsSplit
  <2>3. M = R + d[t] BY <1>1, <1>3, <2>1, ConstantsAssumption, PairsSplit
  <2>4. c[t] \in Nat /\ d[t] \in Nat BY <1>1
  <2> HIDE DEF R
  <2> QED BY <1>4, <2>2, <2>3, <2>4
<1>6. ASSUME \A t \in Threads : fragment'[t].count = fragment[t].count PROVE M = N
  <2>1. \A t \in Threads : c[t] = d[t] BY <1>4, <1>6
  <2> QED BY <1>2, <1>3, <2>1, PairsSame
<1>7. ASSUME \A t \in Threads : fragment'[t].count = 0 PROVE M = 0
  <2>1. \A t \in Threads : d[t] = 0 BY <1>4, <1>7
  <2> QED BY <1>3, <2>1, PairsNone
<1> QED BY <1>5, <1>6, <1>7 DEF M, N

LEMMA UnreportedNext ==
    ASSUME IteratorTypes, IteratorTypes'
    PROVE  /\ \A t \in Threads : (\A u \in Threads \ {t} : iterator'[u].removed = iterator[u].removed) =>
                Cardinality(Unreported') + iterator[t].removed = Cardinality(Unreported) + iterator'[t].removed
           /\ (\A t \in Threads : iterator'[t].removed = iterator[t].removed) => Unreported' = Unreported
<1> DEFINE c == [t \in Threads |-> iterator[t].removed]
           d == [t \in Threads |-> iterator'[t].removed]
<1>0. iterator \in [Threads -> Iterators] /\ iterator' \in [Threads -> Iterators] BY DEF IteratorTypes
<1>1. c \in [Threads -> Nat] /\ d \in [Threads -> Nat] BY <1>0, RemovalsOf
<1>2. Unreported = Pairs(c, Threads) /\ Unreported' = Pairs(d, Threads) BY <1>0, RemovalsOf DEF Unreported
<1>3. \A t \in Threads : c[t] = iterator[t].removed /\ d[t] = iterator'[t].removed OBVIOUS
<1> HIDE DEF c, d
<1>4. ASSUME NEW t \in Threads, \A u \in Threads \ {t} : iterator'[u].removed = iterator[u].removed
      PROVE  Cardinality(Unreported') + iterator[t].removed = Cardinality(Unreported) + iterator'[t].removed
  <2>1. Pairs(c, Threads \ {t}) = Pairs(d, Threads \ {t})
    <3>1. \A u \in Threads \ {t} : c[u] = d[u] BY <1>3, <1>4
    <3> QED BY <3>1, PairsSame
  <2> DEFINE R == Cardinality(Pairs(c, Threads \ {t}))
             N == Cardinality(Unreported)
             M == Cardinality(Unreported')
  <2>2. N = R + c[t] /\ R \in Nat BY <1>1, <1>2, ConstantsAssumption, PairsSplit
  <2>3. M = R + d[t] BY <1>1, <1>2, <2>1, ConstantsAssumption, PairsSplit
  <2>4. c[t] \in Nat /\ d[t] \in Nat BY <1>1
  <2> HIDE DEF R, N, M
  <2>5. M + c[t] = N + d[t] BY <2>2, <2>3, <2>4
  <2> QED BY <1>3, <2>5 DEF N, M
<1>5. ASSUME \A t \in Threads : iterator'[t].removed = iterator[t].removed PROVE Unreported' = Unreported
  <2>1. \A t \in Threads : c[t] = d[t] BY <1>3, <1>5
  <2> QED BY <1>2, <2>1, PairsSame
<1> QED BY <1>4, <1>5

SlotArrays == [Puddles -> [Places -> Entries]]
Full(f) == {x \in Spots : At(f, x) # Empty}

LEMMA SpotsAre ==
    /\ \A p \in Puddles, i \in Places : <<p, i>> \in Spots
    /\ \A x \in Spots : x[1] \in Puddles /\ x[2] \in Places /\ x = <<x[1], x[2]>>
    /\ \A f, p, i : At(f, <<p, i>>) = f[p][i]
    /\ \A p, i, q, j : <<p, i>> = <<q, j>> <=> p = q /\ i = j
  BY DEF Spots, At

LEMMA FullFinite ==
    ASSUME NEW f
    PROVE  IsFiniteSet(Full(f)) /\ Cardinality(Full(f)) \in Nat
<1>1. IsFiniteSet(Puddles) /\ IsFiniteSet(Places) BY FS_Interval, ConstantsAssumption DEF Puddles, Places
<1>2. IsFiniteSet(Spots) BY <1>1, FS_Product DEF Spots
<1>3. Full(f) \in SUBSET Spots BY DEF Full
<1>4. IsFiniteSet(Full(f)) BY <1>2, <1>3, FS_Subset
<1> QED BY <1>4, FS_CardinalityType

\* A puddle that does not exist is empty.
LEMMA FilledIs ==
    ASSUME SlotTypes, live \subseteq Puddles, EmptyInv
    PROVE  Filled = Full(slots)
<1>1. ASSUME NEW p \in Puddles, NEW i \in Places, slots[p][i] # Empty PROVE p \in live
  <2>1. ~(current[p] < i) BY <1>1 DEF EmptyInv
  <2>2. current[p] \in 0..GrowSize /\ i \in 1..GrowSize BY SlotTypeOf DEF Places
  <2>3. current[p] # 0 BY <2>1, <2>2, ConstantsAssumption
  <2> QED BY <2>3 DEF EmptyInv
<1> QED BY <1>1 DEF Filled, Full, Spots, At

LEMMA FilledNext ==
    ASSUME SlotTypes', live' \subseteq Puddles, EmptyInv'
    PROVE  Filled' = Full(slots')
<1>1. ASSUME NEW p \in Puddles, NEW i \in Places, slots'[p][i] # Empty PROVE p \in live'
  <2>1. ~(current'[p] < i) BY <1>1 DEF EmptyInv
  <2>2. current'[p] \in 0..GrowSize /\ i \in 1..GrowSize BY DEF SlotTypes, Places
  <2>3. current'[p] # 0 BY <2>1, <2>2, ConstantsAssumption
  <2> QED BY <2>3 DEF EmptyInv
<1> QED BY <1>1 DEF Filled, Full, Spots, At

\* A slot is written.
Put(f, p, i, e) == [f EXCEPT ![p][i] = e]

LEMMA Written ==
    ASSUME NEW f \in SlotArrays, NEW p \in Puddles, NEW i \in Places, NEW e \in Entries, NEW g,
           g = Put(f, p, i, e)
    PROVE  /\ g \in SlotArrays
           /\ \A q \in Puddles, j \in Places : g[q][j] = IF q = p /\ j = i THEN e ELSE f[q][j]
  BY DEF SlotArrays, Put

LEMMA AtWritten ==
    ASSUME NEW f, NEW p \in Puddles, NEW i \in Places, NEW e, NEW g,
           \A q \in Puddles, j \in Places : g[q][j] = IF q = p /\ j = i THEN e ELSE f[q][j]
    PROVE  At(g, <<p, i>>) = e /\ \A x \in Spots : x # <<p, i>> => At(g, x) = At(f, x)
<1>1. At(g, <<p, i>>) = e BY SpotsAre
<1>2. ASSUME NEW x \in Spots, x # <<p, i>> PROVE At(g, x) = At(f, x)
  <2>1. x[1] \in Puddles /\ x[2] \in Places /\ x = <<x[1], x[2]>> BY SpotsAre
  <2>2. ~(x[1] = p /\ x[2] = i) BY <1>2, <2>1
  <2> QED BY <2>1, <2>2 DEF At
<1> QED BY <1>1, <1>2

\* The flag is set or cleared.
LEMMA FlagWritten ==
    ASSUME NEW f, NEW g, NEW z \in Spots, NEW o \in Objects, HoldsAt(f, z, o),
           At(g, z) = Entry(o) \/ At(g, z) = Flagged(o),
           \A x \in Spots : x # z => At(g, x) = At(f, x)
    PROVE  /\ Full(g) = Full(f)
           /\ \A x \in Spots, u \in Objects : HoldsAt(g, x, u) <=> HoldsAt(f, x, u)
           /\ OneSlot(g) <=> OneSlot(f)
           /\ \A u \in Objects : HasSlot(g, u) <=> HasSlot(f, u)
<1>1. At(g, z) # Empty /\ At(g, z)[1] = o BY EntriesAre
<1>2. \A x \in Spots, u \in Objects : HoldsAt(g, x, u) <=> HoldsAt(f, x, u)
  <2> SUFFICES ASSUME NEW x \in Spots, NEW u \in Objects PROVE HoldsAt(g, x, u) <=> HoldsAt(f, x, u) OBVIOUS
  <2>1. CASE x = z BY <1>1, <2>1 DEF HoldsAt
  <2>2. CASE x # z BY <2>2 DEF HoldsAt
  <2> QED BY <2>1, <2>2
<1>3. Full(g) = Full(f) BY <1>1 DEF Full, HoldsAt
<1>4. OneSlot(g) <=> OneSlot(f) BY <1>2, Zenon DEF OneSlot
<1>5. \A u \in Objects : HasSlot(g, u) <=> HasSlot(f, u) BY <1>2, Zenon DEF HasSlot
<1> QED BY <1>2, <1>3, <1>4, <1>5

\* An object is written into a NULL slot.
LEMMA EntryWritten ==
    ASSUME NEW f, NEW g, NEW z \in Spots, NEW o \in Objects, At(f, z) = Empty, At(g, z) = Entry(o),
           \A x \in Spots : x # z => At(g, x) = At(f, x)
    PROVE  /\ Cardinality(Full(g)) = Cardinality(Full(f)) + 1
           /\ OneSlot(f) /\ ~HasSlot(f, o) => OneSlot(g)
           /\ \A u \in Objects : HasSlot(g, u) <=> HasSlot(f, u) \/ u = o
<1>1. At(g, z) # Empty /\ At(g, z)[1] = o BY EntriesAre
<1>2. \A x \in Spots, u \in Objects : HoldsAt(g, x, u) <=> HoldsAt(f, x, u) \/ (x = z /\ u = o)
  <2> SUFFICES ASSUME NEW x \in Spots, NEW u \in Objects
               PROVE  HoldsAt(g, x, u) <=> HoldsAt(f, x, u) \/ (x = z /\ u = o)
    OBVIOUS
  <2>1. CASE x = z BY <1>1, <2>1 DEF HoldsAt
  <2>2. CASE x # z BY <2>2 DEF HoldsAt
  <2> QED BY <2>1, <2>2
<1>3. Full(g) = Full(f) \cup {z} /\ z \notin Full(f) BY <1>1 DEF Full
<1>4. Cardinality(Full(g)) = Cardinality(Full(f)) + 1 BY <1>3, FullFinite, FS_AddElement
<1>5. OneSlot(f) /\ ~HasSlot(f, o) => OneSlot(g) BY <1>2 DEF OneSlot, HasSlot
<1>6. \A u \in Objects : HasSlot(g, u) <=> HasSlot(f, u) \/ u = o BY <1>2 DEF HasSlot
<1> QED BY <1>4, <1>5, <1>6

\* The slots change places, and those in D are dropped.
Rearranges(f, g, pi, D) ==
    /\ pi \in [Spots -> Spots] /\ \A x \in Spots : pi[pi[x]] = x
    /\ D \in SUBSET Full(f)
    /\ \A x \in Spots : At(g, x) = IF pi[x] \in D THEN Empty ELSE At(f, pi[x])

LEMMA Rearranged ==
    ASSUME NEW f, NEW g, NEW pi, NEW D, Rearranges(f, g, pi, D)
    PROVE  /\ Cardinality(Full(g)) = Cardinality(Full(f)) - Cardinality(D)
           /\ \A x \in Spots, o \in Objects : HoldsAt(g, x, o) <=> HoldsAt(f, pi[x], o) /\ pi[x] \notin D
           /\ OneSlot(f) => OneSlot(g)
           /\ \A o \in Objects : HasSlot(g, o) <=> \E x \in Spots \ D : HoldsAt(f, x, o)
<1> USE DEF Rearranges
<1> DEFINE S == Full(g)
           T == Full(f) \ D
           h == [x \in S |-> pi[x]]
<1>1. \A x \in S : pi[x] \in T BY DEF Full
<1>2. \A y \in T : pi[y] \in S /\ pi[pi[y]] = y BY DEF Full
<1>3. \A x, y \in S : pi[x] = pi[y] => x = y
  <2>1. \A x \in S : pi[pi[x]] = x BY DEF Full
  <2> QED BY <2>1
<1>4. h \in Bijection(S, T)
  <2> HIDE DEF S, T
  <2>1. h \in [S -> T] BY <1>1
  <2>2. \A x, y \in S : h[x] = h[y] => x = y BY <1>3
  <2>3. \A y \in T : \E x \in S : h[x] = y BY <1>2
  <2> QED BY <2>1, <2>2, <2>3 DEF Bijection, Injection, Surjection, IsInjective
<1>5. Cardinality(S) = Cardinality(T)
  <2>1. IsFiniteSet(S) BY FullFinite
  <2>2. ExistsBijection(S, T) BY <1>4 DEF ExistsBijection
  <2> HIDE DEF S, T
  <2> QED BY <2>1, <2>2, FS_Bijection
<1>6. Cardinality(T) = Cardinality(Full(f)) - Cardinality(D)
  <2>1. Full(f) \cap D = D OBVIOUS
  <2> QED BY <2>1, FullFinite, FS_Difference
<1>7. \A x \in Spots, o \in Objects : HoldsAt(g, x, o) <=> HoldsAt(f, pi[x], o) /\ pi[x] \notin D BY DEF HoldsAt
<1>8. OneSlot(f) => OneSlot(g)
  <2> SUFFICES ASSUME OneSlot(f), NEW x \in Spots, NEW y \in Spots, NEW o \in Objects, HoldsAt(g, x, o), HoldsAt(g, y, o)
               PROVE  x = y
    BY DEF OneSlot
  <2>1. HoldsAt(f, pi[x], o) /\ HoldsAt(f, pi[y], o) BY <1>7
  <2>2. pi[x] = pi[y] BY <2>1 DEF OneSlot
  <2>3. pi[pi[x]] = x /\ pi[pi[y]] = y OBVIOUS
  <2> QED BY <2>2, <2>3
<1>9. ASSUME NEW o \in Objects PROVE HasSlot(g, o) <=> \E x \in Spots \ D : HoldsAt(f, x, o)
  <2>1. ASSUME NEW x \in Spots, HoldsAt(g, x, o) PROVE \E y \in Spots \ D : HoldsAt(f, y, o)
    <3>1. pi[x] \in Spots \ D /\ HoldsAt(f, pi[x], o) BY <1>7, <2>1
    <3> QED BY <3>1
  <2>2. ASSUME NEW y \in Spots \ D, HoldsAt(f, y, o) PROVE \E x \in Spots : HoldsAt(g, x, o)
    <3>1. pi[y] \in Spots /\ pi[pi[y]] = y OBVIOUS
    <3>2. HoldsAt(g, pi[y], o) BY <1>7, <2>2, <3>1
    <3> QED BY <3>1, <3>2
  <2> QED BY <2>1, <2>2 DEF HasSlot
<1> QED BY <1>5, <1>6, <1>7, <1>8, <1>9 DEF S, T

\* removeSlot: the last slot takes the place of the one that is removed.
Removes(f, g, p, i, k) ==
    \A q \in Puddles, j \in Places :
        g[q][j] = IF q = p /\ j = k THEN Empty ELSE IF q = p /\ j = i THEN f[p][k] ELSE f[q][j]

Without(f, p, i, k) == [f EXCEPT ![p][i] = f[p][k], ![p][k] = Empty]

LEMMA RemoveIs ==
    ASSUME NEW f \in SlotArrays, NEW p \in Puddles, NEW i \in Places, NEW k \in Places, NEW g,
           g = Without(f, p, i, k)
    PROVE  g \in SlotArrays /\ Removes(f, g, p, i, k)
<1>1. g \in SlotArrays BY EntriesAre DEF SlotArrays, Without
<1>2. Removes(f, g, p, i, k) BY DEF SlotArrays, Removes, Without
<1> QED BY <1>1, <1>2

LEMMA SlotRemoved ==
    ASSUME NEW f, NEW g, NEW p \in Puddles, NEW i \in Places, NEW k \in Places, Removes(f, g, p, i, k)
    PROVE  /\ Cardinality(Full(g)) = Cardinality(Full(f)) - IF f[p][i] = Empty THEN 0 ELSE 1
           /\ OneSlot(f) => OneSlot(g)
           /\ \A o \in Objects : HasSlot(g, o) <=> \E x \in Spots \ {<<p, i>>} : HoldsAt(f, x, o)
<1>2. \A q \in Puddles, j \in Places :
        g[q][j] = IF q = p /\ j = k THEN Empty ELSE IF q = p /\ j = i THEN f[p][k] ELSE f[q][j]
  BY DEF Removes
<1> DEFINE y == <<p, i>>
           z == <<p, k>>
           pi == [x \in Spots |-> IF x = y THEN z ELSE IF x = z THEN y ELSE x]
           D == IF f[p][i] = Empty THEN {} ELSE {y}
<1>3. y \in Spots /\ z \in Spots /\ At(f, y) = f[p][i] /\ At(f, z) = f[p][k] BY SpotsAre
<1>4. At(g, z) = Empty /\ (y # z => At(g, y) = At(f, z))
  <2>1. At(g, z) = g[p][k] /\ At(g, y) = g[p][i] /\ (y # z => i # k) BY SpotsAre
  <2>2. g[p][k] = Empty /\ (i # k => g[p][i] = f[p][k]) BY <1>2
  <2> QED BY <1>3, <2>1, <2>2
<1>5. ASSUME NEW x \in Spots, x # y, x # z PROVE At(g, x) = At(f, x)
  <2>1. x[1] \in Puddles /\ x[2] \in Places /\ x = <<x[1], x[2]>> BY SpotsAre
  <2>2. ~(x[1] = p /\ x[2] = i) /\ ~(x[1] = p /\ x[2] = k) BY <1>5, <2>1
  <2> QED BY <1>2, <2>1, <2>2 DEF At
<1>6. D \in SUBSET Full(f) /\ (y \notin D => At(f, y) = Empty) /\ D \subseteq {y} BY <1>3 DEF Full
<1>7. Cardinality(D) = IF f[p][i] = Empty THEN 0 ELSE 1 BY FS_EmptySet, FS_Singleton
<1> HIDE DEF y, z, D
<1>8. pi \in [Spots -> Spots] /\ \A x \in Spots : pi[pi[x]] = x BY <1>3
<1>9. pi[y] = z /\ pi[z] = y /\ \A x \in Spots : x # y /\ x # z => pi[x] = x BY <1>3
<1> HIDE DEF pi
<1>10. ASSUME NEW x \in Spots PROVE At(g, x) = IF pi[x] \in D THEN Empty ELSE At(f, pi[x])
  <2>1. CASE x = z BY <1>4, <1>6, <1>9, <2>1
  <2>2. CASE x # z /\ x = y BY <1>4, <1>6, <1>9, <2>2
  <2>3. CASE x # z /\ x # y BY <1>5, <1>6, <1>9, <2>3
  <2> QED BY <2>1, <2>2, <2>3
<1>11. /\ Cardinality(Full(g)) = Cardinality(Full(f)) - Cardinality(D)
       /\ OneSlot(f) => OneSlot(g)
       /\ \A o \in Objects : HasSlot(g, o) <=> \E x \in Spots \ D : HoldsAt(f, x, o)
  <2>1. Rearranges(f, g, pi, D) BY <1>6, <1>8, <1>10 DEF Rearranges
  <2> QED BY <2>1, Rearranged
<1>12. \A o \in Objects : (\E x \in Spots \ D : HoldsAt(f, x, o)) <=> \E x \in Spots \ {y} : HoldsAt(f, x, o)
  BY <1>6 DEF HoldsAt
<1> QED BY <1>7, <1>11, <1>12 DEF y

\* The n last of the b slots of a puddle are moved behind the a slots of another one.
IsMerge(f, g, to, from, a, b, n) ==
    /\ f \in SlotArrays /\ to \in Puddles /\ from \in Puddles /\ to # from
    /\ a \in Nat /\ b \in Nat /\ n \in Nat /\ n <= b /\ b <= GrowSize /\ a + n <= GrowSize
    /\ \A j \in Places : a < j => f[to][j] = Empty
    /\ \A j \in Places : b < j => f[from][j] = Empty
    /\ g \in SlotArrays
    /\ \A j \in Places : g[to][j] = IF j \in a + 1 .. a + n THEN f[from][(b - n) + (j - a)] ELSE f[to][j]
    /\ \A j \in Places : g[from][j] = IF j > b - n THEN Empty ELSE f[from][j]
    /\ \A q \in Puddles : q # to /\ q # from => g[q] = f[q]

\* merge(): slots from the end of one puddle go behind the front of another.
LEMMA SlotsMoved ==
    ASSUME NEW f, NEW g, NEW to, NEW from, NEW a, NEW b, NEW n, IsMerge(f, g, to, from, a, b, n)
    PROVE  /\ Cardinality(Full(g)) = Cardinality(Full(f)) /\ (OneSlot(f) => OneSlot(g))
           /\ \A o \in Objects : HasSlot(g, o) <=> HasSlot(f, o)
           /\ \A x \in Spots : \E y \in Spots : At(g, x) = At(f, y)
<1>a. /\ f \in SlotArrays /\ to \in Puddles /\ from \in Puddles /\ to # from
      /\ a \in Nat /\ b \in Nat /\ n \in Nat /\ n <= b /\ b <= GrowSize /\ a + n <= GrowSize
      /\ \A j \in Places : a < j => f[to][j] = Empty
      /\ \A j \in Places : b < j => f[from][j] = Empty
      /\ g \in SlotArrays
      /\ \A j \in Places : g[to][j] = IF j \in a + 1 .. a + n THEN f[from][(b - n) + (j - a)] ELSE f[to][j]
      /\ \A j \in Places : g[from][j] = IF j > b - n THEN Empty ELSE f[from][j]
      /\ \A q \in Puddles : q # to /\ q # from => g[q] = f[q]
  BY DEF IsMerge
<1> USE <1>a
<1> DEFINE In(x) == x[1] = to /\ x[2] \in a + 1 .. a + n
           Out(x) == x[1] = from /\ x[2] \in b - n + 1 .. b
           pi == [x \in Spots |-> IF In(x) THEN <<from, (b - n) + (x[2] - a)>>
                                  ELSE IF Out(x) THEN <<to, a + (x[2] - (b - n))>> ELSE x]
<1>0. GrowSize \in Nat /\ Places = 1..GrowSize BY ConstantsAssumption DEF Places
<1>1. ASSUME NEW x \in Spots, In(x)
      PROVE  LET y == <<from, (b - n) + (x[2] - a)>> IN
             y \in Spots /\ Out(y) /\ ~In(y) /\ a + (y[2] - (b - n)) = x[2] /\ x[1] = to
  <2>1. x[2] - a \in 1..n /\ x[2] \in Nat BY <1>1
  <2>2. (b - n) + (x[2] - a) \in Places /\ (b - n) + (x[2] - a) \in b - n + 1 .. b
    <3>1. \A k \in 1..n : (b - n) + k \in 1..GrowSize /\ (b - n) + k \in b - n + 1 .. b BY <1>0
    <3> QED BY <1>0, <2>1, <3>1
  <2>3. a + (((b - n) + (x[2] - a)) - (b - n)) = x[2] BY <2>1
  <2> QED BY <1>1, <2>2, <2>3, SpotsAre
<1>2. ASSUME NEW x \in Spots, Out(x)
      PROVE  LET y == <<to, a + (x[2] - (b - n))>> IN
             y \in Spots /\ In(y) /\ (b - n) + (y[2] - a) = x[2] /\ x[1] = from
  <2>1. x[2] - (b - n) \in 1..n /\ x[2] \in Nat BY <1>0, <1>2, SpotsAre
  <2>2. a + (x[2] - (b - n)) \in Places /\ a + (x[2] - (b - n)) \in a + 1 .. a + n
    <3>1. \A k \in 1..n : a + k \in 1..GrowSize /\ a + k \in a + 1 .. a + n BY <1>0
    <3> QED BY <1>0, <2>1, <3>1
  <2>3. (b - n) + ((a + (x[2] - (b - n))) - a) = x[2] BY <2>1
  <2> QED BY <1>2, <2>2, <2>3, SpotsAre
<1>3. \A x \in Spots : ~(In(x) /\ Out(x)) OBVIOUS
<1>4. pi \in [Spots -> Spots] BY <1>1, <1>2
<1>5. ASSUME NEW x \in Spots PROVE pi[pi[x]] = x
  <2>1. CASE In(x)
    <3> DEFINE y == <<from, (b - n) + (x[2] - a)>>
    <3>1. pi[x] = y BY <2>1
    <3>2. y \in Spots /\ Out(y) /\ ~In(y) /\ a + (y[2] - (b - n)) = x[2] /\ x[1] = to BY <1>1, <2>1
    <3>3. pi[y] = <<to, a + (y[2] - (b - n))>> BY <3>2
    <3> QED BY <3>1, <3>2, <3>3, SpotsAre
  <2>2. CASE Out(x)
    <3> DEFINE y == <<to, a + (x[2] - (b - n))>>
    <3>1. pi[x] = y BY <1>3, <2>2
    <3>2. y \in Spots /\ In(y) /\ (b - n) + (y[2] - a) = x[2] /\ x[1] = from BY <1>2, <2>2
    <3>3. pi[y] = <<from, (b - n) + (y[2] - a)>> BY <3>2
    <3> QED BY <3>1, <3>2, <3>3, SpotsAre
  <2>3. CASE ~In(x) /\ ~Out(x) BY <2>3
  <2> QED BY <2>1, <2>2, <2>3
<1>6. ASSUME NEW x \in Spots PROVE At(g, x) = At(f, pi[x])
  <2>0. x[1] \in Puddles /\ x[2] \in Places /\ x = <<x[1], x[2]>> /\ x[2] \in Nat BY <1>0, SpotsAre
  <2>1. CASE In(x)
    <3>1. pi[x] = <<from, (b - n) + (x[2] - a)>> BY <2>1
    <3>2. At(f, pi[x]) = f[from][(b - n) + (x[2] - a)] BY <3>1 DEF At
    <3>3. At(g, x) = g[to][x[2]] BY <2>1 DEF At
    <3> QED BY <2>0, <2>1, <3>2, <3>3
  <2>2. CASE Out(x)
    <3> DEFINE y == <<to, a + (x[2] - (b - n))>>
    <3>1. pi[x] = y BY <1>3, <2>2
    <3>2. y \in Spots /\ In(y) BY <1>2, <2>2
    <3>3. y[2] \in Places /\ a < y[2] /\ At(f, y) = f[to][y[2]] BY <1>0, <3>2, SpotsAre DEF At
    <3>4. At(f, y) = Empty BY <3>3
    <3>5. At(g, x) = g[from][x[2]] /\ x[2] > b - n BY <2>0, <2>2 DEF At
    <3> QED BY <2>0, <3>1, <3>4, <3>5
  <2>3. CASE ~In(x) /\ ~Out(x)
    <3>1. pi[x] = x BY <2>3
    <3>2. At(g, x) = g[x[1]][x[2]] /\ At(f, x) = f[x[1]][x[2]] BY DEF At
    <3>3. CASE x[1] = to BY <2>0, <2>3, <3>1, <3>2, <3>3
    <3>4. CASE x[1] = from
      <4>1. x[2] > b - n => b < x[2] BY <2>0, <2>3, <3>4
      <4> QED BY <2>0, <3>1, <3>2, <3>4, <4>1
    <3>5. CASE x[1] # to /\ x[1] # from BY <2>0, <3>1, <3>2, <3>5
    <3> QED BY <3>3, <3>4, <3>5
  <2> QED BY <2>1, <2>2, <2>3
<1> HIDE DEF pi
<1>7. {} \in SUBSET Full(f) /\ \A x \in Spots : At(g, x) = IF pi[x] \in {} THEN Empty ELSE At(f, pi[x]) BY <1>6
<1>8. /\ Cardinality(Full(g)) = Cardinality(Full(f)) - Cardinality({})
      /\ OneSlot(f) => OneSlot(g)
      /\ \A o \in Objects : HasSlot(g, o) <=> \E x \in Spots \ {} : HoldsAt(f, x, o)
  <2>1. Rearranges(f, g, pi, {}) BY <1>4, <1>5, <1>7 DEF Rearranges
  <2> QED BY <2>1, Rearranged
<1>9. Cardinality(Full(g)) = Cardinality(Full(f)) BY <1>8, FullFinite, FS_EmptySet
<1>10. \A o \in Objects : HasSlot(g, o) <=> HasSlot(f, o) BY <1>8 DEF HasSlot
<1>11. \A x \in Spots : \E y \in Spots : At(g, x) = At(f, y) BY <1>4, <1>6
<1> QED BY <1>8, <1>9, <1>10, <1>11

-----------------------------------------------------------------------------
(* What a step leaves alone. *)

LEMMA AddFrame ==
    ASSUME AddInv, UNCHANGED addVars,
           \A t \in Threads : pc'[t] = pc[t] \/ (pc[t] \notin AddPlaces /\ pc'[t] \notin AddPlaces),
           \A t \in Threads : seen[t] # 0 => seen[t] \in Range(list')
    PROVE  AddInv'
  BY DEF AddInv, addVars, AddPlaces

LEMMA FragmentFrame ==
    ASSUME FragmentInv, UNCHANGED <<fragment, back>>,
           \A t \in Threads : \/ pc'[t] = pc[t]
                              \/ /\ pc[t] \notin AddPlaces /\ pc'[t] \notin AddPlaces
                                 /\ fragment[t].count = 0 \/ pc'[t] \in {"run", "scan", "rebuild"}
    PROVE  FragmentInv'
  BY DEF FragmentInv, AddPlaces, Stage, HasRoom

LEMMA RoomFrame ==
    ASSUME RoomInv, \A t \in Threads : HasRoom(t)' => fragment'[t] = fragment[t],
           \A t \in Threads : HasRoom(t) =>
              /\ fragment[t].puddle \in Range(list')
              /\ current'[fragment[t].puddle] = current[fragment[t].puddle]
              /\ \A i \in Places : fragment[t].next <= i /\ i < fragment[t].top =>
                   slots'[fragment[t].puddle][i] = slots[fragment[t].puddle][i]
    PROVE  RoomInv'
<1>1. \A t \in Threads : HasRoom(t)' => HasRoom(t) /\ fragment'[t] = fragment[t] BY DEF HasRoom
<1> QED BY <1>1 DEF RoomInv

LEMMA LinkFrame ==
    ASSUME LinkInv, UNCHANGED <<list, previous, rest, dest, live, alloc>>,
           Holders' = Holders, \A t \in Holders : held'[t] = held[t],
           \A t \in Threads : held'[t] # 0 => pc'[t] \in WorkPlaces,
           previous # <<>> => InStages(ScanStages \ {"scan"})',
           CompactPhase' <=> CompactPhase
    PROVE  LinkInv'
<1>1. HeldPuddles' = HeldPuddles BY DEF HeldPuddles
<1> QED BY <1>1 DEF LinkInv, WorkPlaces

LEMMA UnitFrame ==
    ASSUME UnitInv, UNCHANGED units, Range(list) \subseteq Range(list'),
           \A t \in Threads : pc'[t] = "pruneSlots" => pc[t] = "pruneSlots" /\ held'[t] = held[t],
           units # <<>> => InStages({"prune", "pruneSlots"})' /\ ~overflow'
    PROVE  UnitInv'
  BY DEF UnitInv

LEMMA SplitFrame ==
    ASSUME SplitInv, splits' \subseteq splits, splits' # {} => ScanPhase' /\ ~overflowAtStart',
           Range(previous') \subseteq Range(previous),
           \A s \in splits' : slots'[s[1]][s[2]] = slots[s[1]][s[2]],
           \A t \in Threads : /\ held'[t] = held[t] /\ iterator'[t] = iterator[t]
                              /\ pc'[t] \in {"slots", "verdict"} => pc'[t] = pc[t]
    PROVE  SplitInv'
  BY DEF SplitInv

LEMMA SlotFrame ==
    ASSUME SlotInv, UNCHANGED <<slots, remembered>>, overflow' = overflow \/ overflow',
           \A o \in Objects : OnItsWay(o)' <=> OnItsWay(o)
    PROVE  SlotInv'
  BY DEF SlotInv

LEMMA FlagFrame ==
    ASSUME FlagInv, UNCHANGED <<slots, young, splits>>, overflow' = overflow \/ overflow',
           (RunPhase' <=> RunPhase) /\ (CompactPhase' <=> CompactPhase),
           (ScanPhase' <=> ScanPhase) /\ (PrunePhase' <=> PrunePhase),
           \A p \in Puddles, i \in Places : (Ahead(p, i)' <=> Ahead(p, i)) /\ (Pending(p, i)' <=> Pending(p, i)),
           \A p \in Puddles, i \in Places : Unpruned(p, i)' <=> Unpruned(p, i)
    PROVE  FlagInv'
  BY DEF FlagInv, FlaggedRight, EntryRight

LEMMA CountFrame ==
    ASSUME CountExact, UNCHANGED <<count, live, slots, fragment, iterator>>
    PROVE  CountExact'
  BY DEF CountExact, Uncounted, Unreported, Filled

\* A step that adds an object moves no other thread, no iterator and no phase.
LEMMA WorkFrame ==
    ASSUME IInv, SameStages, SameWork, UNCHANGED <<previous, overflowAtStart, units, splits>>,
           Range(list) \subseteq Range(list'), overflow' = overflow \/ units = <<>>, ScanPhase => ScanPhase',
           \A p \in Puddles : /\ current'[p] \in Nat /\ current[p] <= current'[p]
                              /\ \A i \in Places : slots[p][i] # Empty => slots'[p][i] = slots[p][i]
    PROVE  IteratorInv' /\ UnitInv' /\ SplitInv'
<1>1. SlotTypes /\ PoolTypes /\ IteratorTypes BY TypeIs DEF IInv
<1>2. IteratorInv'
  <2> SUFFICES ASSUME NEW t \in Threads
               PROVE  /\ pc'[t] \in {"slots", "verdict", "pruneSlots"} => held'[t] # 0 /\ iterator'[t].scan # 0
                      /\ pc'[t] = "verdict" => iterator'[t].scan <= current'[held'[t]] /\ Slot(t)' # Empty
                      /\ iterator'[t].removed # 0 => pc'[t] = "pruneSlots"
    BY DEF IteratorInv
  <2>1. /\ held'[t] = held[t] /\ iterator'[t] = iterator[t]
        /\ pc[t] \in WorkPlaces \/ pc'[t] \in WorkPlaces => pc'[t] = pc[t]
    BY DEF SameWork
  <2>2. CASE pc[t] \in WorkPlaces
    <3>1. pc'[t] = pc[t] BY <2>1, <2>2
    <3>2. ASSUME pc[t] = "verdict" PROVE iterator'[t].scan <= current'[held'[t]] /\ Slot(t)' # Empty
      <4>1. held[t] # 0 /\ iterator[t].scan # 0 /\ iterator[t].scan <= current[held[t]] /\ Slot(t) # Empty
        BY <3>2 DEF IInv, IteratorInv
      <4>2. held[t] \in Puddles BY <1>1, <4>1 DEF PoolTypes
      <4>3. current[held[t]] \in 0..GrowSize /\ iterator[t].scan \in Nat BY <1>1, <4>2, SlotTypeOf, IteratorOf
      <4>4. iterator[t].scan \in Places BY <4>1, <4>3, ConstantsAssumption DEF Places
      <4>5. Slot(t)' = Slot(t) BY <2>1, <4>1, <4>2, <4>4 DEF Slot
      <4>6. iterator[t].scan <= current'[held[t]] BY <4>1, <4>2, <4>3
      <4> QED BY <2>1, <4>1, <4>5, <4>6
    <3> QED BY <2>1, <3>1, <3>2 DEF IInv, IteratorInv
  <2>3. CASE pc[t] \notin WorkPlaces
    <3>1. pc'[t] \notin WorkPlaces /\ iterator[t].removed = 0 BY <2>1, <2>3 DEF IInv, IteratorInv, WorkPlaces
    <3> QED BY <2>1, <3>1 DEF WorkPlaces
  <2> QED BY <2>2, <2>3
<1>3. UnitInv'
  <2>1. \A t \in Threads : pc'[t] = "pruneSlots" => pc[t] = "pruneSlots" /\ held'[t] = held[t]
    BY DEF SameWork, WorkPlaces
  <2>2. units # <<>> => InStages({"prune", "pruneSlots"})' /\ ~overflow' BY StagesSame DEF IInv, UnitInv
  <2> QED BY <2>1, <2>2, UnitFrame DEF IInv
<1>4. SplitInv'
  <2>1. \A s \in splits : s[1] \in Puddles /\ s[2] \in Places /\ s[3] \in Objects BY <1>1 DEF PoolTypes
  <2>2. \A s \in splits : slots[s[1]][s[2]] # Empty BY <2>1, EntriesAre DEF IInv, SplitInv
  <2>3. \A s \in splits : slots'[s[1]][s[2]] = slots[s[1]][s[2]] BY <2>1, <2>2
  <2>4. \A t \in Threads : /\ held'[t] = held[t] /\ iterator'[t] = iterator[t]
                           /\ pc'[t] \in {"slots", "verdict"} => pc'[t] = pc[t]
    BY DEF SameWork, WorkPlaces
  <2>5. splits # {} => ScanPhase' /\ ~overflowAtStart' BY DEF IInv, SplitInv
  <2> QED BY <2>3, <2>4, <2>5, SplitFrame DEF IInv
<1> QED BY <1>2, <1>3, <1>4

LEMMA OneMoves ==
    ASSUME NEW t \in Threads, UNCHANGED scanVars,
           \A u \in Threads \ {t} : pc'[u] = pc[u] /\ back'[u] = back[u],
           Stage(t)' = Stage(t), pc[t] \notin WorkPlaces, pc'[t] \notin WorkPlaces
    PROVE  SameStages /\ SameWork
  BY DEF SameStages, SameWork, Stage, scanVars

LEMMA LinkSame ==
    ASSUME LinkInv, SameStages, SameWork, UNCHANGED <<list, previous, rest, dest, live, alloc>>
    PROVE  LinkInv'
<1>1. Holders' = Holders BY WorkSame
<1>2. \A t \in Holders : held'[t] = held[t] BY DEF Holders, SameWork
<1>3. \A t \in Threads : held'[t] # 0 => pc'[t] \in WorkPlaces BY DEF SameWork, LinkInv, WorkPlaces
<1>4. previous # <<>> => InStages(ScanStages \ {"scan"})' BY StagesSame DEF LinkInv
<1>5. CompactPhase' <=> CompactPhase BY StagesSame
<1> QED BY <1>1, <1>2, <1>3, <1>4, <1>5, LinkFrame

\* A slot that holds an object holds one that is remembered and not on its way.
LEMMA HeldIsRemembered ==
    ASSUME SlotInv, ~overflow, NEW p \in Puddles, NEW i \in Places, NEW o \in Objects,
           slots[p][i] = Entry(o) \/ slots[p][i] = Flagged(o)
    PROVE  HasSlot(slots, o) /\ o \in remembered /\ ~OnItsWay(o)
<1>1. <<p, i>> \in Spots /\ At(slots, <<p, i>>) = slots[p][i] BY SpotsAre
<1>2. HoldsAt(slots, <<p, i>>, o) BY <1>1, EntriesAre DEF HoldsAt
<1>3. HasSlot(slots, o) BY <1>1, <1>2 DEF HasSlot
<1> QED BY <1>3 DEF SlotInv

-----------------------------------------------------------------------------
(* Adding an object. *)

LEMMA RememberObjectStep ==
    ASSUME IInv, NEW t \in Threads, NEW o \in Objects, RememberObject(t, o)
    PROVE  IInv'
<1>1. /\ SlotTypes /\ PoolTypes /\ ObjectTypes /\ PcTypes /\ NumberTypes /\ FlagTypes /\ FragmentTypes
      /\ IteratorTypes
  BY TypeIs DEF IInv
<1>2. /\ pc[t] \in {"run", "scan"} /\ o \notin remembered /\ remembered' = remembered \cup {o}
      /\ young' = IF pc[t] = "scan" THEN young \cup {o} ELSE young
      /\ object' = [object EXCEPT ![t] = o] /\ back' = [back EXCEPT ![t] = pc[t]]
      /\ pc' = [pc EXCEPT ![t] = "add"]
  BY DEF RememberObject, Goto
<1>3. /\ UNCHANGED <<live, list, alloc, previous, currentSize, rest, dest, slots, current, count, overflow>>
      /\ UNCHANGED <<overflowAtStart, units, walk, cycles, splits, seen, fragment, held, iterator>>
  BY DEF RememberObject, poolVars, compactVars, puddleVars, cycleVars, scanVars
<1>4. /\ pc'[t] = "add" /\ back'[t] = pc[t] /\ object'[t] = o
      /\ \A u \in Threads \ {t} : pc'[u] = pc[u] /\ back'[u] = back[u] /\ object'[u] = object[u]
  BY <1>1, <1>2 DEF PcTypes, ObjectTypes
<1>5. SameStages /\ SameWork
  <2>1. Stage(t)' = Stage(t) /\ pc[t] \notin WorkPlaces /\ pc'[t] \notin WorkPlaces
    BY <1>2, <1>4 DEF Stage, AddPlaces, WorkPlaces
  <2> QED BY <1>3, <1>4, <2>1, OneMoves DEF scanVars
<1>6. TypeOK'
  <2>1. PcTypes' BY <1>1, <1>2 DEF PcTypes, Pcs
  <2>2. ObjectTypes' BY <1>1, <1>2, <1>3 DEF ObjectTypes
  <2>3. SlotTypes' /\ PoolTypes' /\ NumberTypes' /\ FlagTypes' /\ FragmentTypes' /\ IteratorTypes'
    BY <1>1, <1>3 DEF SlotTypes, PoolTypes, NumberTypes, FlagTypes, FragmentTypes, IteratorTypes
  <2> QED BY <2>1, <2>2, <2>3, TypeNext
<1>7. /\ PhaseInv' /\ (RunPhase' <=> RunPhase) /\ (CompactPhase' <=> CompactPhase)
      /\ (ScanPhase' <=> ScanPhase) /\ (PrunePhase' <=> PrunePhase) /\ (RebuildPhase' <=> RebuildPhase)
      /\ (DonePhase' <=> DonePhase)
  BY <1>3, <1>5, StagesSame, PhasesSame DEF IInv
<1>8. object[t] = None /\ pc[t] \notin AddPlaces BY <1>2 DEF IInv, AddInv, AddPlaces
<1>9. AddInv'
  <2>1. \A u \in Threads \ {t} : /\ object'[u] # None <=> pc'[u] \in AddPlaces
                                 /\ back'[u] # "run" => pc'[u] \in AddPlaces
                                 /\ seen'[u] # 0 => pc'[u] = "bump" /\ seen'[u] \in Range(list')
    BY <1>3, <1>4 DEF IInv, AddInv
  <2>2. object'[t] # None /\ pc'[t] \in AddPlaces BY <1>4, ConstantsAssumption DEF AddPlaces
  <2>3. seen'[t] = 0 BY <1>2, <1>3 DEF IInv, AddInv
  <2> QED BY <2>1, <2>2, <2>3 DEF AddInv
<1>10. FragmentInv'
  <2>1. \A u \in Threads \ {t} : Stage(u)' = Stage(u) BY <1>4 DEF Stage
  <2>2. Stage(t)' = pc[t] BY <1>4 DEF Stage, AddPlaces
  <2> QED BY <1>2, <1>3, <1>4, <2>1, <2>2 DEF IInv, FragmentInv, HasRoom
<1>11. RoomInv' /\ EmptyInv' BY <1>3 DEF IInv, RoomInv, EmptyInv, HasRoom
<1>12. LinkInv' BY <1>3, <1>5, LinkSame DEF IInv
<1>13. IteratorInv' /\ UnitInv' /\ SplitInv'
  <2>1. \A p \in Puddles : current[p] \in Nat BY <1>1, ConstantsAssumption DEF SlotTypes
  <2>2. \A p \in Puddles : current[p] <= current[p] BY <2>1
  <2> QED BY <1>3, <1>5, <1>7, <2>1, <2>2, WorkFrame
<1>14. ObjectInv'
  <2>1. young' \subseteq remembered' /\ walk' \subseteq remembered' BY <1>2, <1>3 DEF IInv, ObjectInv
  <2>2. ASSUME NEW u \in Threads, object'[u] # None
        PROVE  /\ object'[u] \in remembered' \ walk'
               /\ \A v \in Threads : object'[v] = object'[u] => v = u
               /\ back'[u] # "run" => object'[u] \in young'
    <3>1. \A v \in Threads \ {t} : object[v] # None => object[v] # o BY <1>2 DEF IInv, ObjectInv
    <3>2. CASE u = t
      <4>1. o \in remembered' \ walk' BY <1>2, <1>3 DEF IInv, ObjectInv
      <4>2. \A v \in Threads : object'[v] = o => v = t BY <1>4, <3>1, ConstantsAssumption
      <4>3. back'[t] # "run" => o \in young' BY <1>2, <1>4
      <4> QED BY <1>4, <3>2, <4>1, <4>2, <4>3
    <3>3. CASE u # t
      <4>1. object'[u] = object[u] /\ back'[u] = back[u] BY <1>4, <3>3
      <4>2. /\ object[u] \in remembered \ walk /\ \A v \in Threads : object[v] = object[u] => v = u
            /\ back[u] # "run" => object[u] \in young
        BY <2>2, <4>1 DEF IInv, ObjectInv
      <4>3. \A v \in Threads : object'[v] = object'[u] => v = u BY <1>2, <1>4, <4>1, <4>2
      <4> QED BY <1>2, <1>3, <4>1, <4>2, <4>3
    <3> QED BY <3>2, <3>3
  <2>3. walk' # {} => RebuildPhase' BY <1>3, <1>7 DEF IInv, ObjectInv
  <2> QED BY <2>1, <2>2, <2>3 DEF ObjectInv
<1>15. \A u \in Objects : OnItsWay(u)' <=> OnItsWay(u) \/ u = o
  BY <1>3, <1>4, <1>8, ConstantsAssumption DEF OnItsWay
<1>16. SlotInv' BY <1>2, <1>3, <1>15 DEF IInv, SlotInv
<1>17. FlagInv'
  <2> SUFFICES ASSUME ~overflow, NEW p \in Puddles, NEW i \in Places, NEW u \in Objects
               PROVE  /\ slots[p][i] = Flagged(u) => FlaggedRight(p, i, u)'
                      /\ slots[p][i] = Entry(u) => EntryRight(p, i, u)'
    BY <1>3 DEF FlagInv
  <2>1. slots[p][i] = Flagged(u) \/ slots[p][i] = Entry(u) => (u \in young' <=> u \in young)
    BY <1>2, HeldIsRemembered DEF IInv
  <2>2. /\ slots[p][i] = Flagged(u) => FlaggedRight(p, i, u)
        /\ slots[p][i] = Entry(u) => EntryRight(p, i, u)
    BY DEF IInv, FlagInv
  <2>3. (Ahead(p, i)' <=> Ahead(p, i)) /\ (Pending(p, i)' <=> Pending(p, i)) /\ (Unpruned(p, i)' <=> Unpruned(p, i))
    BY <1>3, <1>5, WorkSame
  <2> QED BY <1>3, <1>7, <2>1, <2>2, <2>3 DEF FlaggedRight, EntryRight
<1>18. DoneInv'
  <2>1. ~RebuildPhase /\ ~DonePhase
    <3>1. Stage(t) \in {"run", "scan"} BY <1>2, <1>8 DEF Stage
    <3> QED BY <1>1, <3>1, PhaseOf, Exclusive DEF IInv, ScanStages
  <2> QED BY <1>7, <2>1 DEF DoneInv
<1>19. CountExact' BY <1>3, CountFrame DEF IInv
<1>20. SizeInv' BY <1>3 DEF IInv, SizeInv
<1> QED BY <1>6, <1>7, <1>9, <1>10, <1>11, <1>12, <1>13, <1>14, <1>16, <1>17, <1>18, <1>19, <1>20 DEF IInv

\* What else a step of adding leaves alone, unless it adds the object.
LEMMA ObjectFrame ==
    ASSUME IInv, SameStages, SameWork,
           UNCHANGED <<overflow, overflowAtStart, remembered, young, walk, splits, units, previous, object, back, slots>>
    PROVE  PhaseInv' /\ ObjectInv' /\ SlotInv' /\ FlagInv' /\ DoneInv' /\ (ScanPhase' <=> ScanPhase)
<1>1. /\ PhaseInv' /\ (RunPhase' <=> RunPhase) /\ (CompactPhase' <=> CompactPhase)
      /\ (ScanPhase' <=> ScanPhase) /\ (PrunePhase' <=> PrunePhase) /\ (RebuildPhase' <=> RebuildPhase)
      /\ (DonePhase' <=> DonePhase)
  BY StagesSame, PhasesSame DEF IInv
<1>2. ObjectInv' BY <1>1 DEF IInv, ObjectInv
<1>3. SlotInv' BY DEF IInv, SlotInv, OnItsWay
<1>4. \A p \in Puddles, i \in Places :
        (Ahead(p, i)' <=> Ahead(p, i)) /\ (Pending(p, i)' <=> Pending(p, i)) /\ (Unpruned(p, i)' <=> Unpruned(p, i))
  BY WorkSame
<1>5. FlagInv' BY <1>1, <1>4, FlagFrame DEF IInv
<1>6. DoneInv' BY <1>1 DEF IInv, DoneInv
<1> QED BY <1>1, <1>2, <1>3, <1>5, <1>6

LEMMA Adds ==
    ASSUME IInv, NEW t \in Threads, pc[t] \in AddPlaces
    PROVE  /\ Stage(t) = back[t] /\ back[t] \in {"run", "scan", "rebuild"} /\ back[t] \notin AddPlaces
           /\ back[t] \notin WorkPlaces /\ ~CompactPhase /\ ~PrunePhase /\ ~DonePhase
           /\ rest = <<>> /\ dest = 0 /\ alloc = (IF list = <<>> THEN 0 ELSE Last(list)) /\ units = <<>>
           /\ alloc # 0 => alloc \in Range(list)
           /\ object[t] \in Objects
<1>1. PcTypes /\ PoolTypes /\ ObjectTypes BY TypeIs DEF IInv
<1>2. Stage(t) = back[t] /\ back[t] \in {"run", "scan", "rebuild"} BY <1>1 DEF Stage, PcTypes
<1>3. back[t] \notin AddPlaces /\ back[t] \notin WorkPlaces BY <1>2 DEF AddPlaces, WorkPlaces
<1>4. ~CompactPhase /\ ~PrunePhase /\ ~DonePhase BY <1>1, <1>2, PhaseOf, Exclusive DEF IInv, ScanStages
<1>5. rest = <<>> /\ dest = 0 /\ alloc = (IF list = <<>> THEN 0 ELSE Last(list)) BY <1>4 DEF IInv, LinkInv
<1>6. units = <<>> BY <1>2 DEF IInv, UnitInv, InStages
<1>7. alloc # 0 => alloc \in Range(list) BY <1>1, <1>5, RangeIs DEF PoolTypes
<1>8. object[t] \in Objects BY <1>1 DEF IInv, AddInv, ObjectTypes
<1> QED BY <1>2, <1>3, <1>4, <1>5, <1>6, <1>7, <1>8

LEMMA AskForFragmentStep ==
    ASSUME IInv, NEW t \in Threads, AskForFragment(t)
    PROVE  IInv'
<1>1. /\ SlotTypes /\ PoolTypes /\ ObjectTypes /\ PcTypes /\ NumberTypes /\ FlagTypes /\ FragmentTypes
      /\ IteratorTypes
  BY TypeIs DEF IInv
<1>2. /\ pc[t] = "add" /\ ~HasRoom(t) /\ count' = count + Uncounted({t}) /\ fragment' = Flushed({t})
      /\ seen' = [seen EXCEPT ![t] = alloc] /\ pc' = [pc EXCEPT ![t] = "bump"]
  BY DEF AskForFragment, Goto
<1>3. /\ UNCHANGED <<live, list, alloc, previous, currentSize, rest, dest, slots, current, overflow>>
      /\ UNCHANGED <<overflowAtStart, units, walk, cycles, remembered, young, splits, back, object, held, iterator>>
  BY DEF AskForFragment, poolVars, compactVars, puddleVars, cycleVars, objectVars, scanVars
<1>4. /\ pc'[t] = "bump" /\ seen'[t] = alloc /\ fragment'[t] = NoFragment
      /\ \A u \in Threads \ {t} : pc'[u] = pc[u] /\ seen'[u] = seen[u] /\ fragment'[u] = fragment[u]
  BY <1>1, <1>2 DEF PcTypes, FragmentTypes, Flushed
<1>5. pc[t] \in AddPlaces /\ pc'[t] \in AddPlaces BY <1>2, <1>4 DEF AddPlaces
<1>6. SameStages /\ SameWork
  <2>1. Stage(t)' = Stage(t) /\ pc[t] \notin WorkPlaces /\ pc'[t] \notin WorkPlaces
    BY <1>2, <1>3, <1>4, <1>5 DEF Stage, WorkPlaces
  <2> QED BY <1>3, <1>4, <2>1, OneMoves DEF scanVars
<1>7. FragmentTypes'
  <2>1. NoFragment \in Fragments BY ConstantsAssumption DEF NoFragment, Fragments
  <2>2. fragment' \in [Threads -> Fragments] BY <1>1, <1>2, <2>1 DEF FragmentTypes, Flushed
  <2>3. seen' \in [Threads -> Puddles \cup {0}] BY <1>1, <1>2 DEF FragmentTypes, PoolTypes
  <2> QED BY <2>2, <2>3 DEF FragmentTypes
<1>8. Uncounted({t}) = fragment[t].count /\ fragment[t].count \in Nat BY <1>1, UncountedIs, FragmentOf
<1>9. TypeOK'
  <2>1. PcTypes' BY <1>1, <1>2, <1>3 DEF PcTypes, Pcs
  <2>2. NumberTypes' BY <1>1, <1>2, <1>3, <1>8 DEF NumberTypes
  <2>3. SlotTypes' /\ PoolTypes' /\ ObjectTypes' /\ FlagTypes' /\ IteratorTypes'
    BY <1>1, <1>3 DEF SlotTypes, PoolTypes, ObjectTypes, FlagTypes, IteratorTypes
  <2> QED BY <1>7, <2>1, <2>2, <2>3, TypeNext
<1>10. PhaseInv' /\ ObjectInv' /\ SlotInv' /\ FlagInv' /\ DoneInv' /\ (ScanPhase' <=> ScanPhase)
  BY <1>3, <1>6, ObjectFrame
<1>11. AddInv'
  <2>1. alloc # 0 => alloc \in Range(list) BY <1>5, Adds
  <2> QED BY <1>3, <1>4, <1>5, <2>1 DEF IInv, AddInv, AddPlaces
<1>12. ~HasRoom(t)' /\ fragment'[t].count = 0 BY <1>4 DEF HasRoom, NoFragment
<1>13. FragmentInv'
  <2>1. \A u \in Threads \ {t} : Stage(u)' = Stage(u) BY <1>6 DEF SameStages
  <2> QED BY <1>4, <1>12, <2>1 DEF IInv, FragmentInv, HasRoom
<1>14. RoomInv'
  <2>1. \A u \in Threads : HasRoom(u)' => fragment'[u] = fragment[u] BY <1>4, <1>12
  <2>2. \A u \in Threads : HasRoom(u) => fragment[u].puddle \in Range(list) BY DEF IInv, RoomInv
  <2> QED BY <1>3, <2>1, <2>2, RoomFrame DEF IInv
<1>15. EmptyInv' BY <1>3 DEF IInv, EmptyInv
<1>16. LinkInv' BY <1>3, <1>6, LinkSame DEF IInv
<1>17. IteratorInv' /\ UnitInv' /\ SplitInv'
  <2>1. \A p \in Puddles : current[p] \in Nat BY <1>1, ConstantsAssumption DEF SlotTypes
  <2>2. \A p \in Puddles : current[p] <= current[p] BY <2>1
  <2> QED BY <1>3, <1>6, <1>10, <2>1, <2>2, WorkFrame
<1>18. CountExact'
  <2>1. Uncounted(Threads)' + fragment[t].count = Uncounted(Threads) + fragment'[t].count
    BY <1>1, <1>4, <1>7, UncountedNext
  <2>2. Filled' = Filled /\ Unreported' = Unreported BY <1>3 DEF Filled, Unreported
  <2>3. Uncounted(Threads) \in Nat /\ count \in Nat BY <1>1, UncountedIs DEF NumberTypes
  <2>4. Uncounted(Threads)' \in Nat
    <3>1. fragment' \in [Threads -> Fragments] BY <1>7 DEF FragmentTypes
    <3> QED BY <3>1, CountsOf DEF Uncounted
  <2>5. count' + Uncounted(Threads)' = count + Uncounted(Threads) BY <1>2, <1>8, <1>12, <2>1, <2>3, <2>4
  <2> QED BY <2>2, <2>5 DEF IInv, CountExact
<1>19. SizeInv' BY <1>3 DEF IInv, SizeInv
<1> QED BY <1>9, <1>10, <1>11, <1>13, <1>14, <1>15, <1>16, <1>17, <1>18, <1>19 DEF IInv

LEMMA NoRoomUnlockedStep ==
    ASSUME IInv, NEW t \in Threads, NoRoomUnlocked(t)
    PROVE  IInv'
<1>1. /\ SlotTypes /\ PoolTypes /\ ObjectTypes /\ PcTypes /\ NumberTypes /\ FlagTypes /\ FragmentTypes
      /\ IteratorTypes
  BY TypeIs DEF IInv
<1>2. pc[t] = "bump" /\ seen' = [seen EXCEPT ![t] = 0] /\ pc' = [pc EXCEPT ![t] = "lock"] BY DEF NoRoomUnlocked, Goto
<1>3. /\ UNCHANGED <<live, list, alloc, previous, currentSize, rest, dest, slots, current, overflow, count, fragment>>
      /\ UNCHANGED <<overflowAtStart, units, walk, cycles, remembered, young, splits, back, object, held, iterator>>
  BY DEF NoRoomUnlocked, poolVars, compactVars, puddleVars, cycleVars, objectVars, scanVars
<1>4. /\ pc'[t] = "lock" /\ seen'[t] = 0
      /\ \A u \in Threads \ {t} : pc'[u] = pc[u] /\ seen'[u] = seen[u]
  BY <1>1, <1>2 DEF PcTypes, FragmentTypes
<1>5. pc[t] \in AddPlaces /\ pc'[t] \in AddPlaces BY <1>2, <1>4 DEF AddPlaces
<1>6. SameStages /\ SameWork
  <2>1. Stage(t)' = Stage(t) /\ pc[t] \notin WorkPlaces /\ pc'[t] \notin WorkPlaces
    BY <1>2, <1>3, <1>4, <1>5 DEF Stage, WorkPlaces
  <2> QED BY <1>3, <1>4, <2>1, OneMoves DEF scanVars
<1>7. TypeOK'
  <2>1. PcTypes' /\ FragmentTypes' BY <1>1, <1>2, <1>3 DEF PcTypes, Pcs, FragmentTypes
  <2>2. SlotTypes' /\ PoolTypes' /\ ObjectTypes' /\ NumberTypes' /\ FlagTypes' /\ IteratorTypes'
    BY <1>1, <1>3 DEF SlotTypes, PoolTypes, ObjectTypes, NumberTypes, FlagTypes, IteratorTypes
  <2> QED BY <2>1, <2>2, TypeNext
<1>8. PhaseInv' /\ ObjectInv' /\ SlotInv' /\ FlagInv' /\ DoneInv' /\ (ScanPhase' <=> ScanPhase)
  BY <1>3, <1>6, ObjectFrame
<1>9. AddInv' BY <1>3, <1>4, <1>5 DEF IInv, AddInv
<1>10. FragmentInv'
  <2>1. \A u \in Threads \ {t} : Stage(u)' = Stage(u) BY <1>6 DEF SameStages
  <2> QED BY <1>2, <1>3, <1>4, <2>1 DEF IInv, FragmentInv, HasRoom
<1>11. RoomInv' /\ EmptyInv' BY <1>3 DEF IInv, RoomInv, EmptyInv, HasRoom
<1>12. LinkInv' BY <1>3, <1>6, LinkSame DEF IInv
<1>13. IteratorInv' /\ UnitInv' /\ SplitInv'
  <2>1. \A p \in Puddles : current[p] \in Nat BY <1>1, ConstantsAssumption DEF SlotTypes
  <2>2. \A p \in Puddles : current[p] <= current[p] BY <2>1
  <2> QED BY <1>3, <1>6, <1>8, <2>1, <2>2, WorkFrame
<1>14. CountExact' /\ SizeInv' BY <1>3, CountFrame DEF IInv, SizeInv
<1> QED BY <1>7, <1>8, <1>9, <1>10, <1>11, <1>12, <1>13, <1>14 DEF IInv

LEMMA TopIs ==
    ASSUME SlotTypes, NEW p \in Puddles, ~IsFull(p)
    PROVE  /\ PuddleTop(p) \in Nat /\ current[p] \in Nat /\ current[p] < PuddleTop(p)
           /\ PuddleTop(p) <= GrowSize /\ PuddleTop(p) <= current[p] + FragmentSize
<1>1. current[p] \in 0..GrowSize /\ current[p] # GrowSize BY SlotTypeOf DEF IsFull
<1>2. GrowSize \in Nat /\ FragmentSize \in Nat \ {0} BY ConstantsAssumption
<1> DEFINE S == {GrowSize, current[p] + FragmentSize}
<1>3. \E x \in S : \A y \in S : x <= y BY <1>1, <1>2
<1>4. PuddleTop(p) \in S /\ \A y \in S : PuddleTop(p) <= y BY <1>3 DEF PuddleTop, Min
<1> QED BY <1>1, <1>2, <1>4

\* A reservation is behind the front of the puddle: the slots are NULL and nobody else's.
LEMMA ReserveIs ==
    ASSUME IInv, NEW t \in Threads, NEW p \in Puddles, ~IsFull(p), Reserve(t, p), pc[t] \in {"bump", "lock"},
           slots' = slots, Range(list) \cup {p} \subseteq Range(list')
    PROVE  /\ SlotTypes' /\ fragment' \in [Threads -> Fragments] /\ RoomInv'
           /\ \A q \in Puddles : /\ current'[q] \in Nat /\ current[q] <= current'[q]
                                 /\ q # p => current'[q] = current[q]
           /\ \A u \in Threads : fragment'[u].count = fragment[u].count
           /\ \A u \in Threads \ {t} : fragment'[u] = fragment[u]
<1>1. SlotTypes /\ FragmentTypes BY TypeIs DEF IInv
<1> DEFINE m == PuddleTop(p)
           c == current[p]
<1>2. m \in Nat /\ c \in Nat /\ c < m /\ m <= GrowSize /\ m <= c + FragmentSize BY <1>1, TopIs
<1>3. GrowSize \in Nat /\ FragmentSize \in Nat BY ConstantsAssumption
<1>4. current' = [current EXCEPT ![p] = m] /\ fragment' = [fragment EXCEPT ![t] = Reserved(p)] BY DEF Reserve
<1>5. /\ Reserved(p).puddle = p /\ Reserved(p).next = c + 1 /\ Reserved(p).top = m + 1 /\ Reserved(p).count = 0
      /\ Reserved(p) \in Fragments
  BY <1>2, <1>3 DEF Reserved, Fragments
<1> HIDE DEF m, c
<1>6. current' \in [Puddles -> 0..GrowSize] /\ current'[p] = m /\ \A q \in Puddles : q # p => current'[q] = current[q]
  BY <1>1, <1>2, <1>3, <1>4 DEF SlotTypes
<1>7. SlotTypes' BY <1>1, <1>6 DEF SlotTypes
<1>8. /\ fragment' \in [Threads -> Fragments] /\ fragment'[t] = Reserved(p)
      /\ \A u \in Threads \ {t} : fragment'[u] = fragment[u]
  BY <1>1, <1>4, <1>5 DEF FragmentTypes
<1>9. \A q \in Puddles : current[q] \in Nat /\ current'[q] \in Nat /\ current[q] <= current'[q]
  BY <1>1, <1>2, <1>3, <1>6 DEF SlotTypes, c
<1>10. \A u \in Threads : fragment'[u].count = fragment[u].count
  <2>1. fragment[t].count = 0 BY DEF IInv, FragmentInv
  <2> QED BY <1>5, <1>8, <2>1
<1>11. RoomInv'
  <2> DEFINE Old(u) == /\ fragment[u].puddle \in Range(list) /\ 1 <= fragment[u].next
                       /\ fragment[u].top <= current[fragment[u].puddle] + 1
                       /\ fragment[u].count + (fragment[u].top - fragment[u].next) <= FragmentSize
                       /\ \A i \in Places : fragment[u].next <= i /\ i < fragment[u].top =>
                            slots[fragment[u].puddle][i] = Empty
             New(u) == /\ fragment'[u].puddle \in Range(list') /\ 1 <= fragment'[u].next
                       /\ fragment'[u].top <= current'[fragment'[u].puddle] + 1
                       /\ fragment'[u].count + (fragment'[u].top - fragment'[u].next) <= FragmentSize
                       /\ \A i \in Places : fragment'[u].next <= i /\ i < fragment'[u].top =>
                            slots'[fragment'[u].puddle][i] = Empty
             Apart(u, v) == u # v /\ HasRoom(u)' /\ HasRoom(v)' /\ fragment'[u].puddle = fragment'[v].puddle =>
                              fragment'[u].top <= fragment'[v].next \/ fragment'[v].top <= fragment'[u].next
  <2>1. \A u \in Threads : HasRoom(u) => Old(u) BY DEF IInv, RoomInv
  <2>2. \A u \in Threads \ {t} : HasRoom(u)' => HasRoom(u) BY <1>8 DEF HasRoom
  <2>3. \A u \in Threads : HasRoom(u) => fragment[u].puddle \in Puddles /\ fragment[u].top \in Nat
    <3>1. Range(list) \subseteq Puddles
      <4>1. live \subseteq Puddles /\ list \in Seq(live) BY TypeIs DEF IInv, PoolTypes
      <4> QED BY <4>1, RangeIs
    <3>2. \A u \in Threads : fragment[u].top \in Nat BY <1>1, FragmentOf
    <3> QED BY <2>1, <3>1, <3>2
  <2>4. ASSUME NEW u \in Threads \ {t}, HasRoom(u)' PROVE New(u)
    <3>1. Old(u) /\ fragment'[u] = fragment[u] /\ fragment[u].puddle \in Puddles /\ fragment[u].top \in Nat
      BY <1>8, <2>1, <2>2, <2>3, <2>4
    <3>2. fragment[u].top <= current'[fragment[u].puddle] + 1 BY <1>9, <3>1
    <3> QED BY <3>1, <3>2
  <2>5. New(t)
    <3>1. \A i \in Places : c + 1 <= i => slots'[p][i] = Empty
      <4>1. \A i \in Places : i \in Nat BY DEF Places
      <4>2. \A i \in Places : c < i => slots[p][i] = Empty BY DEF IInv, EmptyInv, c
      <4> QED BY <1>2, <4>1, <4>2
    <3>2. 1 <= c + 1 /\ m + 1 <= m + 1 /\ 0 + ((m + 1) - (c + 1)) <= FragmentSize BY <1>2, <1>3
    <3> QED BY <1>5, <1>6, <1>8, <3>1, <3>2
  <2>6. \A u \in Threads \ {t} : HasRoom(u)' /\ fragment'[u].puddle = p => fragment'[u].top <= fragment'[t].next
    BY <1>5, <1>8, <2>1, <2>2 DEF c
  <2>7. ASSUME NEW u \in Threads, NEW v \in Threads PROVE Apart(u, v)
    <3>1. CASE u = t BY <1>5, <1>8, <2>6, <3>1
    <3>2. CASE v = t BY <1>5, <1>8, <2>6, <3>2
    <3>3. CASE u # t /\ v # t
      <4>1. fragment'[u] = fragment[u] /\ fragment'[v] = fragment[v] BY <1>8, <3>3
      <4> QED BY <2>2, <3>3, <4>1 DEF IInv, RoomInv
    <3> QED BY <3>1, <3>2, <3>3
  <2>8. \A u \in Threads : HasRoom(u)' => New(u) BY <2>4, <2>5
  <2> QED BY <2>7, <2>8 DEF RoomInv
<1> QED BY <1>6, <1>7, <1>8, <1>9, <1>10, <1>11

LEMMA AllocateStep ==
    ASSUME IInv, NEW t \in Threads, NEW p \in Range(list), ~IsFull(p), Reserve(t, p),
           pc[t] \in {"bump", "lock"}, pc' = [pc EXCEPT ![t] = "add"], seen' = [seen EXCEPT ![t] = 0],
           UNCHANGED <<live, list, alloc, previous, currentSize, rest, dest, slots, overflow, count>>,
           UNCHANGED <<overflowAtStart, units, walk, cycles, remembered, young, splits, back, object, held, iterator>>
    PROVE  IInv'
<1>1. /\ SlotTypes /\ PoolTypes /\ ObjectTypes /\ PcTypes /\ NumberTypes /\ FlagTypes /\ FragmentTypes
      /\ IteratorTypes
  BY TypeIs DEF IInv
<1>2. p \in Puddles /\ p \in live BY <1>1, RangeIs DEF PoolTypes
<1>3. /\ SlotTypes' /\ fragment' \in [Threads -> Fragments] /\ RoomInv'
      /\ \A q \in Puddles : /\ current'[q] \in Nat /\ current[q] <= current'[q]
                            /\ q # p => current'[q] = current[q]
      /\ \A u \in Threads : fragment'[u].count = fragment[u].count
      /\ \A u \in Threads \ {t} : fragment'[u] = fragment[u]
  BY <1>2, ReserveIs
<1>4. /\ pc'[t] = "add" /\ seen'[t] = 0
      /\ \A u \in Threads \ {t} : pc'[u] = pc[u] /\ seen'[u] = seen[u]
  BY <1>1 DEF PcTypes, FragmentTypes
<1>5. pc[t] \in AddPlaces /\ pc'[t] \in AddPlaces BY <1>4 DEF AddPlaces
<1>6. SameStages /\ SameWork
  <2>1. Stage(t)' = Stage(t) /\ pc[t] \notin WorkPlaces /\ pc'[t] \notin WorkPlaces
    BY <1>4, <1>5 DEF Stage, WorkPlaces
  <2> QED BY <1>4, <2>1, OneMoves DEF scanVars
<1>7. FragmentTypes' BY <1>1, <1>3 DEF FragmentTypes
<1>8. TypeOK'
  <2>1. PcTypes' BY <1>1 DEF PcTypes, Pcs
  <2>2. PoolTypes' /\ ObjectTypes' /\ NumberTypes' /\ FlagTypes' /\ IteratorTypes'
    BY <1>1 DEF PoolTypes, ObjectTypes, NumberTypes, FlagTypes, IteratorTypes
  <2> QED BY <1>3, <1>7, <2>1, <2>2, TypeNext
<1>9. PhaseInv' /\ ObjectInv' /\ SlotInv' /\ FlagInv' /\ DoneInv' /\ (ScanPhase' <=> ScanPhase)
  BY <1>6, ObjectFrame
<1>10. AddInv' BY <1>4, <1>5 DEF IInv, AddInv
<1>11. FragmentInv'
  <2>1. \A u \in Threads \ {t} : Stage(u)' = Stage(u) BY <1>6 DEF SameStages
  <2>2. Stage(t)' \in {"run", "scan", "rebuild"} BY <1>5, <1>6, Adds DEF SameStages
  <2> QED BY <1>3, <1>4, <2>1, <2>2 DEF IInv, FragmentInv, HasRoom
<1>12. EmptyInv'
  <2>1. ASSUME NEW q \in Puddles, NEW i \in Places, current'[q] < i PROVE slots'[q][i] = Empty
    <3>1. current[q] \in Nat /\ i \in Nat BY <1>1, ConstantsAssumption DEF SlotTypes, Places
    <3>2. current[q] < i BY <1>3, <2>1, <3>1
    <3> QED BY <3>2 DEF IInv, EmptyInv
  <2>2. \A q \in Puddles : q \notin live' => current'[q] = 0 BY <1>2, <1>3 DEF IInv, EmptyInv
  <2> QED BY <2>1, <2>2 DEF EmptyInv
<1>13. LinkInv' BY <1>6, LinkSame DEF IInv
<1>14. IteratorInv' /\ UnitInv' /\ SplitInv' BY <1>3, <1>6, <1>9, WorkFrame
<1>15. CountExact'
  <2>1. Uncounted(Threads)' = Uncounted(Threads) BY <1>1, <1>3, <1>7, UncountedNext
  <2> QED BY <2>1 DEF IInv, CountExact, Filled, Unreported
<1>16. SizeInv' BY DEF IInv, SizeInv
<1> QED BY <1>3, <1>8, <1>9, <1>10, <1>11, <1>12, <1>13, <1>14, <1>15, <1>16 DEF IInv

LEMMA AllocateUnlockedStep ==
    ASSUME IInv, NEW t \in Threads, AllocateUnlocked(t)
    PROVE  IInv'
<1>1. seen[t] \in Range(list) /\ ~IsFull(seen[t]) BY DEF AllocateUnlocked, CanAllocate, IInv, AddInv
<1> QED BY <1>1, AllocateStep DEF AllocateUnlocked, Goto, poolVars, compactVars, cycleVars, objectVars, scanVars

LEMMA AllocateLockedStep ==
    ASSUME IInv, NEW t \in Threads, AllocateLocked(t)
    PROVE  IInv'
<1>1. pc[t] = "lock" /\ pc[t] \in AddPlaces BY DEF AllocateLocked, AddPlaces
<1>2. alloc \in Range(list) /\ ~IsFull(alloc) BY <1>1, Adds DEF AllocateLocked, Retry, CanAllocate
<1>3. seen[t] = 0 BY <1>1 DEF IInv, AddInv
<1>4. seen' = [seen EXCEPT ![t] = 0]
  <2>1. seen \in [Threads -> Puddles \cup {0}] BY TypeIs DEF IInv, FragmentTypes
  <2> QED BY <1>3, <2>1 DEF AllocateLocked, addVars
<1> QED BY <1>1, <1>2, <1>4, AllocateStep
        DEF AllocateLocked, Goto, poolVars, compactVars, cycleVars, objectVars, scanVars, addVars

LEMMA AddPuddleStep ==
    ASSUME IInv, NEW t \in Threads, AddPuddle(t)
    PROVE  IInv'
<1>1. /\ SlotTypes /\ PoolTypes /\ ObjectTypes /\ PcTypes /\ NumberTypes /\ FlagTypes /\ FragmentTypes
      /\ IteratorTypes
  BY TypeIs DEF IInv
<1> DEFINE p == CHOOSE q \in Puddles : q \notin live
<1>2. p \in Puddles /\ p \notin live
  <2>1. \E q \in Puddles : q \notin live BY <1>1 DEF AddPuddle, PoolTypes
  <2> QED BY <2>1
<1>3. /\ pc[t] = "lock" /\ live' = live \cup {p} /\ currentSize' = currentSize + GrowSize /\ Reserve(t, p)
      /\ list' = Append(list, p) /\ alloc' = p /\ pc' = [pc EXCEPT ![t] = "add"]
  BY DEF AddPuddle, Goto
<1>4. /\ UNCHANGED <<previous, rest, dest, slots, overflow, count, seen>>
      /\ UNCHANGED <<overflowAtStart, units, walk, cycles, remembered, young, splits, back, object, held, iterator>>
  BY DEF AddPuddle, compactVars, cycleVars, objectVars, scanVars, addVars
<1> HIDE DEF p
<1>5. pc[t] \in AddPlaces BY <1>3 DEF AddPlaces
<1>6. ~IsFull(p) /\ p # 0
  <2>1. current[p] = 0 BY <1>2 DEF IInv, EmptyInv
  <2> QED BY <1>2, <2>1, ConstantsAssumption DEF IsFull, Puddles
<1>7. list \in Seq(live') /\ p \in live' /\ Range(list) \subseteq live
  <2>1. Range(list) \subseteq live BY <1>1, RangeIs DEF PoolTypes
  <2> QED BY <1>1, <1>3, <2>1, Retyped DEF PoolTypes
<1>8. /\ list' \in Seq(live') /\ list' # <<>> /\ Range(list') = Range(list) \cup {p} /\ Last(list') = p
      /\ IsInjective(list')
  <2>1. IsInjective(list) /\ p \notin Range(list) BY <1>2, <1>7 DEF IInv, LinkInv
  <2> QED BY <1>3, <1>7, <2>1, AppendIs
<1>9. /\ SlotTypes' /\ fragment' \in [Threads -> Fragments] /\ RoomInv'
      /\ \A q \in Puddles : /\ current'[q] \in Nat /\ current[q] <= current'[q]
                            /\ q # p => current'[q] = current[q]
      /\ \A u \in Threads : fragment'[u].count = fragment[u].count
      /\ \A u \in Threads \ {t} : fragment'[u] = fragment[u]
  <2>1. Range(list) \cup {p} \subseteq Range(list') /\ pc[t] \in {"bump", "lock"} /\ slots' = slots BY <1>3, <1>4, <1>8
  <2> QED BY <1>2, <1>3, <1>6, <2>1, ReserveIs
<1>10. /\ pc'[t] = "add" /\ pc'[t] \in AddPlaces
       /\ \A u \in Threads \ {t} : pc'[u] = pc[u]
  BY <1>1, <1>3 DEF PcTypes, AddPlaces
<1>11. SameStages /\ SameWork
  <2>1. Stage(t)' = Stage(t) /\ pc[t] \notin WorkPlaces /\ pc'[t] \notin WorkPlaces
    BY <1>3, <1>4, <1>5, <1>10 DEF Stage, WorkPlaces
  <2> QED BY <1>4, <1>10, <2>1, OneMoves DEF scanVars
<1>12. FragmentTypes' BY <1>1, <1>4, <1>9 DEF FragmentTypes
<1>13. PoolTypes'
  <2>1. live' \subseteq Puddles /\ live \subseteq live' BY <1>1, <1>2, <1>3 DEF PoolTypes
  <2>2. previous \in Seq(live') /\ rest \in Seq(live') /\ units \in Seq(live')
    <3>1. previous \in Seq(live) /\ rest \in Seq(live) /\ units \in Seq(live) BY <1>1 DEF PoolTypes
    <3>2. Range(previous) \subseteq live' /\ Range(rest) \subseteq live' /\ Range(units) \subseteq live'
      BY <2>1, <3>1, RangeIs
    <3> QED BY <3>1, <3>2, Retyped
  <2>3. splits' \subseteq live' \X Places \X Objects
    <3>1. splits \subseteq live \X Places \X Objects BY <1>1 DEF PoolTypes
    <3> QED BY <1>4, <2>1, <3>1
  <2>4. held' \in [Threads -> live' \cup {0}] BY <1>1, <1>4, <2>1 DEF PoolTypes
  <2>5. dest' \in live' \cup {0} /\ alloc' \in Puddles \cup {0} BY <1>1, <1>2, <1>3, <1>4, <2>1 DEF PoolTypes
  <2> QED BY <1>4, <1>8, <2>1, <2>2, <2>3, <2>4, <2>5 DEF PoolTypes
<1>14. TypeOK'
  <2>1. PcTypes' BY <1>1, <1>3, <1>4 DEF PcTypes, Pcs
  <2>2. NumberTypes' BY <1>1, <1>3, <1>4, ConstantsAssumption DEF NumberTypes
  <2>3. ObjectTypes' /\ FlagTypes' /\ IteratorTypes'
    BY <1>1, <1>4 DEF ObjectTypes, FlagTypes, IteratorTypes
  <2> QED BY <1>9, <1>12, <1>13, <2>1, <2>2, <2>3, TypeNext
<1>15. PhaseInv' /\ ObjectInv' /\ SlotInv' /\ FlagInv' /\ DoneInv' /\ (ScanPhase' <=> ScanPhase)
  BY <1>4, <1>11, ObjectFrame
<1>16. AddInv' BY <1>3, <1>4, <1>8, <1>5, <1>10 DEF IInv, AddInv
<1>17. FragmentInv'
  <2>1. \A u \in Threads \ {t} : Stage(u)' = Stage(u) BY <1>11 DEF SameStages
  <2>2. Stage(t)' \in {"run", "scan", "rebuild"} BY <1>5, <1>11, Adds DEF SameStages
  <2> QED BY <1>9, <1>10, <2>1, <2>2 DEF IInv, FragmentInv, HasRoom
<1>18. EmptyInv'
  <2>1. ASSUME NEW q \in Puddles, NEW i \in Places, current'[q] < i PROVE slots'[q][i] = Empty
    <3>1. current[q] \in Nat /\ i \in Nat BY <1>1, ConstantsAssumption DEF SlotTypes, Places
    <3>2. current[q] < i BY <1>9, <2>1, <3>1
    <3> QED BY <1>4, <3>2 DEF IInv, EmptyInv
  <2>2. \A q \in Puddles : q \notin live' => current'[q] = 0 BY <1>3, <1>9 DEF IInv, EmptyInv
  <2> QED BY <2>1, <2>2 DEF EmptyInv
<1>19. LinkInv'
  <2>1. Holders' = Holders /\ HeldPuddles' = HeldPuddles BY <1>11, WorkSame
  <2>2. live = Range(list) \cup Range(previous) \cup Range(rest) \cup HeldPuddles \cup ({dest} \ {0})
    BY DEF IInv, LinkInv
  <2>3. rest = <<>> /\ dest = 0 /\ Range(rest) = {} BY <1>5, Adds, RangeOfEmpty
  <2>4. live' = Range(list') \cup Range(previous) \cup Range(rest) \cup HeldPuddles \cup ({dest} \ {0})
    BY <1>3, <1>8, <2>2
  <2>5. /\ Range(list') \cap Range(previous) = {} /\ HeldPuddles \cap (Range(list') \cup Range(previous)) = {}
        /\ Range(list') \cap Range(rest) = {} /\ dest \notin Range(list') \cup Range(rest)
    BY <1>2, <1>6, <1>8, <2>2, <2>3 DEF IInv, LinkInv
  <2>6. /\ \A u, v \in Holders : held[u] = held[v] => u = v
        /\ IsInjective(previous) /\ IsInjective(rest)
        /\ previous # <<>> => InStages(ScanStages \ {"scan"})'
    BY <1>11, StagesSame DEF IInv, LinkInv
  <2>7. \A u \in Threads : held[u] # 0 => pc'[u] \in {"pop", "slots", "verdict", "pruneSlots"}
    BY <1>3, <1>10 DEF IInv, LinkInv
  <2> QED BY <1>3, <1>4, <1>8, <2>1, <2>3, <2>4, <2>5, <2>6, <2>7 DEF LinkInv
<1>20. IteratorInv' /\ UnitInv' /\ SplitInv'
  <2>1. Range(list) \subseteq Range(list') BY <1>8
  <2> QED BY <1>4, <1>9, <1>11, <1>15, <2>1, WorkFrame
<1>21. CountExact'
  <2>1. Uncounted(Threads)' = Uncounted(Threads) BY <1>1, <1>9, <1>12, UncountedNext
  <2>2. Filled = Full(slots) BY <1>1, FilledIs DEF IInv, PoolTypes
  <2>3. Filled' = Full(slots') BY <1>9, <1>13, <1>18, FilledNext DEF PoolTypes
  <2>4. Filled' = Filled BY <1>4, <2>2, <2>3
  <2> QED BY <1>4, <2>1, <2>4 DEF IInv, CountExact, Unreported
<1>22. SizeInv'
  <2>1. IsFiniteSet(live)
    <3>1. IsFiniteSet(Puddles) BY FS_Interval, ConstantsAssumption DEF Puddles
    <3> QED BY <1>1, <3>1, FS_Subset DEF PoolTypes
  <2> DEFINE n == Cardinality(live)
  <2>2. n \in Nat /\ Cardinality(live') = n + 1 BY <1>2, <1>3, <2>1, FS_AddElement, FS_CardinalityType
  <2>3. currentSize >= GrowSize * n BY DEF IInv, SizeInv
  <2>4. currentSize \in Nat /\ GrowSize \in Nat BY <1>1, ConstantsAssumption DEF NumberTypes
  <2> HIDE DEF n
  <2>5. GrowSize * (n + 1) = GrowSize * n + GrowSize /\ GrowSize * n \in Nat BY <2>2, <2>4
  <2>6. currentSize + GrowSize >= GrowSize * (n + 1) BY <2>3, <2>4, <2>5
  <2> QED BY <1>3, <2>2, <2>6 DEF SizeInv
<1> QED BY <1>9, <1>14, <1>15, <1>16, <1>17, <1>18, <1>19, <1>20, <1>21, <1>22 DEF IInv

\* The thread returns to where it came from.
LEMMA EndsIs ==
    ASSUME IInv, NEW t \in Threads, AddingEnds(t), pc[t] \in AddPlaces, pc[t] # "bump",
           UNCHANGED <<remembered, young, walk, seen, list, held, iterator>>
    PROVE  /\ SameStages /\ SameWork /\ PcTypes' /\ ObjectTypes' /\ AddInv' /\ ObjectInv'
           /\ pc'[t] = back[t] /\ \A u \in Threads \ {t} : pc'[u] = pc[u]
           /\ \A o \in Objects : OnItsWay(o)' <=> OnItsWay(o) /\ o # object[t]
<1>1. ObjectTypes /\ PcTypes BY TypeIs DEF IInv
<1>2. /\ pc' = [pc EXCEPT ![t] = back[t]] /\ back' = [back EXCEPT ![t] = "run"]
      /\ object' = [object EXCEPT ![t] = None]
  BY DEF AddingEnds, Goto
<1>3. /\ pc'[t] = back[t] /\ back'[t] = "run" /\ object'[t] = None
      /\ \A u \in Threads \ {t} : pc'[u] = pc[u] /\ back'[u] = back[u] /\ object'[u] = object[u]
  BY <1>1, <1>2 DEF PcTypes, ObjectTypes
<1>4. back[t] \in {"run", "scan", "rebuild"} /\ back[t] \notin AddPlaces /\ back[t] \notin WorkPlaces BY Adds
<1>5. SameStages /\ SameWork
  <2>1. Stage(t)' = Stage(t) /\ pc[t] \notin WorkPlaces /\ pc'[t] \notin WorkPlaces
    BY <1>3, <1>4 DEF Stage, WorkPlaces, AddPlaces
  <2> QED BY <1>3, <2>1, OneMoves DEF scanVars
<1>6. PcTypes' BY <1>1, <1>2, <1>4 DEF PcTypes, Pcs
<1>7. ObjectTypes' BY <1>1, <1>2 DEF ObjectTypes
<1>8. AddInv'
  <2>1. seen[t] = 0 BY DEF IInv, AddInv
  <2> QED BY <1>3, <1>4, <2>1 DEF IInv, AddInv
<1>9. ObjectInv'
  <2>1. walk # {} => RebuildPhase' BY <1>5, StagesSame DEF IInv, ObjectInv
  <2>2. ASSUME NEW u \in Threads, object'[u] # None
        PROVE  /\ object'[u] \in remembered' \ walk'
               /\ \A v \in Threads : object'[v] = object'[u] => v = u
               /\ back'[u] # "run" => object'[u] \in young'
    BY <1>3, <2>2 DEF IInv, ObjectInv
  <2> QED BY <2>1, <2>2 DEF IInv, ObjectInv
<1>10. \A o \in Objects : OnItsWay(o)' <=> OnItsWay(o) /\ o # object[t]
  <2>1. object[t] # None /\ object[t] \notin walk BY DEF IInv, AddInv, ObjectInv
  <2>2. \A u \in Threads : object[u] = object[t] => u = t BY <2>1 DEF IInv, ObjectInv
  <2> QED BY <1>3, <2>1, <2>2, ConstantsAssumption DEF OnItsWay
<1> QED BY <1>3, <1>5, <1>6, <1>7, <1>8, <1>9, <1>10

LEMMA OverflowStep ==
    ASSUME IInv, NEW t \in Threads, Overflow(t)
    PROVE  IInv'
<1>1. /\ SlotTypes /\ PoolTypes /\ ObjectTypes /\ PcTypes /\ NumberTypes /\ FlagTypes /\ FragmentTypes
      /\ IteratorTypes
  BY TypeIs DEF IInv
<1>2. pc[t] = "lock" /\ overflow' = TRUE /\ AddingEnds(t) /\ pc[t] \in AddPlaces BY DEF Overflow, AddPlaces
<1>3. /\ UNCHANGED <<live, list, alloc, previous, currentSize, rest, dest, slots, current, count, seen, fragment>>
      /\ UNCHANGED <<overflowAtStart, units, walk, cycles, remembered, young, splits, held, iterator>>
  BY DEF Overflow, poolVars, compactVars, puddleVars, cycleVars, objectVars, scanVars
<1>4. /\ SameStages /\ SameWork /\ PcTypes' /\ ObjectTypes' /\ AddInv' /\ ObjectInv'
      /\ pc'[t] = back[t] /\ \A u \in Threads \ {t} : pc'[u] = pc[u]
  BY <1>2, <1>3, EndsIs
<1>5. TypeOK'
  <2>1. FlagTypes' BY <1>1, <1>2, <1>3 DEF FlagTypes
  <2>2. SlotTypes' /\ PoolTypes' /\ NumberTypes' /\ FragmentTypes' /\ IteratorTypes'
    BY <1>1, <1>3 DEF SlotTypes, PoolTypes, NumberTypes, FragmentTypes, IteratorTypes
  <2> QED BY <1>4, <2>1, <2>2, TypeNext
<1>6. /\ (RunPhase' <=> RunPhase) /\ (CompactPhase' <=> CompactPhase) /\ (RebuildPhase' <=> RebuildPhase)
      /\ (DonePhase' <=> DonePhase) /\ \A S : InStages(S)' <=> InStages(S)
  BY <1>4, StagesSame
<1>7. ScanPhase => ScanPhase' BY <1>2, <1>3, <1>6 DEF ScanPhase, ScanStages
<1>8. PhaseInv'
  <2>1. ~PrunePhase BY <1>2, Adds
  <2> QED BY <1>6, <1>7, <2>1 DEF IInv, PhaseInv
<1>9. FragmentInv'
  <2>1. \A u \in Threads : Stage(u)' = Stage(u) BY <1>4 DEF SameStages
  <2>2. Stage(t) \in {"run", "scan", "rebuild"} /\ back[t] \in {"run", "scan", "rebuild"} BY <1>2, Adds
  <2> QED BY <1>2, <1>3, <1>4, <2>1, <2>2 DEF IInv, FragmentInv, HasRoom
<1>10. RoomInv' /\ EmptyInv' BY <1>3 DEF IInv, RoomInv, EmptyInv, HasRoom
<1>11. LinkInv' BY <1>3, <1>4, LinkSame DEF IInv
<1>12. IteratorInv' /\ UnitInv' /\ SplitInv'
  <2>1. \A p \in Puddles : current[p] \in Nat BY <1>1, ConstantsAssumption DEF SlotTypes
  <2>2. \A p \in Puddles : current[p] <= current[p] BY <2>1
  <2>3. units = <<>> BY <1>2, Adds
  <2> QED BY <1>3, <1>4, <1>7, <2>1, <2>2, <2>3, WorkFrame
<1>13. SlotInv' /\ FlagInv' BY <1>2 DEF SlotInv, FlagInv
<1>14. DoneInv' BY <1>3, <1>6 DEF IInv, DoneInv
<1>15. CountExact' /\ SizeInv' BY <1>3, CountFrame DEF IInv, SizeInv
<1> QED BY <1>4, <1>5, <1>8, <1>9, <1>10, <1>11, <1>12, <1>13, <1>14, <1>15 DEF IInv

LEMMA AddEntryStep ==
    ASSUME IInv, NEW t \in Threads, AddEntry(t)
    PROVE  IInv'
<1>1. /\ SlotTypes /\ PoolTypes /\ ObjectTypes /\ PcTypes /\ NumberTypes /\ FlagTypes /\ FragmentTypes
      /\ IteratorTypes
  BY TypeIs DEF IInv
<1> DEFINE f == fragment[t]
           p == fragment[t].puddle
           n == fragment[t].next
           o == object[t]
<1>2. /\ pc[t] = "add" /\ pc[t] \in AddPlaces /\ HasRoom(t) /\ slots' = [slots EXCEPT ![p][n] = Entry(o)]
      /\ fragment' = [fragment EXCEPT ![t].next = @ + 1, ![t].count = @ + 1]
      /\ AddingEnds(t)
  BY DEF AddEntry, AddPlaces
<1>3. /\ UNCHANGED <<live, list, alloc, previous, currentSize, rest, dest, current, count, overflow, seen>>
      /\ UNCHANGED <<overflowAtStart, units, walk, cycles, remembered, young, splits, held, iterator>>
  BY DEF AddEntry, poolVars, compactVars, cycleVars, objectVars, scanVars
<1>4. /\ SameStages /\ SameWork /\ PcTypes' /\ ObjectTypes' /\ AddInv' /\ ObjectInv'
      /\ pc'[t] = back[t] /\ \A u \in Threads \ {t} : pc'[u] = pc[u]
      /\ \A u \in Objects : OnItsWay(u)' <=> OnItsWay(u) /\ u # o
  BY <1>2, <1>3, EndsIs
<1>5. GrowSize \in Nat /\ FragmentSize \in Nat BY ConstantsAssumption
<1>6. /\ f \in Fragments /\ f.next \in Nat /\ f.top \in Nat /\ f.count \in Nat /\ f.top <= GrowSize + 1
      /\ f.puddle \in Puddles \cup {0} /\ n \in Nat
  <2>1. f \in Fragments BY <1>1 DEF FragmentTypes
  <2> QED BY <1>1, <1>5, <2>1, FragmentOf
<1>7. /\ p \in Range(list) /\ 1 <= n /\ n < f.top /\ f.top <= current[p] + 1
      /\ f.count + (f.top - n) <= FragmentSize
      /\ \A i \in Places : n <= i /\ i < f.top => slots[p][i] = Empty
  BY <1>2 DEF IInv, RoomInv, HasRoom
<1>8. p \in Puddles /\ n \in Places
  <2>1. p \in Puddles BY <1>1, <1>7, RangeIs DEF PoolTypes
  <2>2. n \in Places BY <1>5, <1>6, <1>7 DEF Places
  <2> QED BY <2>1, <2>2
<1>9. slots[p][n] = Empty BY <1>6, <1>7, <1>8
<1>10. o \in Objects /\ Entry(o) \in Entries BY <1>2, Adds, EntriesAre
<1>11. /\ fragment' \in [Threads -> Fragments]
       /\ fragment'[t].puddle = p /\ fragment'[t].next = n + 1 /\ fragment'[t].top = f.top
       /\ fragment'[t].count = f.count + 1
       /\ \A u \in Threads \ {t} : fragment'[u] = fragment[u]
  <2> DEFINE g == [f EXCEPT !.next = n + 1, !.count = f.count + 1]
  <2>1. n + 1 \in 0..GrowSize + 1 /\ f.count + 1 \in 0..FragmentSize BY <1>5, <1>6, <1>7
  <2>2. g \in Fragments /\ g.puddle = p /\ g.next = n + 1 /\ g.top = f.top /\ g.count = f.count + 1
    BY <1>6, <2>1 DEF Fragments
  <2>3. fragment' = [fragment EXCEPT ![t] = g] BY <1>1, <1>2 DEF FragmentTypes, Fragments
  <2> HIDE DEF g
  <2> QED BY <1>1, <2>2, <2>3 DEF FragmentTypes
<1>12. /\ slots' \in SlotArrays
       /\ \A q \in Puddles, j \in Places : slots'[q][j] = IF q = p /\ j = n THEN Entry(o) ELSE slots[q][j]
  <2>1. slots \in SlotArrays BY <1>1 DEF SlotTypes, SlotArrays
  <2>2. slots' = Put(slots, p, n, Entry(o)) BY <1>2 DEF Put
  <2> HIDE DEF p, n, o
  <2> QED BY <1>8, <1>10, <2>1, <2>2, Written
<1> HIDE DEF f, p, n, o
<1> DEFINE z == <<p, n>>
<1>13. /\ z \in Spots /\ At(slots, z) = Empty /\ At(slots', z) = Entry(o)
       /\ \A x \in Spots : x # z => At(slots', x) = At(slots, x)
  BY <1>8, <1>9, <1>12, SpotsAre, AtWritten
<1>14. /\ Cardinality(Full(slots')) = Cardinality(Full(slots)) + 1
       /\ OneSlot(slots) /\ ~HasSlot(slots, o) => OneSlot(slots')
       /\ \A u \in Objects : HasSlot(slots', u) <=> HasSlot(slots, u) \/ u = o
  <2> HIDE DEF z
  <2> QED BY <1>10, <1>13, EntryWritten
<1>15. SlotTypes' /\ FragmentTypes' BY <1>1, <1>3, <1>11, <1>12 DEF SlotTypes, SlotArrays, FragmentTypes
<1>16. TypeOK'
  <2>1. PoolTypes' /\ NumberTypes' /\ FlagTypes' /\ IteratorTypes'
    BY <1>1, <1>3 DEF PoolTypes, NumberTypes, FlagTypes, IteratorTypes
  <2> QED BY <1>4, <1>15, <2>1, TypeNext
<1>17. /\ PhaseInv' /\ (RunPhase' <=> RunPhase) /\ (CompactPhase' <=> CompactPhase)
       /\ (ScanPhase' <=> ScanPhase) /\ (PrunePhase' <=> PrunePhase) /\ (RebuildPhase' <=> RebuildPhase)
       /\ (DonePhase' <=> DonePhase)
  BY <1>3, <1>4, StagesSame, PhasesSame DEF IInv
<1>18. Stage(t) = back[t] /\ back[t] \in {"run", "scan", "rebuild"} BY <1>2, Adds
<1>19. FragmentInv'
  <2>1. \A u \in Threads : Stage(u)' = Stage(u) BY <1>4 DEF SameStages
  <2>2. fragment'[t].count # 0 BY <1>6, <1>11
  <2> QED BY <1>4, <1>11, <1>18, <2>1, <2>2 DEF IInv, FragmentInv, HasRoom
<1>20. RoomInv'
  <2> DEFINE New(u) == /\ fragment'[u].puddle \in Range(list') /\ 1 <= fragment'[u].next
                       /\ fragment'[u].top <= current'[fragment'[u].puddle] + 1
                       /\ fragment'[u].count + (fragment'[u].top - fragment'[u].next) <= FragmentSize
                       /\ \A i \in Places : fragment'[u].next <= i /\ i < fragment'[u].top =>
                            slots'[fragment'[u].puddle][i] = Empty
             Apart(u, v) == u # v /\ HasRoom(u)' /\ HasRoom(v)' /\ fragment'[u].puddle = fragment'[v].puddle =>
                              fragment'[u].top <= fragment'[v].next \/ fragment'[v].top <= fragment'[u].next
  <2>1. \A i \in Places : i \in Nat BY DEF Places
  <2>2. \A u \in Threads \ {t} : HasRoom(u)' => HasRoom(u) BY <1>11 DEF HasRoom
  <2>3. \A u \in Threads \ {t} : HasRoom(u) /\ fragment[u].puddle = p =>
          fragment[u].top <= n \/ f.top <= fragment[u].next
    BY <1>2 DEF IInv, RoomInv, f, p, n
  <2>4. New(t)
    <3>1. 1 <= n + 1 /\ (f.count + 1) + (f.top - (n + 1)) <= FragmentSize BY <1>5, <1>6, <1>7
    <3>2. \A i \in Places : n + 1 <= i /\ i < f.top => slots'[p][i] = Empty
      <4> SUFFICES ASSUME NEW i \in Places, n + 1 <= i, i < f.top PROVE slots'[p][i] = Empty OBVIOUS
      <4>1. n <= i /\ i # n BY <1>6, <2>1 DEF n, f
      <4>2. slots[p][i] = Empty BY <1>7, <4>1
      <4> QED BY <1>8, <1>12, <4>1, <4>2
    <3> QED BY <1>3, <1>7, <1>11, <3>1, <3>2
  <2>5. ASSUME NEW u \in Threads \ {t}, HasRoom(u)' PROVE New(u)
    <3>1. fragment'[u] = fragment[u] /\ HasRoom(u) BY <1>11, <2>2, <2>5
    <3>2. fragment[u].puddle \in Range(list) /\ fragment[u].puddle \in Puddles
      <4>1. fragment[u].puddle \in Range(list) BY <3>1 DEF IInv, RoomInv
      <4> QED BY <1>1, <4>1, RangeIs DEF PoolTypes
    <3>3. fragment[u].next \in Nat /\ fragment[u].top \in Nat BY <1>1, FragmentOf
    <3>4. ASSUME NEW i \in Places, fragment[u].next <= i, i < fragment[u].top
          PROVE  slots'[fragment[u].puddle][i] = Empty
      <4>1. slots[fragment[u].puddle][i] = Empty BY <3>1, <3>4 DEF IInv, RoomInv
      <4>2. ~(fragment[u].puddle = p /\ i = n) BY <1>6, <1>7, <2>1, <2>3, <3>1, <3>3, <3>4 DEF n, f
      <4> QED BY <1>12, <3>2, <4>1, <4>2
    <3> QED BY <1>3, <3>1, <3>4 DEF IInv, RoomInv
  <2>6. \A u \in Threads \ {t} : HasRoom(u)' /\ fragment'[u].puddle = p =>
          fragment'[u].top <= fragment'[t].next \/ fragment'[t].top <= fragment'[u].next
    <3> SUFFICES ASSUME NEW u \in Threads \ {t}, HasRoom(u)', fragment'[u].puddle = p
                 PROVE  fragment'[u].top <= n + 1 \/ f.top <= fragment'[u].next
      BY <1>11
    <3>1. fragment'[u] = fragment[u] /\ fragment[u].top \in Nat BY <1>1, <1>11, FragmentOf
    <3>2. n \in Nat BY <1>6 DEF n, f
    <3> QED BY <2>2, <2>3, <3>1, <3>2
  <2>7. ASSUME NEW u \in Threads, NEW v \in Threads PROVE Apart(u, v)
    <3>1. CASE u = t BY <1>11, <2>6, <3>1
    <3>2. CASE v = t BY <1>11, <2>6, <3>2
    <3>3. CASE u # t /\ v # t
      <4>1. fragment'[u] = fragment[u] /\ fragment'[v] = fragment[v] BY <1>11, <3>3
      <4> QED BY <2>2, <3>3, <4>1 DEF IInv, RoomInv
    <3> QED BY <3>1, <3>2, <3>3
  <2>8. \A u \in Threads : HasRoom(u)' => New(u) BY <2>4, <2>5
  <2> QED BY <2>7, <2>8 DEF RoomInv
<1>21. EmptyInv'
  <2>1. ASSUME NEW q \in Puddles, NEW i \in Places, current[q] < i PROVE slots'[q][i] = Empty
    <3>1. ~(q = p /\ i = n)
      <4>1. current[p] \in Nat /\ n \in Nat /\ n <= current[p]
        BY <1>1, <1>5, <1>6, <1>7, <1>8 DEF SlotTypes, n, f
      <4> QED BY <2>1, <4>1
    <3> QED BY <1>12, <2>1, <3>1 DEF IInv, EmptyInv
  <2> QED BY <1>3, <2>1 DEF IInv, EmptyInv
<1>22. LinkInv' BY <1>3, <1>4, LinkSame DEF IInv
<1>23. IteratorInv' /\ UnitInv' /\ SplitInv'
  <2>1. \A q \in Puddles : current[q] \in Nat BY <1>1, ConstantsAssumption DEF SlotTypes
  <2>2. \A q \in Puddles : current[q] <= current[q] BY <2>1
  <2>3. \A q \in Puddles, i \in Places : slots[q][i] # Empty => slots'[q][i] = slots[q][i] BY <1>9, <1>12
  <2> QED BY <1>3, <1>4, <1>17, <2>1, <2>2, <2>3, WorkFrame
<1>24. o \in remembered /\ OnItsWay(o) /\ (back[t] # "run" => o \in young)
  <2>1. o # None BY <1>10, ConstantsAssumption
  <2> QED BY <2>1 DEF IInv, ObjectInv, OnItsWay, o
<1>25. SlotInv' BY <1>3, <1>4, <1>10, <1>14, <1>24 DEF IInv, SlotInv
<1>26. FlagInv'
  <2> SUFFICES ASSUME ~overflow, NEW q \in Puddles, NEW i \in Places, NEW u \in Objects
               PROVE  /\ slots'[q][i] = Flagged(u) => FlaggedRight(q, i, u)'
                      /\ slots'[q][i] = Entry(u) => EntryRight(q, i, u)'
    BY <1>3 DEF FlagInv
  <2>1. /\ (Ahead(q, i)' <=> Ahead(q, i)) /\ (Pending(q, i)' <=> Pending(q, i))
        /\ (Unpruned(q, i)' <=> Unpruned(q, i))
    BY <1>3, <1>4, WorkSame
  <2>2. FlaggedRight(q, i, u) => FlaggedRight(q, i, u)' BY <1>3, <1>17, <2>1 DEF FlaggedRight
  <2>3. EntryRight(q, i, u) => EntryRight(q, i, u)' BY <1>3, <1>17, <2>1 DEF EntryRight
  <2>4. CASE q = p /\ i = n
    <3>1. slots'[q][i] = Entry(o) BY <1>8, <1>12, <2>4
    <3>2. slots'[q][i] # Flagged(u) /\ (slots'[q][i] = Entry(u) => u = o) BY <1>10, <3>1, EntriesAre
    <3>3. o \in young \/ RunPhase
      <4>1. back[t] = "run" => RunPhase BY <1>1, <1>18, PhaseOf DEF IInv
      <4> QED BY <1>24, <4>1
    <3> QED BY <1>3, <1>17, <3>2, <3>3 DEF EntryRight
  <2>5. CASE ~(q = p /\ i = n)
    <3>1. slots'[q][i] = slots[q][i] BY <1>12, <2>5
    <3> QED BY <2>2, <2>3, <3>1 DEF IInv, FlagInv
  <2> QED BY <2>4, <2>5
<1>27. DoneInv' BY <1>3, <1>17 DEF IInv, DoneInv
<1>28. CountExact'
  <2>1. Uncounted(Threads)' + f.count = Uncounted(Threads) + (f.count + 1)
    <3>1. \A u \in Threads \ {t} : fragment'[u].count = fragment[u].count BY <1>11
    <3>2. Uncounted(Threads)' + fragment[t].count = Uncounted(Threads) + fragment'[t].count
      BY <1>1, <1>15, <3>1, UncountedNext
    <3> QED BY <1>11, <3>2 DEF f
  <2>2. Filled = Full(slots) BY <1>1, FilledIs DEF IInv, PoolTypes
  <2>3. Filled' = Full(slots') BY <1>1, <1>3, <1>15, <1>21, FilledNext DEF PoolTypes
  <2>4. Unreported' = Unreported BY <1>3 DEF Unreported
  <2>5. Uncounted(Threads) \in Nat /\ count \in Nat /\ f.count \in Nat BY <1>1, <1>6, UncountedIs DEF NumberTypes
  <2>6. Uncounted(Threads)' \in Nat BY <1>11, CountsOf DEF Uncounted
  <2>7. Cardinality(Full(slots)) \in Nat /\ Cardinality(Unreported) \in Nat BY <1>1, FullFinite, UnreportedIs
  <2>8. count + Uncounted(Threads) = Cardinality(Full(slots)) + Cardinality(Unreported)
    BY <2>2 DEF IInv, CountExact
  <2>9. count + Uncounted(Threads)' = Cardinality(Full(slots')) + Cardinality(Unreported)
    BY <1>14, <2>1, <2>5, <2>6, <2>7, <2>8
  <2> QED BY <1>3, <2>3, <2>4, <2>9 DEF CountExact
<1>29. SizeInv' BY <1>3 DEF IInv, SizeInv
<1> QED BY <1>4, <1>16, <1>17, <1>19, <1>20, <1>21, <1>22, <1>23, <1>25, <1>26, <1>27, <1>28, <1>29 DEF IInv

-----------------------------------------------------------------------------
(* The scan. *)

LEMMA ExclusiveNext ==
    /\ RunPhase' => ~ScanPhase' /\ ~PrunePhase' /\ ~RebuildPhase' /\ ~DonePhase' /\ ~CompactPhase'
    /\ ScanPhase' => ~RunPhase' /\ ~PrunePhase' /\ ~RebuildPhase' /\ ~DonePhase' /\ ~CompactPhase'
    /\ PrunePhase' => ~RunPhase' /\ ~ScanPhase' /\ ~RebuildPhase' /\ ~CompactPhase'
    /\ RebuildPhase' => ~RunPhase' /\ ~ScanPhase' /\ ~PrunePhase' /\ ~DonePhase' /\ ~CompactPhase'
    /\ DonePhase' => ~RunPhase' /\ ~ScanPhase' /\ ~RebuildPhase' /\ ~CompactPhase'
    /\ CompactPhase' => ~RunPhase' /\ ~ScanPhase' /\ ~PrunePhase' /\ ~RebuildPhase' /\ ~DonePhase'
<1>1. Master \in Threads BY ConstantsAssumption
<1>2. RunPhase' => Stage(Master)' = "run" BY <1>1 DEF RunPhase, InStages
<1>3. ScanPhase' => Stage(Master)' \in ScanStages BY <1>1 DEF ScanPhase, InStages
<1>4. PrunePhase' => Stage(Master)' \in {"prune", "pruneSlots", "pruneOverflow", "done"}
  BY <1>1 DEF PrunePhase, InStages
<1>5. RebuildPhase' => Stage(Master)' = "rebuild" BY DEF RebuildPhase
<1>6. DonePhase' => Stage(Master)' = "done" BY <1>1 DEF DonePhase, InStages
<1>7. CompactPhase' => Stage(Master)' = "compact" BY <1>1 DEF CompactPhase, InStages
<1> QED BY <1>2, <1>3, <1>4, <1>5, <1>6, <1>7 DEF ScanStages

LEMMA InScan ==
    ASSUME IInv, NEW t \in Threads, pc[t] \in ScanStages
    PROVE  /\ pc[t] \notin AddPlaces /\ Stage(t) = pc[t] /\ ScanPhase
           /\ ~RunPhase /\ ~PrunePhase /\ ~RebuildPhase /\ ~DonePhase /\ ~CompactPhase
           /\ units = <<>> /\ rest = <<>> /\ dest = 0 /\ walk = {}
           /\ \A u \in Threads : pc[u] # "pruneSlots" /\ iterator[u].removed = 0
           /\ \A u \in Threads : held[u] # 0 => u \in Holders
           /\ pc[t] \in {"pop", "slots", "verdict"} => ~overflowAtStart
           /\ pc[t] # "scan" => fragment[t].count = 0
<1>1. PcTypes BY TypeIs DEF IInv
<1>2. pc[t] \notin AddPlaces /\ Stage(t) = pc[t] BY DEF ScanStages, AddPlaces, Stage
<1>3. ScanPhase BY <1>1, <1>2, PhaseOf DEF IInv
<1>4. ~RunPhase /\ ~PrunePhase /\ ~RebuildPhase /\ ~DonePhase /\ ~CompactPhase BY <1>3, Exclusive
<1>5. units = <<>> BY <1>2 DEF IInv, UnitInv, InStages, ScanStages
<1>6. rest = <<>> /\ dest = 0 BY <1>4 DEF IInv, LinkInv
<1>7. walk = {} BY <1>4 DEF IInv, ObjectInv
<1>8. \A u \in Threads : pc[u] # "pruneSlots" BY <1>3 DEF ScanPhase, InStages, Stage, ScanStages, AddPlaces
<1>9. \A u \in Threads : iterator[u].removed = 0 BY <1>8 DEF IInv, IteratorInv
<1>10. \A u \in Threads : held[u] # 0 => u \in Holders BY <1>8 DEF IInv, LinkInv, Holders
<1>11. pc[t] \in {"pop", "slots", "verdict"} => ~overflowAtStart BY <1>2, <1>3 DEF ScanPhase, InStages
<1>12. pc[t] # "scan" => fragment[t].count = 0 BY <1>2 DEF IInv, FragmentInv, ScanStages
<1> QED BY <1>2, <1>3, <1>4, <1>5, <1>6, <1>7, <1>8, <1>9, <1>10, <1>11, <1>12

\* One thread goes from one stage of the scan to another.
LEMMA ScanMoves ==
    ASSUME IInv, NEW t \in Threads, NEW b \in ScanStages, pc[t] \in ScanStages, pc' = [pc EXCEPT ![t] = b],
           UNCHANGED <<back, overflow, overflowAtStart>>,
           b = "scan" \/ fragment[t].count = 0,
           overflowAtStart => pc[t] = "begin" /\ b = "overflowed",
           ~overflowAtStart => b # "overflowed"
    PROVE  /\ PcTypes' /\ PhaseInv' /\ DoneInv' /\ ScanPhase'
           /\ ~RunPhase' /\ ~PrunePhase' /\ ~RebuildPhase' /\ ~DonePhase' /\ ~CompactPhase'
           /\ pc'[t] = b /\ \A u \in Threads \ {t} : pc'[u] = pc[u] /\ Stage(u)' = Stage(u)
           /\ Stage(t)' = b
           /\ UNCHANGED <<object, seen>> /\ Range(list) \subseteq Range(list') => AddInv'
           /\ UNCHANGED fragment => FragmentInv'
<1>1. PcTypes BY TypeIs DEF IInv
<1>2. pc'[t] = b /\ \A u \in Threads \ {t} : pc'[u] = pc[u] BY <1>1 DEF PcTypes
<1>3. PcTypes' BY <1>1 DEF PcTypes, Pcs, ScanStages
<1>4. pc[t] \notin AddPlaces /\ b \notin AddPlaces BY DEF ScanStages, AddPlaces
<1>5. Stage(t)' = b /\ \A u \in Threads \ {t} : Stage(u)' = Stage(u) BY <1>2, <1>4 DEF Stage
<1>6. ScanPhase /\ Stage(t) = pc[t] BY InScan
<1>7. ScanPhase'
  <2>1. InStages(ScanStages)' BY <1>5, <1>6 DEF ScanPhase, InStages
  <2>2. CASE overflowAtStart
    <3>1. InStages({"begin", "overflowed"}) /\ overflow BY <1>6, <2>2 DEF ScanPhase, InStages
    <3>2. InStages({"begin", "overflowed"})' BY <1>5, <2>2, <3>1 DEF InStages
    <3> QED BY <2>1, <2>2, <3>1, <3>2 DEF ScanPhase
  <2>3. CASE ~overflowAtStart
    <3>1. InStages(ScanStages \ {"overflowed"}) BY <1>6, <2>3 DEF ScanPhase
    <3>2. InStages(ScanStages \ {"overflowed"})' BY <1>5, <2>3, <3>1 DEF InStages
    <3> QED BY <2>1, <2>3, <3>2 DEF ScanPhase
  <2> QED BY <2>2, <2>3
<1>8. ~RunPhase' /\ ~PrunePhase' /\ ~RebuildPhase' /\ ~DonePhase' /\ ~CompactPhase' BY <1>7, ExclusiveNext
<1>9. PhaseInv' BY <1>7 DEF PhaseInv
<1>10. DoneInv' BY <1>8 DEF DoneInv
<1>11. \A u \in Threads : pc'[u] = pc[u] \/ (pc[u] \notin AddPlaces /\ pc'[u] \notin AddPlaces) BY <1>2, <1>4
<1>12. ASSUME UNCHANGED <<object, seen>>, Range(list) \subseteq Range(list') PROVE AddInv'
  <2>1. \A u \in Threads : seen[u] # 0 => seen[u] \in Range(list') BY <1>12 DEF IInv, AddInv
  <2> QED BY <1>11, <1>12, <2>1, AddFrame DEF IInv, addVars
<1>13. ASSUME UNCHANGED fragment PROVE FragmentInv'
  <2>1. \A u \in Threads : \/ pc'[u] = pc[u]
                           \/ /\ pc[u] \notin AddPlaces /\ pc'[u] \notin AddPlaces
                              /\ fragment[u].count = 0 \/ pc'[u] \in {"run", "scan", "rebuild"}
    BY <1>2, <1>4
  <2> QED BY <1>13, <2>1, FragmentFrame DEF IInv
<1> QED BY <1>2, <1>3, <1>5, <1>7, <1>8, <1>9, <1>10, <1>12, <1>13

LEMMA ScavengeRememberedSetStep ==
    ASSUME IInv, NEW t \in Threads, ScavengeRememberedSet(t)
    PROVE  IInv'
<1>1. /\ SlotTypes /\ PoolTypes /\ ObjectTypes /\ PcTypes /\ NumberTypes /\ FlagTypes /\ FragmentTypes
      /\ IteratorTypes
  BY TypeIs DEF IInv
<1> DEFINE b == IF overflowAtStart THEN "overflowed" ELSE "pop"
<1>2. pc[t] = "begin" /\ pc[t] \in ScanStages /\ b \in ScanStages /\ pc' = [pc EXCEPT ![t] = b]
  BY DEF ScavengeRememberedSet, Goto, InOverflow, ScanStages
<1>3. /\ UNCHANGED <<live, list, alloc, previous, currentSize, rest, dest, slots, current, count, overflow>>
      /\ UNCHANGED <<overflowAtStart, units, walk, cycles, splits, seen, fragment, held, iterator>>
      /\ UNCHANGED <<remembered, young, back, object>>
  BY DEF ScavengeRememberedSet, poolVars, compactVars, puddleVars, cycleVars, scanVars, objectVars, addVars
<1>4. /\ ScanPhase /\ ~RunPhase /\ ~PrunePhase /\ ~RebuildPhase /\ ~DonePhase /\ ~CompactPhase
      /\ units = <<>> /\ rest = <<>> /\ dest = 0 /\ walk = {} /\ fragment[t].count = 0
      /\ \A u \in Threads : pc[u] # "pruneSlots"
  BY <1>2, InScan
<1>5. /\ PcTypes' /\ PhaseInv' /\ DoneInv' /\ ScanPhase'
      /\ ~RunPhase' /\ ~PrunePhase' /\ ~RebuildPhase' /\ ~DonePhase' /\ ~CompactPhase'
      /\ pc'[t] = b /\ \A u \in Threads \ {t} : pc'[u] = pc[u] /\ Stage(u)' = Stage(u)
      /\ Stage(t)' = b /\ AddInv' /\ FragmentInv'
  <2>1. (overflowAtStart => pc[t] = "begin" /\ b = "overflowed") /\ (~overflowAtStart => b # "overflowed") BY <1>2
  <2> HIDE DEF b
  <2> QED BY <1>2, <1>3, <1>4, <2>1, ScanMoves
<1>6. TypeOK'
  <2>1. SlotTypes' /\ PoolTypes' /\ ObjectTypes' /\ NumberTypes' /\ FlagTypes' /\ FragmentTypes' /\ IteratorTypes'
    BY <1>1, <1>3 DEF SlotTypes, PoolTypes, ObjectTypes, NumberTypes, FlagTypes, FragmentTypes, IteratorTypes
  <2> QED BY <1>5, <2>1, TypeNext
<1>7. RoomInv' /\ EmptyInv' BY <1>3 DEF IInv, RoomInv, EmptyInv, HasRoom
<1>8. held[t] = 0 /\ pc'[t] \notin {"slots", "verdict", "pruneSlots"} BY <1>2, <1>5 DEF IInv, LinkInv
<1>9. LinkInv'
  <2>1. Holders' = Holders BY <1>3, <1>5, <1>8 DEF Holders
  <2>2. \A u \in Threads : held'[u] # 0 => pc'[u] \in WorkPlaces BY <1>3, <1>5, <1>8 DEF IInv, LinkInv, WorkPlaces
  <2>3. previous # <<>> => InStages(ScanStages \ {"scan"})'
    BY <1>2, <1>5 DEF IInv, LinkInv, InStages, ScanStages
  <2> QED BY <1>3, <1>4, <1>5, <2>1, <2>2, <2>3, LinkFrame DEF IInv
<1>10. IteratorInv' BY <1>2, <1>3, <1>5, <1>8 DEF IInv, IteratorInv, Slot
<1>11. UnitInv' BY <1>3, <1>4, <1>5, <1>8, UnitFrame DEF IInv
<1>12. SplitInv'
  <2>1. \A u \in Threads : pc'[u] \in {"slots", "verdict"} => pc'[u] = pc[u] BY <1>5, <1>8
  <2>2. splits # {} => ~overflowAtStart BY DEF IInv, SplitInv
  <2> QED BY <1>3, <1>5, <2>1, <2>2, SplitFrame DEF IInv
<1>13. ObjectInv' BY <1>3, <1>4 DEF IInv, ObjectInv
<1>14. SlotInv' BY <1>3, SlotFrame DEF IInv, OnItsWay
<1>15. FlagInv'
  <2>1. \A p \in Puddles, i \in Places : (Ahead(p, i)' <=> Ahead(p, i)) /\ (Pending(p, i)' <=> Pending(p, i))
    BY <1>2, <1>3, <1>5, <1>8 DEF Ahead, Pending
  <2>2. \A p \in Puddles, i \in Places : Unpruned(p, i)' <=> Unpruned(p, i)
    BY <1>2, <1>3, <1>5, <1>8 DEF Unpruned
  <2> QED BY <1>3, <1>4, <1>5, <2>1, <2>2, FlagFrame DEF IInv
<1>16. CountExact' /\ SizeInv' BY <1>3, CountFrame DEF IInv, SizeInv
<1> QED BY <1>5, <1>6, <1>7, <1>9, <1>10, <1>11, <1>12, <1>13, <1>14, <1>15, <1>16 DEF IInv

LEMMA PopPreviousPuddleStep ==
    ASSUME IInv, NEW t \in Threads, PopPreviousPuddle(t)
    PROVE  IInv'
<1>1. /\ SlotTypes /\ PoolTypes /\ ObjectTypes /\ PcTypes /\ NumberTypes /\ FlagTypes /\ FragmentTypes
      /\ IteratorTypes
  BY TypeIs DEF IInv
<1> DEFINE h == held[t]
           more == previous # <<>>
           p == Head(previous)
           b == IF more THEN "slots" ELSE "scan"
<1>2. /\ pc[t] = "pop" /\ pc[t] \in ScanStages /\ b \in ScanStages /\ pc' = [pc EXCEPT ![t] = b]
      /\ list' = Returned(h) /\ alloc' = AllocAfterReturn(h)
      /\ held' = [held EXCEPT ![t] = IF more THEN p ELSE 0]
      /\ previous' = IF more THEN Tail(previous) ELSE previous
      /\ ~more => iterator' = iterator
      /\ more => iterator' = [iterator EXCEPT ![t] = [NoIterator EXCEPT !.scan = 1]]
  BY DEF PopPreviousPuddle, Goto, ScanStages
<1>3. /\ UNCHANGED <<live, currentSize, rest, dest, slots, current, count, overflow, overflowAtStart, units, walk>>
      /\ UNCHANGED <<cycles, remembered, young, splits, back, object, seen, fragment>>
  BY DEF PopPreviousPuddle, compactVars, puddleVars, cycleVars, objectVars, addVars
<1>4. /\ ScanPhase /\ ~RunPhase /\ ~PrunePhase /\ ~RebuildPhase /\ ~DonePhase /\ ~CompactPhase
      /\ units = <<>> /\ rest = <<>> /\ dest = 0 /\ walk = {} /\ fragment[t].count = 0 /\ ~overflowAtStart
      /\ \A u \in Threads : pc[u] # "pruneSlots" /\ iterator[u].removed = 0
      /\ \A u \in Threads : held[u] # 0 => u \in Holders
  BY <1>2, InScan
<1>5. h \in live \cup {0} /\ 0 \notin Puddles /\ live \subseteq Puddles
  BY <1>1 DEF PoolTypes, Puddles
<1>6. /\ list \in Seq(live) /\ previous \in Seq(live) /\ IsInjective(list) /\ IsInjective(previous)
      /\ Range(list) \subseteq live /\ Range(previous) \subseteq live
  <2>1. list \in Seq(live) /\ previous \in Seq(live) BY <1>1 DEF PoolTypes
  <2> QED BY <2>1, RangeIs DEF IInv, LinkInv
<1>7. h # 0 => t \in Holders /\ h \in HeldPuddles /\ h \notin Range(list) /\ h \notin Range(previous)
  BY <1>4 DEF IInv, LinkInv, HeldPuddles
<1>8. more => /\ p \in live /\ p # 0 /\ p \in Range(previous) /\ Tail(previous) \in Seq(live) /\ IsInjective(Tail(previous))
              /\ Range(Tail(previous)) = Range(previous) \ {p}
  BY <1>5, <1>6, TailIs
<1>9. /\ list' \in Seq(live) /\ IsInjective(list') /\ Range(list') = Range(list) \cup ({h} \ {0})
      /\ alloc' = IF list' = <<>> THEN 0 ELSE Last(list')
  <2>1. alloc = IF list = <<>> THEN 0 ELSE Last(list) BY <1>4 DEF IInv, LinkInv
  <2>2. CASE h = 0 BY <1>2, <1>6, <2>1, <2>2 DEF Returned, AllocAfterReturn
  <2>3. CASE h # 0
    <3>1. list' = <<h>> \o list /\ alloc' = IF alloc = 0 THEN h ELSE alloc
      BY <1>2, <2>3 DEF Returned, AllocAfterReturn
    <3>2. h \in live BY <1>5, <2>3
    <3>3. /\ list' \in Seq(live) /\ list' # <<>> /\ Range(list') = Range(list) \cup {h} /\ IsInjective(list')
          /\ Last(list') = IF list = <<>> THEN h ELSE Last(list)
      <4> HIDE DEF h
      <4> QED BY <1>6, <1>7, <2>3, <3>1, <3>2, ConsIs
    <3>4. list # <<>> => Last(list) # 0 BY <1>5, <1>6, RangeIs
    <3> QED BY <2>1, <2>3, <3>1, <3>3, <3>4
  <2> QED BY <2>2, <2>3
<1>10. /\ previous' \in Seq(live) /\ IsInjective(previous')
       /\ Range(previous') = Range(previous) \ (IF more THEN {p} ELSE {})
       /\ previous' # <<>> => previous # <<>>
  BY <1>2, <1>6, <1>8
<1>11. /\ held'[t] = (IF more THEN p ELSE 0) /\ \A u \in Threads \ {t} : held'[u] = held[u] /\ iterator'[u] = iterator[u]
       /\ more => iterator'[t].scan = 1 /\ iterator'[t].removed = 0
       /\ iterator' \in [Threads -> Iterators] /\ held' \in [Threads -> live \cup {0}]
  <2> DEFINE n == [NoIterator EXCEPT !.scan = 1]
  <2>1. n \in Iterators /\ n.scan = 1 /\ n.removed = 0 BY ConstantsAssumption DEF NoIterator, Iterators
  <2>2. (~more => iterator' = iterator) /\ (more => iterator' = [iterator EXCEPT ![t] = n]) BY <1>2
  <2>3. iterator \in [Threads -> Iterators] /\ held \in [Threads -> live \cup {0}] BY <1>1 DEF IteratorTypes, PoolTypes
  <2> HIDE DEF n
  <2>4. held'[t] = (IF more THEN p ELSE 0) /\ \A u \in Threads \ {t} : held'[u] = held[u] BY <1>2, <2>3
  <2>5. held' \in [Threads -> live \cup {0}] BY <1>2, <1>8, <2>3
  <2>6. CASE more BY <2>1, <2>2, <2>3, <2>4, <2>5, <2>6
  <2>7. CASE ~more BY <2>2, <2>3, <2>4, <2>5, <2>7
  <2> QED BY <2>6, <2>7
<1>12. /\ PcTypes' /\ PhaseInv' /\ DoneInv' /\ ScanPhase'
       /\ ~RunPhase' /\ ~PrunePhase' /\ ~RebuildPhase' /\ ~DonePhase' /\ ~CompactPhase'
       /\ pc'[t] = b /\ \A u \in Threads \ {t} : pc'[u] = pc[u] /\ Stage(u)' = Stage(u)
       /\ Stage(t)' = b /\ AddInv' /\ FragmentInv'
  <2>1. b # "overflowed" /\ Range(list) \subseteq Range(list') BY <1>9
  <2> HIDE DEF b
  <2> QED BY <1>2, <1>3, <1>4, <2>1, ScanMoves
<1>13. (more => pc'[t] = "slots") /\ (~more => pc'[t] = "scan") BY <1>12
<1> HIDE DEF h, more, p, b
<1>14. TypeOK'
  <2>1. alloc' \in Puddles \cup {0} BY <1>5, <1>9, RangeIs
  <2>2. PoolTypes' BY <1>1, <1>3, <1>9, <1>10, <1>11, <2>1 DEF PoolTypes
  <2>3. IteratorTypes' BY <1>11 DEF IteratorTypes
  <2>4. SlotTypes' /\ ObjectTypes' /\ NumberTypes' /\ FlagTypes' /\ FragmentTypes'
    BY <1>1, <1>3 DEF SlotTypes, ObjectTypes, NumberTypes, FlagTypes, FragmentTypes
  <2> QED BY <1>12, <2>2, <2>3, <2>4, TypeNext
<1>15. RoomInv'
  <2>1. \A u \in Threads : HasRoom(u) => fragment[u].puddle \in Range(list') BY <1>9 DEF IInv, RoomInv
  <2> QED BY <1>3, <2>1, RoomFrame DEF IInv
<1>16. EmptyInv' BY <1>3 DEF IInv, EmptyInv
<1>17. Holders' = (Holders \ {t}) \cup (IF more THEN {t} ELSE {})
  BY <1>8, <1>11, <1>12, <1>13 DEF Holders
<1>18. HeldPuddles' = (HeldPuddles \ {h}) \cup (IF more THEN {p} ELSE {})
  <2>1. HeldPuddles' = {held'[u] : u \in Holders'} /\ HeldPuddles = {held[u] : u \in Holders} BY DEF HeldPuddles
  <2>2. \A u \in Holders \ {t} : held'[u] = held[u] /\ held[u] # h
    BY <1>4, <1>7, <1>11 DEF IInv, LinkInv, Holders, h
  <2>3. t \in Holders => held[t] = h BY DEF h
  <2> QED BY <1>11, <1>17, <2>1, <2>2, <2>3
<1>19. LinkInv'
  <2>1. live = Range(list) \cup Range(previous) \cup Range(rest) \cup HeldPuddles \cup ({dest} \ {0})
    BY DEF IInv, LinkInv
  <2>2. Range(rest) = {} BY <1>4, RangeOfEmpty
  <2>3. live' = Range(list') \cup Range(previous') \cup Range(rest') \cup HeldPuddles' \cup ({dest'} \ {0})
    <3>1. h # 0 => h \in live BY <1>5 DEF h
    <3>2. 0 \notin HeldPuddles BY DEF HeldPuddles, Holders
    <3> QED BY <1>3, <1>7, <1>8, <1>9, <1>10, <1>18, <2>1, <3>1, <3>2
  <2>4. Range(list') \cap Range(previous') = {} /\ HeldPuddles' \cap (Range(list') \cup Range(previous')) = {}
    <3>1. Range(list) \cap Range(previous) = {} /\ HeldPuddles \cap (Range(list) \cup Range(previous)) = {}
      BY DEF IInv, LinkInv
    <3> QED BY <1>7, <1>8, <1>9, <1>10, <1>18, <3>1
  <2>5. \A u, v \in Holders' : held'[u] = held'[v] => u = v
    <3>1. \A u, v \in Holders : held[u] = held[v] => u = v BY DEF IInv, LinkInv
    <3>2. \A u \in Holders \ {t} : held[u] \in HeldPuddles /\ u \in Threads BY DEF HeldPuddles, Holders
    <3>3. more => p \notin HeldPuddles BY <1>8 DEF IInv, LinkInv
    <3> QED BY <1>11, <1>17, <3>1, <3>2, <3>3
  <2>6. Range(list') \cap Range(rest') = {} /\ dest' \notin Range(list') \cup Range(rest') /\ rest' = <<>> /\ dest' = 0
    BY <1>3, <1>4, <1>5, <1>6, <1>9, <2>2
  <2>7. previous' # <<>> => InStages(ScanStages \ {"scan"})'
    <3>1. previous # <<>> => more BY DEF more
    <3>2. previous # <<>> => InStages(ScanStages \ {"scan"}) BY DEF IInv, LinkInv
    <3>3. "slots" \in ScanStages \ {"scan"} BY DEF ScanStages
    <3>4. Stage(t)' = pc'[t] BY <1>12
    <3> QED BY <1>10, <1>12, <1>13, <3>1, <3>2, <3>3, <3>4 DEF InStages
  <2>8. \A u \in Threads : held'[u] # 0 => pc'[u] \in {"pop", "slots", "verdict", "pruneSlots"}
    BY <1>11, <1>12, <1>13 DEF IInv, LinkInv
  <2>9. IsInjective(rest') BY <1>3 DEF IInv, LinkInv
  <2> QED BY <1>9, <1>10, <2>3, <2>4, <2>5, <2>6, <2>7, <2>8, <2>9 DEF LinkInv
<1>20. IteratorInv'
  <2> SUFFICES ASSUME NEW u \in Threads
               PROVE  /\ pc'[u] \in {"slots", "verdict", "pruneSlots"} => held'[u] # 0 /\ iterator'[u].scan # 0
                      /\ pc'[u] = "verdict" => iterator'[u].scan <= current'[held'[u]] /\ Slot(u)' # Empty
                      /\ iterator'[u].removed # 0 => pc'[u] = "pruneSlots"
    BY DEF IteratorInv
  <2>1. CASE u # t BY <1>3, <1>11, <1>12, <2>1 DEF IInv, IteratorInv, Slot
  <2>2. CASE u = t /\ more BY <1>8, <1>11, <1>13, <2>2
  <2>3. CASE u = t /\ ~more
    <3>1. iterator'[t].removed = 0 BY <1>2, <1>4, <2>3
    <3> QED BY <1>13, <2>3, <3>1
  <2> QED BY <2>1, <2>2, <2>3
<1>21. UnitInv'
  <2>1. \A u \in Threads : pc'[u] # "pruneSlots" BY <1>4, <1>12, <1>13
  <2> QED BY <1>3, <1>4, <2>1, RangeOfEmpty DEF UnitInv
<1>22. SplitInv'
  <2> SUFFICES ASSUME NEW s \in splits
               PROVE  /\ ScanPhase' /\ ~overflowAtStart'
                      /\ s[1] \notin Range(previous') /\ slots'[s[1]][s[2]] \in {Entry(s[3]), Flagged(s[3])}
                      /\ \A u \in Threads : held'[u] = s[1] =>
                           /\ pc'[u] = "slots" => s[2] < iterator'[u].scan
                           /\ pc'[u] = "verdict" => s[2] <= iterator'[u].scan
    BY <1>3 DEF SplitInv
  <2>1. s[1] \notin Range(previous) /\ s[1] # 0
    BY <1>1, <1>5 DEF IInv, SplitInv, PoolTypes
  <2>2. \A u \in Threads \ {t} : held'[u] = s[1] =>
                           /\ pc'[u] = "slots" => s[2] < iterator'[u].scan
                           /\ pc'[u] = "verdict" => s[2] <= iterator'[u].scan
    BY <1>11, <1>12 DEF IInv, SplitInv
  <2>3. held'[t] # s[1] BY <1>8, <1>11, <2>1
  <2>4. slots'[s[1]][s[2]] \in {Entry(s[3]), Flagged(s[3])} BY <1>3 DEF IInv, SplitInv
  <2> QED BY <1>3, <1>4, <1>10, <1>12, <2>1, <2>2, <2>3, <2>4
<1>23. ObjectInv' BY <1>3, <1>4 DEF IInv, ObjectInv
<1>24. SlotInv' BY <1>3, SlotFrame DEF IInv, OnItsWay
<1>25. FlagInv'
  <2>1. ASSUME NEW q \in Puddles, NEW i \in Places PROVE Ahead(q, i)' <=> Ahead(q, i)
    <3>1. \A u \in Threads \ {t} : held'[u] = held[u] /\ pc'[u] = pc[u] /\ iterator'[u] = iterator[u] BY <1>11, <1>12
    <3>2. i \in Nat /\ 1 <= i BY DEF Places
    <3>3. ASSUME Ahead(q, i) PROVE Ahead(q, i)'
      <4>1. CASE q \in Range(previous) /\ more /\ q = p BY <1>11, <1>13, <3>2, <4>1 DEF Ahead
      <4>2. CASE q \in Range(previous) /\ ~(more /\ q = p) BY <1>10, <4>2 DEF Ahead
      <4>3. CASE q \notin Range(previous) BY <1>2, <3>1, <3>3, <4>3 DEF Ahead
      <4> QED BY <4>1, <4>2, <4>3
    <3>4. ASSUME Ahead(q, i)' PROVE Ahead(q, i)
      <4>1. CASE q \in Range(previous') BY <1>10, <4>1 DEF Ahead
      <4>2. CASE held'[t] = q /\ pc'[t] \in {"slots", "verdict"} BY <1>8, <1>11, <1>13, <4>2 DEF Ahead
      <4>3. CASE q \notin Range(previous') /\ ~(held'[t] = q /\ pc'[t] \in {"slots", "verdict"})
        BY <3>1, <3>4, <4>3 DEF Ahead
      <4> QED BY <4>1, <4>2, <4>3
    <3> QED BY <3>3, <3>4
  <2>2. \A q \in Puddles, i \in Places : Pending(q, i)' <=> Pending(q, i) BY <1>2, <1>11, <1>12, <1>13 DEF Pending
  <2>3. \A q \in Puddles, i \in Places : Unpruned(q, i)' <=> Unpruned(q, i)
    BY <1>3, <1>4, <1>11, <1>12, <1>13 DEF Unpruned
  <2> QED BY <1>3, <1>4, <1>12, <2>1, <2>2, <2>3, FlagFrame DEF IInv
<1>26. CountExact'
  <2>1. \A u \in Threads : iterator'[u].removed = iterator[u].removed BY <1>2, <1>4, <1>11
  <2>2. Unreported' = Unreported
    <3>1. IteratorTypes' BY <1>11 DEF IteratorTypes
    <3> QED BY <1>1, <2>1, <3>1, UnreportedNext
  <2> QED BY <1>3, <2>2 DEF IInv, CountExact, Filled, Uncounted
<1>27. SizeInv' BY <1>3 DEF IInv, SizeInv
<1> QED BY <1>12, <1>14, <1>15, <1>16, <1>19, <1>20, <1>21, <1>22, <1>23, <1>24, <1>25, <1>26, <1>27 DEF IInv

LEMMA ScavengedPuddleStep ==
    ASSUME IInv, NEW t \in Threads, ScavengedPuddle(t)
    PROVE  IInv'
<1>1. /\ SlotTypes /\ PoolTypes /\ ObjectTypes /\ PcTypes /\ NumberTypes /\ FlagTypes /\ FragmentTypes
      /\ IteratorTypes
  BY TypeIs DEF IInv
<1>2. /\ pc[t] = "slots" /\ pc[t] \in ScanStages /\ "pop" \in ScanStages /\ pc' = [pc EXCEPT ![t] = "pop"]
      /\ iterator[t].scan > current[held[t]]
      /\ count' = count - iterator[t].removed /\ iterator' = [iterator EXCEPT ![t] = NoIterator]
  BY DEF ScavengedPuddle, Goto, ScanStages, AtEnd, EndOfPuddle
<1>3. /\ UNCHANGED <<live, list, alloc, previous, currentSize, rest, dest, slots, current, overflow>>
      /\ UNCHANGED <<overflowAtStart, units, walk, cycles, splits, seen, fragment, held>>
      /\ UNCHANGED <<remembered, young, back, object>>
  BY DEF ScavengedPuddle, poolVars, compactVars, puddleVars, cycleVars, objectVars, addVars
<1>4. /\ ScanPhase /\ ~RunPhase /\ ~PrunePhase /\ ~RebuildPhase /\ ~DonePhase /\ ~CompactPhase
      /\ units = <<>> /\ rest = <<>> /\ dest = 0 /\ walk = {} /\ fragment[t].count = 0 /\ ~overflowAtStart
      /\ \A u \in Threads : pc[u] # "pruneSlots" /\ iterator[u].removed = 0
  BY <1>2, InScan
<1>5. /\ PcTypes' /\ PhaseInv' /\ DoneInv' /\ ScanPhase'
      /\ ~RunPhase' /\ ~PrunePhase' /\ ~RebuildPhase' /\ ~DonePhase' /\ ~CompactPhase'
      /\ pc'[t] = "pop" /\ \A u \in Threads \ {t} : pc'[u] = pc[u] /\ Stage(u)' = Stage(u)
      /\ Stage(t)' = "pop" /\ AddInv' /\ FragmentInv'
  BY <1>2, <1>3, <1>4, ScanMoves
<1>6. /\ iterator' \in [Threads -> Iterators] /\ iterator'[t].removed = 0
      /\ \A u \in Threads \ {t} : iterator'[u] = iterator[u]
  <2>1. NoIterator \in Iterators /\ NoIterator.removed = 0 BY ConstantsAssumption DEF NoIterator, Iterators
  <2> HIDE DEF NoIterator
  <2> QED BY <1>1, <1>2, <2>1 DEF IteratorTypes
<1>7. count' = count BY <1>1, <1>2, <1>4 DEF NumberTypes
<1>8. TypeOK'
  <2>1. IteratorTypes' BY <1>6 DEF IteratorTypes
  <2>2. SlotTypes' /\ PoolTypes' /\ ObjectTypes' /\ NumberTypes' /\ FlagTypes' /\ FragmentTypes'
    BY <1>1, <1>3, <1>7 DEF SlotTypes, PoolTypes, ObjectTypes, NumberTypes, FlagTypes, FragmentTypes
  <2> QED BY <1>5, <2>1, <2>2, TypeNext
<1>9. RoomInv' /\ EmptyInv' BY <1>3 DEF IInv, RoomInv, EmptyInv, HasRoom
<1>10. LinkInv'
  <2>1. Holders' = Holders BY <1>2, <1>3, <1>5 DEF Holders
  <2>2. \A u \in Threads : held'[u] # 0 => pc'[u] \in WorkPlaces BY <1>3, <1>5 DEF IInv, LinkInv, WorkPlaces
  <2>3. previous # <<>> => InStages(ScanStages \ {"scan"})'
    BY <1>2, <1>5 DEF IInv, LinkInv, InStages, ScanStages
  <2> QED BY <1>3, <1>4, <1>5, <2>1, <2>2, <2>3, LinkFrame DEF IInv
<1>11. IteratorInv' BY <1>3, <1>5, <1>6 DEF IInv, IteratorInv, Slot
<1>12. UnitInv' BY <1>3, <1>4, <1>5, UnitFrame DEF IInv
<1>13. SplitInv' BY <1>3, <1>4, <1>5, <1>6 DEF IInv, SplitInv
<1>14. ObjectInv' BY <1>3, <1>4 DEF IInv, ObjectInv
<1>15. SlotInv' BY <1>3, SlotFrame DEF IInv, OnItsWay
<1>16. FlagInv'
  <2> SUFFICES ASSUME ~overflow, NEW p \in Puddles, NEW i \in Places, NEW u \in Objects
               PROVE  /\ slots[p][i] = Flagged(u) => FlaggedRight(p, i, u)'
                      /\ slots[p][i] = Entry(u) => EntryRight(p, i, u)'
    BY <1>3 DEF FlagInv
  <2>1. slots[p][i] # Empty /\ p = held[t] => ~(iterator[t].scan <= i)
    <3>1. slots[p][i] # Empty => ~(current[p] < i) BY DEF IInv, EmptyInv
    <3>2. current[p] \in Nat /\ i \in Nat /\ iterator[t].scan \in Nat
      BY <1>1, IteratorOf, ConstantsAssumption DEF SlotTypes, Places
    <3> QED BY <1>2, <3>1, <3>2
  <2>2. slots[p][i] # Empty => (Ahead(p, i)' <=> Ahead(p, i)) BY <1>2, <1>3, <1>5, <1>6, <2>1 DEF Ahead
  <2>3. Pending(p, i)' <=> Pending(p, i) BY <1>2, <1>3, <1>5, <1>6 DEF Pending
  <2>4. /\ slots[p][i] = Flagged(u) => FlaggedRight(p, i, u)
        /\ slots[p][i] = Entry(u) => EntryRight(p, i, u)
    BY DEF IInv, FlagInv
  <2>5. slots[p][i] = Flagged(u) \/ slots[p][i] = Entry(u) => slots[p][i] # Empty BY EntriesAre
  <2> QED BY <1>3, <1>4, <1>5, <2>2, <2>3, <2>4, <2>5 DEF FlaggedRight, EntryRight
<1>17. CountExact'
  <2>1. \A u \in Threads : iterator'[u].removed = iterator[u].removed BY <1>4, <1>6
  <2>2. Unreported' = Unreported
    <3>1. IteratorTypes' BY <1>6 DEF IteratorTypes
    <3> QED BY <1>1, <2>1, <3>1, UnreportedNext
  <2> QED BY <1>3, <1>7, <2>2 DEF IInv, CountExact, Filled, Uncounted
<1>18. SizeInv' BY <1>3 DEF IInv, SizeInv
<1> QED BY <1>5, <1>8, <1>9, <1>10, <1>11, <1>12, <1>13, <1>14, <1>15, <1>16, <1>17, <1>18 DEF IInv

LEMMA FlushToWaitStep ==
    ASSUME IInv, NEW t \in Threads, FlushToWait(t)
    PROVE  IInv'
<1>1. /\ SlotTypes /\ PoolTypes /\ ObjectTypes /\ PcTypes /\ NumberTypes /\ FlagTypes /\ FragmentTypes
      /\ IteratorTypes
  BY TypeIs DEF IInv
<1>2. count' = count + Uncounted({t}) /\ fragment' = Flushed({t}) BY DEF FlushToWait
<1>3. /\ UNCHANGED <<live, list, alloc, previous, currentSize, rest, dest, slots, current, overflow, pc, seen>>
      /\ UNCHANGED <<overflowAtStart, units, walk, cycles, remembered, young, splits, back, object, held, iterator>>
  BY DEF FlushToWait, poolVars, compactVars, puddleVars, cycleVars, objectVars, scanVars, addVars
<1>4. fragment'[t] = NoFragment /\ \A u \in Threads \ {t} : fragment'[u] = fragment[u]
  BY <1>2 DEF Flushed
<1>5. SameStages /\ SameWork BY <1>3 DEF SameStages, SameWork, Stage
<1>6. FragmentTypes'
  <2>1. NoFragment \in Fragments BY ConstantsAssumption DEF NoFragment, Fragments
  <2>2. fragment' \in [Threads -> Fragments] BY <1>1, <1>2, <2>1 DEF FragmentTypes, Flushed
  <2> QED BY <1>1, <1>3, <2>2 DEF FragmentTypes
<1>7. Uncounted({t}) = fragment[t].count /\ fragment[t].count \in Nat BY <1>1, UncountedIs, FragmentOf
<1>8. TypeOK'
  <2>1. NumberTypes' BY <1>1, <1>2, <1>3, <1>7 DEF NumberTypes
  <2>2. SlotTypes' /\ PoolTypes' /\ ObjectTypes' /\ PcTypes' /\ FlagTypes' /\ IteratorTypes'
    BY <1>1, <1>3 DEF SlotTypes, PoolTypes, ObjectTypes, PcTypes, FlagTypes, IteratorTypes
  <2> QED BY <1>6, <2>1, <2>2, TypeNext
<1>9. PhaseInv' /\ ObjectInv' /\ SlotInv' /\ FlagInv' /\ DoneInv' /\ (ScanPhase' <=> ScanPhase)
  BY <1>3, <1>5, ObjectFrame
<1>10. AddInv' BY <1>3 DEF IInv, AddInv
<1>11. ~HasRoom(t)' /\ fragment'[t].count = 0 BY <1>4 DEF HasRoom, NoFragment
<1>12. FragmentInv'
  <2>1. \A u \in Threads \ {t} : Stage(u)' = Stage(u) BY <1>5 DEF SameStages
  <2> QED BY <1>3, <1>4, <1>11, <2>1 DEF IInv, FragmentInv, HasRoom
<1>13. RoomInv'
  <2>1. \A u \in Threads : HasRoom(u)' => fragment'[u] = fragment[u] BY <1>4, <1>11
  <2>2. \A u \in Threads : HasRoom(u) => fragment[u].puddle \in Range(list) BY DEF IInv, RoomInv
  <2> QED BY <1>3, <2>1, <2>2, RoomFrame DEF IInv
<1>14. EmptyInv' BY <1>3 DEF IInv, EmptyInv
<1>15. LinkInv' BY <1>3, <1>5, LinkSame DEF IInv
<1>16. IteratorInv' /\ UnitInv' /\ SplitInv'
  <2>1. \A p \in Puddles : current[p] \in Nat BY <1>1, ConstantsAssumption DEF SlotTypes
  <2>2. \A p \in Puddles : current[p] <= current[p] BY <2>1
  <2> QED BY <1>3, <1>5, <1>9, <2>1, <2>2, WorkFrame
<1>17. CountExact'
  <2>1. Uncounted(Threads)' + fragment[t].count = Uncounted(Threads) + fragment'[t].count
    BY <1>1, <1>4, <1>6, UncountedNext
  <2>2. Filled' = Filled /\ Unreported' = Unreported BY <1>3 DEF Filled, Unreported
  <2>3. Uncounted(Threads) \in Nat /\ count \in Nat BY <1>1, UncountedIs DEF NumberTypes
  <2>4. Uncounted(Threads)' \in Nat
    <3>1. fragment' \in [Threads -> Fragments] BY <1>6 DEF FragmentTypes
    <3> QED BY <3>1, CountsOf DEF Uncounted
  <2>5. count' + Uncounted(Threads)' = count + Uncounted(Threads) BY <1>2, <1>7, <1>11, <2>1, <2>3, <2>4
  <2> QED BY <2>2, <2>5 DEF IInv, CountExact
<1>18. SizeInv' BY <1>3 DEF IInv, SizeInv
<1> QED BY <1>8, <1>9, <1>10, <1>12, <1>13, <1>14, <1>15, <1>16, <1>17, <1>18 DEF IInv

LEMMA ScanSplitStep ==
    ASSUME IInv, NEW t \in Threads, NEW s \in splits, ScanSplit(t, s)
    PROVE  IInv'
<1>1. /\ SlotTypes /\ PoolTypes /\ ObjectTypes /\ PcTypes /\ NumberTypes /\ FlagTypes /\ FragmentTypes
      /\ IteratorTypes
  BY TypeIs DEF IInv
<1> DEFINE p == s[1]
           i == s[2]
           o == s[3]
<1>2. /\ splits' = splits \ {s}
      /\ slots' = IF o \in young THEN [slots EXCEPT ![p][i] = Entry(o)] ELSE slots
  BY DEF ScanSplit
<1>3. /\ UNCHANGED <<live, list, alloc, previous, currentSize, rest, dest, current, count, overflow, pc, seen>>
      /\ UNCHANGED <<overflowAtStart, units, walk, cycles, remembered, young, back, object, held, iterator, fragment>>
  BY DEF ScanSplit, poolVars, compactVars, cycleVars, objectVars, scanVars, addVars
<1>4. p \in Puddles /\ i \in Places /\ o \in Objects /\ s = <<p, i, o>> BY <1>1 DEF PoolTypes
<1>5. slots[p][i] \in {Entry(o), Flagged(o)} BY DEF IInv, SplitInv
<1>6. /\ slots' \in SlotArrays
      /\ slots'[p][i] = Entry(o) \/ (slots'[p][i] = slots[p][i] /\ o \notin young)
      /\ o \in young => slots'[p][i] = Entry(o)
      /\ \A q \in Puddles, j \in Places : ~(q = p /\ j = i) => slots'[q][j] = slots[q][j]
  <2>1. slots \in SlotArrays BY <1>1 DEF SlotTypes, SlotArrays
  <2>2. CASE o \notin young BY <1>2, <2>1, <2>2
  <2>3. CASE o \in young
    <3>1. slots' = Put(slots, p, i, Entry(o)) BY <1>2, <2>3 DEF Put
    <3>2. Entry(o) \in Entries BY <1>4, EntriesAre
    <3> HIDE DEF p, i, o
    <3>3. /\ slots' \in SlotArrays
          /\ \A q \in Puddles, j \in Places : slots'[q][j] = IF q = p /\ j = i THEN Entry(o) ELSE slots[q][j]
      BY <1>4, <2>1, <3>1, <3>2, Written
    <3> QED BY <1>4, <3>3
  <2> QED BY <2>2, <2>3
<1> HIDE DEF p, i, o
<1>7. SameStages /\ SameWork BY <1>3 DEF SameStages, SameWork, Stage
<1>8. SlotTypes' /\ PoolTypes'
  <2>1. splits' \subseteq splits BY <1>2
  <2> QED BY <1>1, <1>3, <1>6, <2>1 DEF SlotTypes, SlotArrays, PoolTypes
<1>9. TypeOK'
  <2>1. ObjectTypes' /\ PcTypes' /\ NumberTypes' /\ FlagTypes' /\ FragmentTypes' /\ IteratorTypes'
    BY <1>1, <1>3 DEF ObjectTypes, PcTypes, NumberTypes, FlagTypes, FragmentTypes, IteratorTypes
  <2> QED BY <1>8, <2>1, TypeNext
<1>10. /\ PhaseInv' /\ (RunPhase' <=> RunPhase) /\ (CompactPhase' <=> CompactPhase)
       /\ (ScanPhase' <=> ScanPhase) /\ (PrunePhase' <=> PrunePhase) /\ (RebuildPhase' <=> RebuildPhase)
       /\ (DonePhase' <=> DonePhase)
  BY <1>3, <1>7, StagesSame, PhasesSame DEF IInv
<1>11. AddInv' BY <1>3 DEF IInv, AddInv
<1>12. FragmentInv' BY <1>3 DEF IInv, FragmentInv, HasRoom, Stage
<1>13. slots[p][i] # Empty /\ slots'[p][i] # Empty BY <1>4, <1>5, <1>6, EntriesAre
<1>14. RoomInv'
  <2>1. \A u \in Threads : HasRoom(u) =>
          /\ fragment[u].puddle \in Range(list') /\ fragment[u].puddle \in Puddles
          /\ \A j \in Places : fragment[u].next <= j /\ j < fragment[u].top =>
               slots[fragment[u].puddle][j] = Empty
    BY <1>1, <1>3, RangeIs DEF IInv, RoomInv, PoolTypes
  <2>2. \A u \in Threads : HasRoom(u) => \A j \in Places : fragment[u].next <= j /\ j < fragment[u].top =>
               slots'[fragment[u].puddle][j] = slots[fragment[u].puddle][j]
    BY <1>6, <1>13, <2>1
  <2> QED BY <1>3, <2>1, <2>2, RoomFrame DEF IInv
<1>15. EmptyInv' BY <1>3, <1>6, <1>13 DEF IInv, EmptyInv
<1>16. LinkInv' BY <1>3, <1>7, LinkSame DEF IInv
<1>17. IteratorInv'
  <2>1. ASSUME NEW u \in Threads, pc[u] = "verdict" PROVE Slot(u)' # Empty
    <3>1. held[u] # 0 /\ iterator[u].scan # 0 /\ iterator[u].scan <= current[held[u]] /\ Slot(u) # Empty
      BY <2>1 DEF IInv, IteratorInv
    <3>2. held[u] \in Puddles BY <1>1, <3>1 DEF PoolTypes
    <3>3. iterator[u].scan \in Places
      BY <1>1, <3>1, <3>2, SlotTypeOf, IteratorOf, ConstantsAssumption DEF Places
    <3> QED BY <1>3, <1>6, <1>13, <3>1, <3>2, <3>3 DEF Slot
  <2> QED BY <1>3, <2>1 DEF IInv, IteratorInv
<1>18. UnitInv' BY <1>3, <1>7, StagesSame DEF IInv, UnitInv
<1>19. SplitInv'
  <2>1. \A x \in splits' : x \in splits /\ slots'[x[1]][x[2]] = slots[x[1]][x[2]]
    <3> SUFFICES ASSUME NEW x \in splits' PROVE x \in splits /\ slots'[x[1]][x[2]] = slots[x[1]][x[2]] OBVIOUS
    <3>1. x \in splits /\ x # s BY <1>2
    <3>2. x[1] \in Puddles /\ x[2] \in Places /\ x[3] \in Objects /\ x = <<x[1], x[2], x[3]>> BY <1>1, <3>1 DEF PoolTypes
    <3>3. slots[x[1]][x[2]] \in {Entry(x[3]), Flagged(x[3])} BY <3>1 DEF IInv, SplitInv
    <3>4. ~(x[1] = p /\ x[2] = i)
      <4> SUFFICES ASSUME x[1] = p, x[2] = i PROVE FALSE OBVIOUS
      <4>1. x[3] = o BY <1>4, <1>5, <3>2, <3>3, EntriesAre
      <4> QED BY <1>4, <3>1, <3>2, <4>1
    <3> QED BY <1>6, <3>1, <3>2, <3>4
  <2>2. splits' \subseteq splits BY <1>2
  <2>3. splits # {} => ScanPhase' /\ ~overflowAtStart' BY <1>3, <1>10 DEF IInv, SplitInv
  <2> QED BY <1>3, <2>1, <2>2, <2>3, SplitFrame DEF IInv
<1>20. ObjectInv' BY <1>3, <1>10 DEF IInv, ObjectInv
<1> DEFINE z == <<p, i>>
<1>21. /\ z \in Spots /\ At(slots, z) = slots[p][i] /\ At(slots', z) = slots'[p][i]
       /\ \A x \in Spots : x # z => At(slots', x) = At(slots, x)
  <2>1. \A q \in Puddles, j \in Places :
          slots'[q][j] = IF q = p /\ j = i THEN slots'[p][i] ELSE slots[q][j]
    BY <1>4, <1>6
  <2> QED BY <1>4, <2>1, SpotsAre, AtWritten
<1>22. /\ Full(slots') = Full(slots)
       /\ OneSlot(slots') <=> OneSlot(slots)
       /\ \A u \in Objects : HasSlot(slots', u) <=> HasSlot(slots, u)
  <2> HIDE DEF z
  <2>1. HoldsAt(slots, z, o) BY <1>4, <1>5, <1>21, EntriesAre DEF HoldsAt
  <2>2. At(slots', z) = Entry(o) \/ At(slots', z) = Flagged(o) BY <1>5, <1>6, <1>21
  <2> QED BY <1>4, <1>21, <2>1, <2>2, FlagWritten
<1>23. SlotInv' BY <1>3, <1>22 DEF IInv, SlotInv, OnItsWay
<1>24. FlagInv'
  <2> SUFFICES ASSUME ~overflow, NEW q \in Puddles, NEW j \in Places, NEW u \in Objects
               PROVE  /\ slots'[q][j] = Flagged(u) => FlaggedRight(q, j, u)'
                      /\ slots'[q][j] = Entry(u) => EntryRight(q, j, u)'
    BY <1>3 DEF FlagInv
  <2>1. /\ (Ahead(q, j)' <=> Ahead(q, j)) /\ (Pending(q, j)' <=> Pending(q, j))
        /\ (Unpruned(q, j)' <=> Unpruned(q, j))
    BY <1>3, <1>7, WorkSame
  <2>2. ASSUME FlaggedRight(q, j, u), ~(q = p /\ j = i) \/ u \notin young PROVE FlaggedRight(q, j, u)'
    <3>1. <<q, j, u>> \in splits /\ <<q, j, u>> # s => <<q, j, u>> \in splits' BY <1>2
    <3>2. ~(q = p /\ j = i) => <<q, j, u>> # s BY <1>4
    <3> QED BY <1>3, <1>10, <2>1, <2>2, <3>1, <3>2 DEF FlaggedRight
  <2>3. EntryRight(q, j, u) => EntryRight(q, j, u)' BY <1>3, <1>10, <2>1 DEF EntryRight
  <2>4. /\ slots[q][j] = Flagged(u) => FlaggedRight(q, j, u)
        /\ slots[q][j] = Entry(u) => EntryRight(q, j, u)
    BY DEF IInv, FlagInv
  <2>5. CASE q = p /\ j = i /\ o \in young
    <3>1. slots'[q][j] = Entry(o) BY <1>6, <2>5
    <3>2. slots'[q][j] # Flagged(u) /\ (slots'[q][j] = Entry(u) => u = o) BY <1>4, <3>1, EntriesAre
    <3> QED BY <1>3, <2>5, <3>2 DEF EntryRight
  <2>6. CASE q = p /\ j = i /\ o \notin young
    <3>1. slots'[q][j] = slots[q][j]
      BY <1>2, <2>6
    <3>2. slots[q][j] = Flagged(u) => u = o BY <1>4, <1>5, <2>6, EntriesAre
    <3> QED BY <2>2, <2>3, <2>4, <2>6, <3>1, <3>2
  <2>7. CASE ~(q = p /\ j = i)
    <3>1. slots'[q][j] = slots[q][j] BY <1>6, <2>7
    <3> QED BY <2>2, <2>3, <2>4, <2>7, <3>1
  <2> QED BY <2>5, <2>6, <2>7
<1>25. DoneInv' BY <1>3, <1>10 DEF IInv, DoneInv
<1>26. CountExact'
  <2>1. Filled = Full(slots) BY <1>1, FilledIs DEF IInv, PoolTypes
  <2>2. Filled' = Full(slots') BY <1>8, <1>15, FilledNext DEF PoolTypes
  <2> QED BY <1>3, <1>22, <2>1, <2>2 DEF IInv, CountExact, Uncounted, Unreported
<1>27. SizeInv' BY <1>3 DEF IInv, SizeInv
<1> QED BY <1>9, <1>10, <1>11, <1>12, <1>14, <1>15, <1>16, <1>17, <1>18, <1>19, <1>20, <1>23, <1>24, <1>25, <1>26,
          <1>27 DEF IInv

\* The puddle whose slots a thread scans is its own.
LEMMA ScannedIs ==
    ASSUME IInv, NEW t \in Threads, pc[t] \in {"slots", "verdict"}
    PROVE  /\ held[t] \in Puddles /\ held[t] \in live /\ held[t] \notin Range(list) /\ held[t] \notin Range(previous)
           /\ \A u \in Threads \ {t} : held[u] # held[t]
           /\ iterator[t].scan \in Nat \ {0} /\ current[held[t]] \in 0..GrowSize /\ current[held[t]] \in Nat
           /\ \A u \in Threads : HasRoom(u) => fragment[u].puddle \in Range(list) /\ fragment[u].puddle # held[t]
<1>1. SlotTypes /\ PoolTypes /\ IteratorTypes BY TypeIs DEF IInv
<1>2. held[t] # 0 /\ iterator[t].scan # 0 BY DEF IInv, IteratorInv
<1>3. held[t] \in live /\ held[t] \in Puddles BY <1>1, <1>2 DEF PoolTypes
<1>4. t \in Holders BY <1>2 DEF Holders
<1>5. held[t] \notin Range(list) /\ held[t] \notin Range(previous) BY <1>4 DEF IInv, LinkInv, HeldPuddles
<1>6. \A u \in Threads \ {t} : held[u] # held[t]
  <2>1. pc[t] \in ScanStages BY DEF ScanStages
  <2>2. \A u \in Threads : held[u] # 0 => u \in Holders BY <2>1, InScan
  <2> QED BY <1>2, <1>4, <2>2 DEF IInv, LinkInv
<1>7. iterator[t].scan \in Nat \ {0} BY <1>1, <1>2, IteratorOf
<1>8. current[held[t]] \in 0..GrowSize /\ current[held[t]] \in Nat BY <1>1, <1>3, ConstantsAssumption DEF SlotTypes
<1>9. \A u \in Threads : HasRoom(u) => fragment[u].puddle \in Range(list) /\ fragment[u].puddle # held[t]
  BY <1>5 DEF IInv, RoomInv
<1> QED BY <1>3, <1>5, <1>6, <1>7, <1>8, <1>9

\* A slot of the thread's own puddle is removed, which is NULL.
LEMMA ScavengeEmptyStep ==
    ASSUME IInv, NEW t \in Threads, ScavengeSlot(t), Slot(t) = Empty
    PROVE  IInv'
<1>1. /\ SlotTypes /\ PoolTypes /\ ObjectTypes /\ PcTypes /\ NumberTypes /\ FlagTypes /\ FragmentTypes
      /\ IteratorTypes
  BY TypeIs DEF IInv
<1> DEFINE p == held[t]
           i == iterator[t].scan
           k == current[p]
<1>2. /\ pc[t] = "slots" /\ pc[t] \in ScanStages /\ ~(i > k) /\ slots' = Without(slots, p, i, k)
      /\ current' = [current EXCEPT ![p] = k - 1]
      /\ iterator' = [iterator EXCEPT ![t].removed = @ + 0, ![t].scan = i]
  BY DEF ScavengeSlot, ScanStages, AtEnd, RemoveSlot, Without, Uncounts, BackUp
<1>3. /\ UNCHANGED <<live, list, alloc, previous, currentSize, rest, dest, overflow, pc, splits, count>>
      /\ UNCHANGED <<overflowAtStart, units, walk, cycles, seen, fragment, held>>
      /\ UNCHANGED <<remembered, young, back, object>>
  BY DEF ScavengeSlot, poolVars, compactVars, cycleVars, objectVars, addVars
<1>4. /\ ScanPhase /\ ~RunPhase /\ ~PrunePhase /\ ~RebuildPhase /\ ~DonePhase /\ ~CompactPhase
  BY <1>2, InScan
<1>5. /\ p \in Puddles /\ p \in live /\ p \notin Range(list) /\ p \notin Range(previous)
      /\ \A u \in Threads \ {t} : held[u] # p
      /\ i \in Nat \ {0} /\ k \in 0..GrowSize /\ k \in Nat
      /\ \A u \in Threads : HasRoom(u) => fragment[u].puddle \in Range(list) /\ fragment[u].puddle # p
  BY <1>2, ScannedIs
<1>6. i \in Places /\ k \in Places /\ k - 1 \in 0..GrowSize /\ k - 1 \in Nat
  BY <1>2, <1>5, ConstantsAssumption DEF Places
<1>7. slots[p][i] = Empty BY DEF Slot
<1>8. iterator' = iterator
  <2>1. iterator[t] \in Iterators /\ iterator \in [Threads -> Iterators] BY <1>1 DEF IteratorTypes
  <2>2. iterator[t].removed + 0 = iterator[t].removed BY <1>1, IteratorOf
  <2>3. [iterator[t] EXCEPT !.removed = @ + 0, !.scan = i] = iterator[t] BY <2>1, <2>2 DEF Iterators
  <2> QED BY <1>2, <2>1, <2>3
<1> HIDE DEF p, i, k
<1>9. slots' \in SlotArrays /\ Removes(slots, slots', p, i, k)
  <2>1. slots \in SlotArrays BY <1>1 DEF SlotTypes, SlotArrays
  <2> QED BY <1>2, <1>5, <1>6, <2>1, RemoveIs
<1>10. \A q \in Puddles, j \in Places :
         slots'[q][j] = IF q = p /\ j = k THEN Empty ELSE IF q = p /\ j = i THEN slots[p][k] ELSE slots[q][j]
  BY <1>9 DEF Removes
<1>11. current'[p] = k - 1 /\ \A q \in Puddles : q # p => current'[q] = current[q]
  BY <1>1, <1>2, <1>5 DEF SlotTypes
<1>12. SlotTypes'
  <2>1. current' \in [Puddles -> 0..GrowSize] BY <1>1, <1>2, <1>6 DEF SlotTypes
  <2> QED BY <1>9, <2>1 DEF SlotTypes, SlotArrays
<1>13. SameStages /\ SameWork BY <1>3, <1>8 DEF SameStages, SameWork, Stage
<1>14. TypeOK'
  <2>1. PoolTypes' /\ ObjectTypes' /\ PcTypes' /\ NumberTypes' /\ FlagTypes' /\ FragmentTypes' /\ IteratorTypes'
    BY <1>1, <1>3, <1>8 DEF PoolTypes, ObjectTypes, PcTypes, NumberTypes, FlagTypes, FragmentTypes, IteratorTypes
  <2> QED BY <1>12, <2>1, TypeNext
<1>15. /\ PhaseInv' /\ (RunPhase' <=> RunPhase) /\ (CompactPhase' <=> CompactPhase)
       /\ (ScanPhase' <=> ScanPhase) /\ (PrunePhase' <=> PrunePhase) /\ (RebuildPhase' <=> RebuildPhase)
       /\ (DonePhase' <=> DonePhase)
  BY <1>3, <1>13, StagesSame, PhasesSame DEF IInv
<1>16. AddInv' /\ FragmentInv' BY <1>3 DEF IInv, AddInv, FragmentInv, HasRoom, Stage
<1>17. RoomInv'
  <2>1. \A u \in Threads : HasRoom(u) => fragment[u].puddle \in Puddles
    BY <1>1, <1>5, RangeIs DEF PoolTypes
  <2>2. \A u \in Threads : HasRoom(u) =>
              /\ fragment[u].puddle \in Range(list')
              /\ current'[fragment[u].puddle] = current[fragment[u].puddle]
              /\ \A j \in Places : slots'[fragment[u].puddle][j] = slots[fragment[u].puddle][j]
    BY <1>3, <1>5, <1>10, <1>11, <2>1
  <2> QED BY <1>3, <2>2, RoomFrame DEF IInv
<1>18. EmptyInv'
  <2>1. ASSUME NEW q \in Puddles, NEW j \in Places, current'[q] < j PROVE slots'[q][j] = Empty
    <3>1. CASE q # p BY <1>10, <1>11, <2>1, <3>1 DEF IInv, EmptyInv
    <3>2. CASE q = p /\ j = k BY <1>10, <3>2
    <3>3. CASE q = p /\ j # k
      <4>1. j \in Nat /\ i \in Nat /\ k \in Nat BY <1>5, ConstantsAssumption DEF Places
      <4>2. k < j /\ j # i BY <1>2, <1>11, <2>1, <3>3, <4>1
      <4>3. slots[p][j] = Empty BY <1>5, <4>2 DEF IInv, EmptyInv, k
      <4> QED BY <1>10, <3>3, <4>2, <4>3
    <3> QED BY <3>1, <3>2, <3>3
  <2>2. \A q \in Puddles : q \notin live' => current'[q] = 0 BY <1>3, <1>5, <1>11 DEF IInv, EmptyInv
  <2> QED BY <2>1, <2>2 DEF EmptyInv
<1>19. LinkInv' BY <1>3, <1>13, LinkSame DEF IInv
<1>20. IteratorInv'
  <2>1. ASSUME NEW u \in Threads, pc[u] = "verdict" PROVE iterator[u].scan <= current'[held[u]] /\ Slot(u)' # Empty
    <3>1. u # t BY <1>2, <2>1
    <3>2. held[u] \in Puddles /\ held[u] # p /\ iterator[u].scan \in Nat \ {0} BY <1>5, <2>1, <3>1, ScannedIs
    <3>3. iterator[u].scan <= current[held[u]] /\ Slot(u) # Empty BY <2>1 DEF IInv, IteratorInv
    <3>4. iterator[u].scan \in Places BY <1>1, <3>2, <3>3, SlotTypeOf, ConstantsAssumption DEF Places
    <3> QED BY <1>3, <1>8, <1>10, <1>11, <3>2, <3>3, <3>4 DEF Slot
  <2> QED BY <1>3, <1>8, <2>1 DEF IInv, IteratorInv
<1>21. UnitInv' BY <1>3, <1>13, StagesSame DEF IInv, UnitInv
<1>22. SplitInv'
  <2>1. \A s \in splits : slots'[s[1]][s[2]] = slots[s[1]][s[2]]
    <3> SUFFICES ASSUME NEW s \in splits PROVE slots'[s[1]][s[2]] = slots[s[1]][s[2]] OBVIOUS
    <3>1. s[1] \in Puddles /\ s[2] \in Places BY <1>1 DEF PoolTypes
    <3>2. s[1] = p => s[2] < i BY <1>2 DEF IInv, SplitInv, p, i
    <3>3. s[2] \in Nat BY <3>1 DEF Places
    <3>4. s[1] = p => s[2] # i /\ s[2] # k BY <1>2, <1>5, <3>2, <3>3
    <3> QED BY <1>10, <3>1, <3>4
  <2>2. splits # {} => ScanPhase' /\ ~overflowAtStart' BY <1>3, <1>15 DEF IInv, SplitInv
  <2> QED BY <1>3, <1>8, <2>1, <2>2, SplitFrame DEF IInv
<1>23. ObjectInv' BY <1>3, <1>15 DEF IInv, ObjectInv
<1>24. /\ Cardinality(Full(slots')) = Cardinality(Full(slots)) - 0
       /\ OneSlot(slots) => OneSlot(slots')
       /\ \A o \in Objects : HasSlot(slots', o) <=> \E x \in Spots \ {<<p, i>>} : HoldsAt(slots, x, o)
  BY <1>5, <1>6, <1>7, <1>9, SlotRemoved
<1>25. SlotInv'
  <2>1. At(slots, <<p, i>>) = Empty BY <1>7, SpotsAre
  <2>2. \A o \in Objects : HasSlot(slots', o) <=> HasSlot(slots, o) BY <1>24, <2>1 DEF HasSlot, HoldsAt
  <2> QED BY <1>3, <1>24, <2>2 DEF IInv, SlotInv, OnItsWay
<1>26. FlagInv'
  <2> SUFFICES ASSUME ~overflow, NEW q \in Puddles, NEW j \in Places, NEW u \in Objects
               PROVE  /\ slots'[q][j] = Flagged(u) => FlaggedRight(q, j, u)'
                      /\ slots'[q][j] = Entry(u) => EntryRight(q, j, u)'
    BY <1>3 DEF FlagInv
  <2>1. /\ (Ahead(q, j)' <=> Ahead(q, j)) /\ (Pending(q, j)' <=> Pending(q, j))
        /\ (Unpruned(q, j)' <=> Unpruned(q, j))
    BY <1>3, <1>13, WorkSame
  <2>2. FlaggedRight(q, j, u) => FlaggedRight(q, j, u)' BY <1>3, <1>15, <2>1 DEF FlaggedRight
  <2>3. EntryRight(q, j, u) => EntryRight(q, j, u)' BY <1>3, <1>15, <2>1 DEF EntryRight
  <2>4. CASE q = p /\ j = k
    <3>1. slots'[q][j] = Empty BY <1>10, <2>4
    <3> QED BY <3>1, EntriesAre
  <2>5. CASE q = p /\ j = i /\ j # k
    <3>1. slots'[q][j] = slots[p][k] BY <1>10, <2>5
    <3>2. Ahead(p, k) /\ Ahead(p, i)
      <4>1. i <= i /\ i <= k BY <1>2, <1>5
      <4>2. held[t] = p /\ iterator[t].scan = i BY DEF p, i
      <4> QED BY <1>2, <4>1, <4>2 DEF Ahead
    <3>3. slots[p][k] # Flagged(u)
      <4>1. slots[p][k] = Flagged(u) => FlaggedRight(p, k, u) BY <1>5, <1>6 DEF IInv, FlagInv
      <4> QED BY <1>4, <3>2, <4>1 DEF FlaggedRight
    <3>4. EntryRight(q, j, u) BY <1>4, <2>5, <3>2 DEF EntryRight
    <3> QED BY <2>3, <3>1, <3>3, <3>4
  <2>6. CASE ~(q = p /\ j = k) /\ ~(q = p /\ j = i)
    <3>1. slots'[q][j] = slots[q][j] BY <1>10, <2>6
    <3> QED BY <2>2, <2>3, <3>1 DEF IInv, FlagInv
  <2> QED BY <2>4, <2>5, <2>6
<1>27. DoneInv' BY <1>3, <1>15 DEF IInv, DoneInv
<1>28. CountExact'
  <2>1. Filled = Full(slots) BY <1>1, FilledIs DEF IInv, PoolTypes
  <2>2. Filled' = Full(slots') BY <1>1, <1>3, <1>12, <1>18, FilledNext DEF PoolTypes
  <2>3. Cardinality(Full(slots')) = Cardinality(Full(slots)) BY <1>24, FullFinite
  <2> QED BY <1>3, <1>8, <2>1, <2>2, <2>3 DEF IInv, CountExact, Uncounted, Unreported
<1>29. SizeInv' BY <1>3 DEF IInv, SizeInv
<1> QED BY <1>14, <1>15, <1>16, <1>17, <1>18, <1>19, <1>20, <1>21, <1>22, <1>23, <1>25, <1>26, <1>27, <1>28, <1>29
        DEF IInv

\* The flag of a slot is set or cleared.
LEMMA FlagStep ==
    ASSUME IInv, NEW p \in Puddles, NEW i \in Places, NEW o \in Objects, NEW e \in {Entry(o), Flagged(o)},
           slots[p][i] \in {Entry(o), Flagged(o)}, slots' = Put(slots, p, i, e),
           UNCHANGED <<live, list, current, fragment, overflow, remembered, walk, object>>
    PROVE  /\ slots' \in SlotArrays /\ SlotTypes' /\ RoomInv' /\ EmptyInv' /\ SlotInv' /\ Filled' = Filled
           /\ slots'[p][i] = e /\ \A q \in Puddles, j \in Places : ~(q = p /\ j = i) => slots'[q][j] = slots[q][j]
<1>1. SlotTypes /\ PoolTypes BY TypeIs DEF IInv
<1>2. slots \in SlotArrays BY <1>1 DEF SlotTypes, SlotArrays
<1>3. e \in Entries /\ e # Empty /\ slots[p][i] # Empty BY EntriesAre
<1>4. /\ slots' \in SlotArrays
      /\ \A q \in Puddles, j \in Places : slots'[q][j] = IF q = p /\ j = i THEN e ELSE slots[q][j]
  BY <1>2, <1>3, Written
<1>5. slots'[p][i] = e /\ \A q \in Puddles, j \in Places : ~(q = p /\ j = i) => slots'[q][j] = slots[q][j] BY <1>4
<1>6. SlotTypes' BY <1>1, <1>4 DEF SlotTypes, SlotArrays
<1>7. RoomInv'
  <2>1. \A u \in Threads : HasRoom(u) =>
          /\ fragment[u].puddle \in Range(list') /\ fragment[u].puddle \in Puddles
          /\ \A j \in Places : fragment[u].next <= j /\ j < fragment[u].top =>
               slots[fragment[u].puddle][j] = Empty
    BY <1>1, RangeIs DEF IInv, RoomInv, PoolTypes
  <2>2. \A u \in Threads : HasRoom(u) => \A j \in Places : fragment[u].next <= j /\ j < fragment[u].top =>
               slots'[fragment[u].puddle][j] = slots[fragment[u].puddle][j]
    BY <1>3, <1>5, <2>1
  <2> QED BY <2>1, <2>2, RoomFrame DEF IInv
<1>8. EmptyInv' BY <1>3, <1>5 DEF IInv, EmptyInv
<1> DEFINE z == <<p, i>>
<1>9. /\ z \in Spots /\ At(slots, z) = slots[p][i] /\ At(slots', z) = e
      /\ \A x \in Spots : x # z => At(slots', x) = At(slots, x)
  BY <1>4, SpotsAre, AtWritten
<1>10. /\ Full(slots') = Full(slots)
       /\ OneSlot(slots') <=> OneSlot(slots)
       /\ \A u \in Objects : HasSlot(slots', u) <=> HasSlot(slots, u)
  <2> HIDE DEF z
  <2>1. HoldsAt(slots, z, o) BY <1>9, EntriesAre DEF HoldsAt
  <2>2. At(slots', z) = Entry(o) \/ At(slots', z) = Flagged(o) BY <1>9
  <2> QED BY <1>9, <2>1, <2>2, FlagWritten
<1>11. SlotInv' BY <1>10 DEF IInv, SlotInv, OnItsWay
<1>12. Filled = Full(slots) BY <1>1, FilledIs DEF IInv, PoolTypes
<1>13. Filled' = Full(slots') BY <1>1, <1>6, <1>8, FilledNext DEF PoolTypes
<1> QED BY <1>4, <1>5, <1>6, <1>7, <1>8, <1>10, <1>11, <1>12, <1>13

\* A thread between the slots of its puddle and the verdict on one.
LEMMA ScanFrame ==
    ASSUME IInv, NEW t \in Threads, pc[t] \in {"slots", "verdict"}, pc'[t] \in {"slots", "verdict"},
           \A u \in Threads \ {t} : pc'[u] = pc[u] /\ iterator'[u] = iterator[u] /\ Stage(u)' = Stage(u),
           Stage(t)' = pc'[t], ~CompactPhase',
           UNCHANGED <<live, list, alloc, previous, rest, dest, units, held, walk, remembered, young, object, back>>
    PROVE  LinkInv' /\ UnitInv' /\ ObjectInv'
<1>1. pc[t] \in ScanStages BY DEF ScanStages
<1>2. units = <<>> /\ walk = {} /\ ~CompactPhase /\ \A u \in Threads : pc[u] # "pruneSlots" BY <1>1, InScan
<1>3. Holders' = Holders BY DEF Holders
<1>4. \A u \in Threads : held'[u] # 0 => pc'[u] \in WorkPlaces BY DEF IInv, LinkInv, WorkPlaces
<1>5. previous # <<>> => InStages(ScanStages \ {"scan"})' BY DEF IInv, LinkInv, InStages, ScanStages
<1>6. LinkInv' BY <1>2, <1>3, <1>4, <1>5, LinkFrame DEF IInv
<1>7. UnitInv' BY <1>2, UnitFrame DEF IInv
<1>8. ObjectInv' BY <1>2 DEF IInv, ObjectInv
<1> QED BY <1>6, <1>7, <1>8

LEMMA ScavengeFullStep ==
    ASSUME IInv, NEW t \in Threads, ScavengeSlot(t), Slot(t) # Empty
    PROVE  IInv'
<1>1. /\ SlotTypes /\ PoolTypes /\ ObjectTypes /\ PcTypes /\ NumberTypes /\ FlagTypes /\ FragmentTypes
      /\ IteratorTypes
  BY TypeIs DEF IInv
<1> DEFINE p == held[t]
           i == iterator[t].scan
           o == Slot(t)[1]
           s == <<p, i, o>>
<1>2. /\ pc[t] = "slots" /\ pc[t] \in ScanStages /\ "verdict" \in ScanStages /\ ~(i > current[p])
      /\ slots' = Put(slots, p, i, Flagged(o)) /\ splits' \in {splits, splits \cup {s}}
      /\ pc' = [pc EXCEPT ![t] = "verdict"]
  BY DEF ScavengeSlot, ScanStages, AtEnd, Put, Goto
<1>3. /\ UNCHANGED <<live, list, alloc, previous, currentSize, rest, dest, overflow, count, current, iterator>>
      /\ UNCHANGED <<overflowAtStart, units, walk, cycles, seen, fragment, held>>
      /\ UNCHANGED <<remembered, young, back, object>>
  BY DEF ScavengeSlot, poolVars, compactVars, cycleVars, objectVars, addVars
<1>4. /\ ScanPhase /\ ~RunPhase /\ ~PrunePhase /\ ~RebuildPhase /\ ~DonePhase /\ ~CompactPhase
      /\ fragment[t].count = 0 /\ ~overflowAtStart
  BY <1>2, InScan
<1>5. /\ p \in Puddles /\ p \in live /\ p \notin Range(list) /\ p \notin Range(previous)
      /\ \A u \in Threads \ {t} : held[u] # p
      /\ i \in Nat \ {0} /\ current[p] \in 0..GrowSize /\ current[p] \in Nat
  BY <1>2, ScannedIs
<1>6. i \in Places /\ i <= current[p] BY <1>2, <1>5, ConstantsAssumption DEF Places
<1>7. o \in Objects /\ slots[p][i] \in {Entry(o), Flagged(o)}
  <2>1. Slot(t) = slots[p][i] BY DEF Slot
  <2>2. slots[p][i] \in Entries BY <1>1, <1>5, <1>6, SlotTypeOf
  <2> QED BY <2>1, <2>2, EntriesAre
<1>8. p = held[t] /\ i = iterator[t].scan OBVIOUS
<1> HIDE DEF p, i, o
<1>9. /\ slots' \in SlotArrays /\ SlotTypes' /\ RoomInv' /\ EmptyInv' /\ SlotInv' /\ Filled' = Filled
      /\ slots'[p][i] = Flagged(o)
      /\ \A q \in Puddles, j \in Places : ~(q = p /\ j = i) => slots'[q][j] = slots[q][j]
  BY <1>2, <1>3, <1>5, <1>6, <1>7, FlagStep
<1>10. /\ PcTypes' /\ PhaseInv' /\ DoneInv' /\ ScanPhase'
       /\ ~RunPhase' /\ ~PrunePhase' /\ ~RebuildPhase' /\ ~DonePhase' /\ ~CompactPhase'
       /\ pc'[t] = "verdict" /\ \A u \in Threads \ {t} : pc'[u] = pc[u] /\ Stage(u)' = Stage(u)
       /\ Stage(t)' = "verdict" /\ AddInv' /\ FragmentInv'
  BY <1>2, <1>3, <1>4, ScanMoves
<1>11. TypeOK'
  <2>1. splits' \subseteq live \X Places \X Objects
    <3>1. s \in live \X Places \X Objects BY <1>5, <1>6, <1>7
    <3> QED BY <1>1, <1>2, <3>1 DEF PoolTypes
  <2>2. PoolTypes' BY <1>1, <1>3, <2>1 DEF PoolTypes
  <2>3. ObjectTypes' /\ NumberTypes' /\ FlagTypes' /\ FragmentTypes' /\ IteratorTypes'
    BY <1>1, <1>3 DEF ObjectTypes, NumberTypes, FlagTypes, FragmentTypes, IteratorTypes
  <2> QED BY <1>9, <1>10, <2>2, <2>3, TypeNext
<1>12. LinkInv' /\ UnitInv' /\ ObjectInv' BY <1>2, <1>3, <1>10, ScanFrame
<1>13. IteratorInv'
  <2>1. ASSUME NEW u \in Threads, pc'[u] = "verdict" PROVE iterator[u].scan <= current[held[u]] /\ Slot(u)' # Empty
    <3>1. CASE u = t
      <4>1. Slot(t)' = slots'[p][i] BY <1>3, <1>8 DEF Slot
      <4> QED BY <1>6, <1>7, <1>8, <1>9, <3>1, <4>1, EntriesAre
    <3>2. CASE u # t
      <4>1. pc[u] = "verdict" BY <1>10, <2>1, <3>2
      <4>2. held[u] \in Puddles /\ held[u] # p /\ iterator[u].scan \in Nat \ {0} BY <1>5, <3>2, <4>1, ScannedIs
      <4>3. iterator[u].scan <= current[held[u]] /\ Slot(u) # Empty BY <4>1 DEF IInv, IteratorInv
      <4>4. iterator[u].scan \in Places BY <1>1, <4>2, <4>3, SlotTypeOf, ConstantsAssumption DEF Places
      <4> QED BY <1>3, <1>9, <4>2, <4>3, <4>4 DEF Slot
    <3> QED BY <3>1, <3>2
  <2>2. held[t] # 0 /\ iterator[t].scan # 0 /\ iterator[t].removed = 0 BY <1>2 DEF IInv, IteratorInv
  <2> QED BY <1>3, <1>10, <2>1, <2>2 DEF IInv, IteratorInv
<1>14. SplitInv'
  <2> SUFFICES ASSUME NEW x \in splits'
               PROVE  /\ x[1] \notin Range(previous') /\ slots'[x[1]][x[2]] \in {Entry(x[3]), Flagged(x[3])}
                      /\ \A u \in Threads : held'[u] = x[1] =>
                           /\ pc'[u] = "slots" => x[2] < iterator'[u].scan
                           /\ pc'[u] = "verdict" => x[2] <= iterator'[u].scan
    BY <1>3, <1>4, <1>10 DEF SplitInv
  <2>1. CASE x = s
    <3>1. x[1] = p /\ x[2] = i /\ x[3] = o BY <2>1
    <3>2. i <= i BY <1>5
    <3>3. ASSUME NEW u \in Threads, held'[u] = p PROVE pc'[u] = "verdict" /\ iterator'[u].scan = i
      <4>1. u = t BY <1>3, <1>5, <3>3
      <4> QED BY <1>3, <1>8, <1>10, <4>1
    <3> QED BY <1>3, <1>5, <1>9, <3>1, <3>2, <3>3
  <2>2. CASE x # s
    <3>1. x \in splits BY <1>2, <2>2
    <3>2. x[1] \in Puddles /\ x[2] \in Places /\ x[2] \in Nat BY <1>1, <3>1 DEF PoolTypes, Places
    <3>3. /\ x[1] \notin Range(previous) /\ slots[x[1]][x[2]] \in {Entry(x[3]), Flagged(x[3])}
          /\ \A u \in Threads : held[u] = x[1] =>
                           /\ pc[u] = "slots" => x[2] < iterator[u].scan
                           /\ pc[u] = "verdict" => x[2] <= iterator[u].scan
      BY <3>1 DEF IInv, SplitInv
    <3>4. x[1] = p => x[2] < i BY <1>2, <1>8, <3>3
    <3>5. slots'[x[1]][x[2]] = slots[x[1]][x[2]] BY <1>5, <1>9, <3>2, <3>4
    <3>6. held[t] = x[1] => x[2] <= i BY <1>5, <1>8, <3>2, <3>4
    <3> QED BY <1>3, <1>8, <1>10, <3>3, <3>5, <3>6
  <2> QED BY <2>1, <2>2
<1>15. FlagInv'
  <2> SUFFICES ASSUME ~overflow, NEW q \in Puddles, NEW j \in Places, NEW u \in Objects
               PROVE  /\ slots'[q][j] = Flagged(u) => FlaggedRight(q, j, u)'
                      /\ slots'[q][j] = Entry(u) => EntryRight(q, j, u)'
    BY <1>3 DEF FlagInv
  <2>0. j \in Nat BY DEF Places
  <2>1. CASE q = p /\ j = i
    <3>1. slots'[q][j] # Entry(u) BY <1>7, <1>9, <2>1, EntriesAre
    <3>2. ~Ahead(q, j)' BY <1>3, <1>5, <1>8, <1>10, <2>1 DEF Ahead
    <3>3. Pending(q, j)' BY <1>3, <1>8, <1>10, <2>1 DEF Pending
    <3> QED BY <1>10, <3>1, <3>2, <3>3 DEF FlaggedRight
  <2>2. CASE ~(q = p /\ j = i)
    <3>1. slots'[q][j] = slots[q][j] BY <1>9, <2>2
    <3>2. Ahead(q, j)' <=> Ahead(q, j)
      <4>1. q = p => (i <= j <=> i < j) BY <1>5, <2>0, <2>2
      <4> QED BY <1>2, <1>3, <1>8, <1>10, <4>1 DEF Ahead
    <3>3. Pending(q, j)' <=> Pending(q, j) BY <1>2, <1>3, <1>8, <1>10, <2>2 DEF Pending
    <3>4. splits \subseteq splits' BY <1>2
    <3>5. FlaggedRight(q, j, u) => FlaggedRight(q, j, u)'
      BY <1>3, <1>4, <1>10, <3>2, <3>3, <3>4 DEF FlaggedRight
    <3>6. EntryRight(q, j, u) => EntryRight(q, j, u)' BY <1>3, <1>4, <1>10, <3>2 DEF EntryRight
    <3> QED BY <3>1, <3>5, <3>6 DEF IInv, FlagInv
  <2> QED BY <2>1, <2>2
<1>16. CountExact' BY <1>3, <1>9 DEF IInv, CountExact, Uncounted, Unreported
<1>17. SizeInv' BY <1>3 DEF IInv, SizeInv
<1> QED BY <1>9, <1>10, <1>11, <1>12, <1>13, <1>14, <1>15, <1>16, <1>17 DEF IInv

LEMMA VerdictStep ==
    ASSUME IInv, NEW t \in Threads, Verdict(t)
    PROVE  IInv'
<1>1. /\ SlotTypes /\ PoolTypes /\ ObjectTypes /\ PcTypes /\ NumberTypes /\ FlagTypes /\ FragmentTypes
      /\ IteratorTypes
  BY TypeIs DEF IInv
<1> DEFINE p == held[t]
           i == iterator[t].scan
           o == Slot(t)[1]
<1>2. /\ pc[t] = "verdict" /\ pc[t] \in ScanStages /\ "slots" \in ScanStages
      /\ \/ o \in young /\ slots' = Put(slots, p, i, Entry(o))
         \/ /\ o \in young => Slot(t) = Entry(o) \/ \E s \in splits : s[3] = o
            /\ slots' = Put(slots, p, i, Slot(t))
      /\ iterator' = [iterator EXCEPT ![t].scan = i + 1]
      /\ pc' = [pc EXCEPT ![t] = "slots"]
  BY DEF Verdict, ScanStages, NotFound, Put, Goto
<1>3. /\ UNCHANGED <<live, list, alloc, previous, currentSize, rest, dest, overflow, count, current, splits>>
      /\ UNCHANGED <<overflowAtStart, units, walk, cycles, seen, fragment, held>>
      /\ UNCHANGED <<remembered, young, back, object>>
  BY DEF Verdict, poolVars, compactVars, cycleVars, objectVars, addVars
<1>4. /\ ScanPhase /\ ~RunPhase /\ ~PrunePhase /\ ~RebuildPhase /\ ~DonePhase /\ ~CompactPhase
      /\ fragment[t].count = 0 /\ ~overflowAtStart
  BY <1>2, InScan
<1>5. /\ p \in Puddles /\ p \in live /\ p \notin Range(list) /\ p \notin Range(previous)
      /\ \A u \in Threads \ {t} : held[u] # p
      /\ i \in Nat \ {0} /\ current[p] \in 0..GrowSize /\ current[p] \in Nat
  BY <1>2, ScannedIs
<1>6. i \in Places /\ i <= current[p] /\ Slot(t) # Empty
  <2>1. i <= current[p] /\ Slot(t) # Empty BY <1>2 DEF IInv, IteratorInv
  <2> QED BY <1>5, <2>1, ConstantsAssumption DEF Places
<1>7. o \in Objects /\ slots[p][i] \in {Entry(o), Flagged(o)} /\ Slot(t) = slots[p][i]
  <2>1. Slot(t) = slots[p][i] BY DEF Slot
  <2>2. slots[p][i] \in Entries BY <1>1, <1>5, <1>6, SlotTypeOf
  <2> QED BY <1>6, <2>1, <2>2, EntriesAre
<1>8. p = held[t] /\ i = iterator[t].scan OBVIOUS
<1>9. /\ iterator' \in [Threads -> Iterators] /\ iterator'[t].scan = i + 1 /\ iterator'[t].removed = iterator[t].removed
      /\ \A u \in Threads \ {t} : iterator'[u] = iterator[u]
  <2> DEFINE n == [iterator[t] EXCEPT !.scan = i + 1]
  <2>1. iterator[t] \in Iterators /\ iterator \in [Threads -> Iterators] BY <1>1 DEF IteratorTypes
  <2>2. i + 1 \in 0..GrowSize + 1 BY <1>5, <1>6, ConstantsAssumption
  <2>3. n \in Iterators /\ n.scan = i + 1 /\ n.removed = iterator[t].removed BY <2>1, <2>2 DEF Iterators
  <2>4. iterator' = [iterator EXCEPT ![t] = n] BY <1>2, <2>1
  <2> HIDE DEF n
  <2> QED BY <2>1, <2>3, <2>4
<1> HIDE DEF p, i, o
<1> DEFINE e == slots'[p][i]
<1>10. \E x \in {Entry(o), Flagged(o)} :
         /\ slots' = Put(slots, p, i, x)
         /\ (x = Entry(o) /\ o \in young) \/ x = slots[p][i]
         /\ o \in young => x = Entry(o) \/ \E s \in splits : s[3] = o
  BY <1>2, <1>7
<1>11. PICK x \in {Entry(o), Flagged(o)} :
         /\ slots' = Put(slots, p, i, x)
         /\ (x = Entry(o) /\ o \in young) \/ x = slots[p][i]
         /\ o \in young => x = Entry(o) \/ \E s \in splits : s[3] = o
  BY <1>10
<1>12. /\ slots' \in SlotArrays /\ SlotTypes' /\ RoomInv' /\ EmptyInv' /\ SlotInv' /\ Filled' = Filled
       /\ slots'[p][i] = x
       /\ \A q \in Puddles, j \in Places : ~(q = p /\ j = i) => slots'[q][j] = slots[q][j]
  BY <1>3, <1>5, <1>6, <1>7, <1>11, FlagStep
<1>13. /\ PcTypes' /\ PhaseInv' /\ DoneInv' /\ ScanPhase'
       /\ ~RunPhase' /\ ~PrunePhase' /\ ~RebuildPhase' /\ ~DonePhase' /\ ~CompactPhase'
       /\ pc'[t] = "slots" /\ \A u \in Threads \ {t} : pc'[u] = pc[u] /\ Stage(u)' = Stage(u)
       /\ Stage(t)' = "slots" /\ AddInv' /\ FragmentInv'
  BY <1>2, <1>3, <1>4, ScanMoves
<1>14. TypeOK'
  <2>1. IteratorTypes' BY <1>9 DEF IteratorTypes
  <2>2. PoolTypes' /\ ObjectTypes' /\ NumberTypes' /\ FlagTypes' /\ FragmentTypes'
    BY <1>1, <1>3 DEF PoolTypes, ObjectTypes, NumberTypes, FlagTypes, FragmentTypes
  <2> QED BY <1>12, <1>13, <2>1, <2>2, TypeNext
<1>15. LinkInv' /\ UnitInv' /\ ObjectInv' BY <1>2, <1>3, <1>9, <1>13, ScanFrame
<1>16. IteratorInv'
  <2>1. ASSUME NEW u \in Threads \ {t}, pc'[u] = "verdict" PROVE iterator[u].scan <= current[held[u]] /\ Slot(u)' # Empty
    <3>1. pc[u] = "verdict" BY <1>13, <2>1
    <3>2. held[u] \in Puddles /\ held[u] # p /\ iterator[u].scan \in Nat \ {0} BY <1>5, <2>1, <3>1, ScannedIs
    <3>3. iterator[u].scan <= current[held[u]] /\ Slot(u) # Empty BY <3>1 DEF IInv, IteratorInv
    <3>4. iterator[u].scan \in Places BY <1>1, <3>2, <3>3, SlotTypeOf, ConstantsAssumption DEF Places
    <3> QED BY <1>3, <1>9, <1>12, <3>2, <3>3, <3>4 DEF Slot
  <2>2. held[t] # 0 /\ iterator'[t].scan # 0 /\ iterator'[t].removed = 0
    BY <1>2, <1>5, <1>9 DEF IInv, IteratorInv
  <2> QED BY <1>3, <1>9, <1>13, <2>1, <2>2 DEF IInv, IteratorInv
<1>17. SplitInv'
  <2> SUFFICES ASSUME NEW s \in splits
               PROVE  /\ s[1] \notin Range(previous') /\ slots'[s[1]][s[2]] \in {Entry(s[3]), Flagged(s[3])}
                      /\ \A u \in Threads : held'[u] = s[1] =>
                           /\ pc'[u] = "slots" => s[2] < iterator'[u].scan
                           /\ pc'[u] = "verdict" => s[2] <= iterator'[u].scan
    BY <1>3, <1>4, <1>13 DEF SplitInv
  <2>1. s[1] \in Puddles /\ s[2] \in Places /\ s[2] \in Nat /\ s[3] \in Objects BY <1>1 DEF PoolTypes, Places
  <2>2. /\ s[1] \notin Range(previous) /\ slots[s[1]][s[2]] \in {Entry(s[3]), Flagged(s[3])}
        /\ \A u \in Threads : held[u] = s[1] =>
                           /\ pc[u] = "slots" => s[2] < iterator[u].scan
                           /\ pc[u] = "verdict" => s[2] <= iterator[u].scan
    BY DEF IInv, SplitInv
  <2>3. slots'[s[1]][s[2]] \in {Entry(s[3]), Flagged(s[3])}
    <3>1. CASE s[1] = p /\ s[2] = i
      <4>1. s[3] = o BY <1>7, <2>1, <2>2, <3>1, EntriesAre
      <4> QED BY <1>12, <3>1, <4>1
    <3>2. CASE ~(s[1] = p /\ s[2] = i) BY <1>12, <2>1, <2>2, <3>2
    <3> QED BY <3>1, <3>2
  <2>4. held[t] = s[1] => s[2] < i + 1
    <3>1. held[t] = s[1] => s[2] <= i BY <1>2, <1>8, <2>2
    <3> QED BY <1>5, <2>1, <3>1
  <2> QED BY <1>3, <1>9, <1>13, <2>2, <2>3, <2>4
<1>18. FlagInv'
  <2> SUFFICES ASSUME ~overflow, NEW q \in Puddles, NEW j \in Places, NEW u \in Objects
               PROVE  /\ slots'[q][j] = Flagged(u) => FlaggedRight(q, j, u)'
                      /\ slots'[q][j] = Entry(u) => EntryRight(q, j, u)'
    BY <1>3 DEF FlagInv
  <2>0. j \in Nat BY DEF Places
  <2>1. CASE q = p /\ j = i
    <3>1. ~(i + 1 <= i) /\ ~(i < i) BY <1>5
    <3>2. ~Ahead(q, j)' BY <1>3, <1>5, <1>8, <1>9, <1>13, <2>1, <3>1 DEF Ahead
    <3>3. ~Ahead(p, i) BY <1>2, <1>5, <1>8, <3>1 DEF Ahead
    <3>4. ASSUME x = Flagged(o), o \in young PROVE <<p, i, o>> \in splits
      <4>1. PICK s \in splits : s[3] = o BY <1>7, <1>11, <3>4, EntriesAre
      <4>2. s[1] \in Puddles /\ s[2] \in Places /\ s = <<s[1], s[2], s[3]>> BY <1>1 DEF PoolTypes
      <4>3. slots[s[1]][s[2]] \in {Entry(o), Flagged(o)} BY <4>1 DEF IInv, SplitInv
      <4> DEFINE y == <<s[1], s[2]>>
                 z == <<p, i>>
      <4>4. y \in Spots /\ z \in Spots /\ At(slots, y) = slots[s[1]][s[2]] /\ At(slots, z) = slots[p][i]
        BY <1>5, <1>6, <4>2, SpotsAre
      <4>5. HoldsAt(slots, y, o) /\ HoldsAt(slots, z, o) BY <1>7, <4>3, <4>4, EntriesAre DEF HoldsAt
      <4>6. y = z
        <5> HIDE DEF y, z
        <5>1. OneSlot(slots) BY DEF IInv, SlotInv
        <5> QED BY <1>7, <4>4, <4>5, <5>1 DEF OneSlot
      <4>7. s[1] = p /\ s[2] = i BY <4>6, SpotsAre
      <4> QED BY <4>1, <4>2, <4>7
    <3>5. ASSUME slots'[q][j] = Flagged(u) PROVE FlaggedRight(q, j, u)'
      <4>1. x = Flagged(o) /\ u = o BY <1>7, <1>12, <2>1, <3>5, EntriesAre
      <4> QED BY <1>3, <1>13, <2>1, <3>2, <3>4, <4>1 DEF FlaggedRight
    <3>6. ASSUME slots'[q][j] = Entry(u) PROVE EntryRight(q, j, u)'
      <4>1. x = Entry(o) /\ u = o BY <1>7, <1>12, <2>1, <3>6, EntriesAre
      <4>2. slots[p][i] = Entry(o) => EntryRight(p, i, o) BY <1>5, <1>6, <1>7 DEF IInv, FlagInv
      <4>3. o \in young BY <1>4, <1>11, <3>3, <4>1, <4>2 DEF EntryRight
      <4> QED BY <1>3, <4>1, <4>3 DEF EntryRight
    <3> QED BY <3>5, <3>6
  <2>2. CASE ~(q = p /\ j = i)
    <3>1. slots'[q][j] = slots[q][j] BY <1>12, <2>2
    <3>2. Ahead(q, j)' <=> Ahead(q, j)
      <4>1. i < j <=> i + 1 <= j BY <1>5, <2>0
      <4> QED BY <1>2, <1>3, <1>8, <1>9, <1>13, <4>1 DEF Ahead
    <3>3. Pending(q, j)' <=> Pending(q, j) BY <1>2, <1>3, <1>8, <1>9, <1>13, <2>2 DEF Pending
    <3>4. FlaggedRight(q, j, u) => FlaggedRight(q, j, u)'
      BY <1>3, <1>4, <1>13, <3>2, <3>3 DEF FlaggedRight
    <3>5. EntryRight(q, j, u) => EntryRight(q, j, u)' BY <1>3, <1>4, <1>13, <3>2 DEF EntryRight
    <3> QED BY <3>1, <3>4, <3>5 DEF IInv, FlagInv
  <2> QED BY <2>1, <2>2
<1>19. CountExact'
  <2>1. \A u \in Threads : iterator'[u].removed = iterator[u].removed BY <1>9
  <2>2. Unreported' = Unreported
    <3>1. IteratorTypes' BY <1>9 DEF IteratorTypes
    <3> QED BY <1>1, <2>1, <3>1, UnreportedNext
  <2> QED BY <1>3, <1>12, <2>2 DEF IInv, CountExact, Uncounted
<1>20. SizeInv' BY <1>3 DEF IInv, SizeInv
<1> QED BY <1>12, <1>13, <1>14, <1>15, <1>16, <1>17, <1>18, <1>19, <1>20 DEF IInv

-----------------------------------------------------------------------------
(* Pruning. *)

PruneStages == {"prune", "pruneSlots", "pruneOverflow", "done"}

LEMMA InPrune ==
    ASSUME IInv, NEW t \in Threads, pc[t] \in {"prune", "pruneSlots"}
    PROVE  /\ PrunePhase /\ ~RunPhase /\ ~ScanPhase /\ ~RebuildPhase /\ ~DonePhase /\ ~CompactPhase
           /\ previous = <<>> /\ rest = <<>> /\ dest = 0 /\ walk = {} /\ splits = {} /\ Holders = {}
           /\ \A u \in Threads : /\ pc[u] \in PruneStages /\ pc[u] \notin AddPlaces /\ Stage(u) = pc[u]
                                 /\ object[u] = None /\ back[u] = "run" /\ seen[u] = 0
                                 /\ fragment[u].count = 0 /\ ~HasRoom(u)
           /\ pc[t] = "pruneSlots" => ~overflow
           /\ Uncounted(Threads) = 0
<1>1. PcTypes /\ PoolTypes /\ FragmentTypes BY TypeIs DEF IInv
<1>2. pc[t] \notin AddPlaces /\ Stage(t) = pc[t] BY DEF AddPlaces, Stage
<1>3. PrunePhase BY <1>1, <1>2, PhaseOf DEF IInv
<1>4. ~RunPhase /\ ~ScanPhase /\ ~RebuildPhase /\ ~CompactPhase BY <1>3, Exclusive
<1>5. ~DonePhase BY <1>2 DEF DonePhase, InStages
<1>6. \A u \in Threads : Stage(u) \in PruneStages BY <1>3 DEF PrunePhase, InStages, PruneStages
<1>7. \A u \in Threads : pc[u] \notin AddPlaces
  <2>1. \A u \in Threads : back[u] \in {"run", "scan", "rebuild"} BY <1>1 DEF PcTypes
  <2> QED BY <1>6, <2>1 DEF Stage, PruneStages
<1>8. \A u \in Threads : Stage(u) = pc[u] /\ pc[u] \in PruneStages BY <1>6, <1>7 DEF Stage
<1>9. \A u \in Threads : object[u] = None /\ back[u] = "run" /\ seen[u] = 0
  <2>1. \A u \in Threads : pc[u] # "bump" BY <1>7 DEF AddPlaces
  <2> QED BY <1>7, <2>1 DEF IInv, AddInv
<1>10. \A u \in Threads : fragment[u].count = 0 /\ ~HasRoom(u)
  <2>1. \A u \in Threads : Stage(u) \notin {"run", "scan", "rebuild"} /\ pc[u] # "add"
    BY <1>6, <1>7 DEF PruneStages, AddPlaces
  <2> QED BY <2>1 DEF IInv, FragmentInv
<1>11. previous = <<>> /\ rest = <<>> /\ dest = 0
  BY <1>2, <1>4 DEF IInv, LinkInv, InStages, ScanStages
<1>12. walk = {} /\ splits = {} BY <1>4 DEF IInv, ObjectInv, SplitInv
<1>13. Holders = {} BY <1>8 DEF Holders, PruneStages
<1>14. pc[t] = "pruneSlots" => ~overflow BY <1>2, <1>3 DEF PrunePhase, InStages
<1>15. Uncounted(Threads) = 0
  <2>1. Uncounted(Threads) = Cardinality(Pairs(Counts, Threads)) BY <1>1, UncountedIs
  <2>2. \A u \in Threads : Counts[u] = 0 BY <1>10 DEF Counts
  <2> QED BY <2>1, <2>2, PairsNone
<1> QED BY <1>3, <1>4, <1>5, <1>7, <1>8, <1>9, <1>10, <1>11, <1>12, <1>13, <1>14, <1>15

LEMMA PruneFrame ==
    ASSUME IInv, NEW t \in Threads, pc[t] \in {"prune", "pruneSlots"}, NEW b,
           b \in IF overflow THEN {"prune", "pruneOverflow"} ELSE {"prune", "pruneSlots", "done"},
           pc' = [pc EXCEPT ![t] = b],
           UNCHANGED <<back, object, seen, overflow, overflowAtStart, live, list, alloc, previous, rest, dest>>,
           UNCHANGED <<splits, walk, young, currentSize>>,
           young \subseteq remembered',
           \A u \in Threads \ {t} : held'[u] = held[u],
           held'[t] # 0 => b = "pruneSlots",
           \A u \in Threads : fragment'[u].count = 0 /\ ~HasRoom(u)'
    PROVE  /\ PcTypes' /\ PhaseInv' /\ PrunePhase' /\ ~RunPhase' /\ ~ScanPhase' /\ ~RebuildPhase' /\ ~CompactPhase'
           /\ pc'[t] = b /\ Stage(t)' = b /\ \A u \in Threads \ {t} : pc'[u] = pc[u] /\ Stage(u)' = Stage(u)
           /\ AddInv' /\ FragmentInv' /\ RoomInv' /\ LinkInv' /\ SplitInv' /\ ObjectInv' /\ SizeInv'
           /\ b # "done" => DoneInv'
<1>1. PcTypes BY TypeIs DEF IInv
<1>2. pc'[t] = b /\ \A u \in Threads \ {t} : pc'[u] = pc[u] BY <1>1 DEF PcTypes
<1>3. b \in PruneStages BY DEF PruneStages
<1>4. PcTypes' BY <1>1, <1>3 DEF PcTypes, Pcs, PruneStages
<1>5. /\ PrunePhase /\ ~CompactPhase /\ previous = <<>> /\ rest = <<>> /\ dest = 0 /\ walk = {} /\ splits = {}
      /\ Holders = {}
      /\ \A u \in Threads : /\ pc[u] \in PruneStages /\ pc[u] \notin AddPlaces /\ Stage(u) = pc[u]
                            /\ object[u] = None /\ back[u] = "run" /\ seen[u] = 0
  BY InPrune
<1>6. b \notin AddPlaces BY <1>3 DEF PruneStages, AddPlaces
<1>7. Stage(t)' = b /\ \A u \in Threads \ {t} : Stage(u)' = Stage(u) BY <1>2, <1>6 DEF Stage
<1>8. PrunePhase' BY <1>5, <1>7 DEF PrunePhase, InStages
<1>9. ~RunPhase' /\ ~ScanPhase' /\ ~RebuildPhase' /\ ~CompactPhase' BY <1>8, ExclusiveNext
<1>10. PhaseInv' BY <1>8 DEF PhaseInv
<1>11. \A u \in Threads : pc'[u] \in PruneStages /\ pc'[u] \notin AddPlaces BY <1>2, <1>3, <1>5, <1>6
<1>12. AddInv' BY <1>5, <1>11 DEF AddInv
<1>13. FragmentInv'
  <2>1. \A u \in Threads : ~HasRoom(u)' /\ fragment'[u].count = 0 OBVIOUS
  <2> QED BY <2>1 DEF FragmentInv
<1>14. RoomInv' BY DEF RoomInv
<1>15. LinkInv'
  <2>1. Holders' = {} BY <1>11 DEF Holders, PruneStages
  <2>2. \A u \in Threads : held'[u] # 0 => pc'[u] \in WorkPlaces BY <1>2 DEF IInv, LinkInv, WorkPlaces
  <2> QED BY <1>5, <1>9, <2>1, <2>2, LinkFrame DEF IInv
<1>16. SplitInv' BY <1>5 DEF SplitInv
<1>17. ObjectInv' BY <1>5 DEF ObjectInv
<1>18. SizeInv' BY DEF IInv, SizeInv
<1>19. ASSUME b # "done" PROVE DoneInv'
  <2>1. ~DonePhase' BY <1>7, <1>19 DEF DonePhase, InStages
  <2> QED BY <1>9, <2>1 DEF DoneInv
<1> QED BY <1>2, <1>4, <1>7, <1>8, <1>9, <1>10, <1>12, <1>13, <1>14, <1>15, <1>16, <1>17, <1>18, <1>19

LEMMA PrunePuddleStep ==
    ASSUME IInv, NEW t \in Threads, PrunePuddle(t)
    PROVE  IInv'
<1>1. /\ SlotTypes /\ PoolTypes /\ ObjectTypes /\ PcTypes /\ NumberTypes /\ FlagTypes /\ FragmentTypes
      /\ IteratorTypes
  BY TypeIs DEF IInv
<1> DEFINE h == Head(units)
           n == [NoIterator EXCEPT !.scan = 1]
<1>2. /\ pc[t] = "prune" /\ ~overflow /\ units # <<>> /\ held' = [held EXCEPT ![t] = h] /\ units' = Tail(units)
      /\ iterator' = [iterator EXCEPT ![t] = n] /\ pc' = [pc EXCEPT ![t] = "pruneSlots"]
  BY DEF PrunePuddle, Goto
<1>3. /\ UNCHANGED <<live, list, alloc, previous, currentSize, rest, dest, slots, current, overflow, count>>
      /\ UNCHANGED <<overflowAtStart, walk, cycles, splits, seen, fragment>>
      /\ UNCHANGED <<remembered, young, back, object>>
  BY DEF PrunePuddle, poolVars, compactVars, puddleVars, objectVars, addVars
<1>4. /\ h \in live /\ h \in Range(units) /\ units' \in Seq(live) /\ IsInjective(units')
      /\ Range(units') = Range(units) \ {h}
  BY <1>1, <1>2, TailIs DEF IInv, UnitInv, PoolTypes
<1>5. h # 0 BY <1>1, <1>4, ConstantsAssumption DEF PoolTypes, Puddles
<1>6. n \in Iterators /\ n.scan = 1 /\ n.removed = 0 BY ConstantsAssumption DEF NoIterator, Iterators
<1> HIDE DEF h, n
<1>7. held'[t] = h /\ iterator'[t] = n
      /\ \A u \in Threads \ {t} : held'[u] = held[u] /\ iterator'[u] = iterator[u]
  BY <1>1, <1>2 DEF PoolTypes, IteratorTypes
<1>8. /\ PrunePhase /\ Holders = {} /\ ~ScanPhase
      /\ \A u \in Threads : pc[u] \in PruneStages /\ Stage(u) = pc[u] /\ fragment[u].count = 0 /\ ~HasRoom(u)
  BY <1>2, InPrune
<1>9. /\ PcTypes' /\ PhaseInv' /\ PrunePhase' /\ ~RunPhase' /\ ~ScanPhase' /\ ~RebuildPhase' /\ ~CompactPhase'
      /\ pc'[t] = "pruneSlots" /\ Stage(t)' = "pruneSlots"
      /\ \A u \in Threads \ {t} : pc'[u] = pc[u] /\ Stage(u)' = Stage(u)
      /\ AddInv' /\ FragmentInv' /\ RoomInv' /\ LinkInv' /\ SplitInv' /\ ObjectInv' /\ SizeInv' /\ DoneInv'
  <2>1. \A u \in Threads : fragment'[u].count = 0 /\ ~HasRoom(u)' BY <1>3, <1>8 DEF HasRoom
  <2>2. young \subseteq remembered' BY <1>3 DEF IInv, ObjectInv
  <2> QED BY <1>2, <1>3, <1>7, <2>1, <2>2, PruneFrame
<1>10. IteratorTypes' BY <1>1, <1>2, <1>6 DEF IteratorTypes
<1>11. TypeOK'
  <2>1. held' \in [Threads -> live \cup {0}] BY <1>1, <1>2, <1>4 DEF PoolTypes
  <2>2. PoolTypes' BY <1>1, <1>3, <1>4, <2>1 DEF PoolTypes
  <2>3. SlotTypes' /\ ObjectTypes' /\ NumberTypes' /\ FlagTypes' /\ FragmentTypes'
    BY <1>1, <1>3 DEF SlotTypes, ObjectTypes, NumberTypes, FlagTypes, FragmentTypes
  <2> QED BY <1>9, <1>10, <2>2, <2>3, TypeNext
<1>12. EmptyInv' BY <1>3 DEF IInv, EmptyInv
<1>13. IteratorInv'
  <2>1. \A u \in Threads : pc'[u] # "verdict" BY <1>8, <1>9 DEF PruneStages
  <2>2. held'[t] # 0 /\ iterator'[t].scan # 0 BY <1>5, <1>6, <1>7
  <2> QED BY <1>7, <1>9, <2>1, <2>2 DEF IInv, IteratorInv
<1>14. UnitInv'
  <2>1. h \in Range(list) BY <1>4 DEF IInv, UnitInv
  <2>2. Range(units') \subseteq Range(list') BY <1>3, <1>4 DEF IInv, UnitInv
  <2>3. InStages({"prune", "pruneSlots"})' /\ ~overflow' BY <1>2, <1>3, <1>9 DEF IInv, UnitInv, InStages
  <2>4. \A u \in Threads \ {t} : pc[u] = "pruneSlots" => held[u] \in Range(list) \ Range(units) BY DEF IInv, UnitInv
  <2>5. \A u \in Threads \ {t} : pc[u] = "pruneSlots" => held[u] # h BY <1>4, <2>4
  <2>6. \A u, v \in Threads \ {t} : pc[u] = "pruneSlots" /\ pc[v] = "pruneSlots" /\ held[u] = held[v] => u = v
    BY DEF IInv, UnitInv
  <2>7. ASSUME NEW u \in Threads, pc'[u] = "pruneSlots"
        PROVE  /\ held'[u] \in Range(list') \ Range(units')
               /\ \A v \in Threads : pc'[v] = "pruneSlots" /\ held'[v] = held'[u] => v = u
    BY <1>3, <1>4, <1>7, <1>9, <2>1, <2>4, <2>5, <2>6, <2>7
  <2> QED BY <1>4, <2>2, <2>3, <2>7 DEF UnitInv
<1>15. SlotInv' BY <1>3, SlotFrame DEF IInv, OnItsWay
<1>16. FlagInv'
  <2> SUFFICES ASSUME NEW q \in Puddles, NEW j \in Places, NEW u \in Objects
               PROVE  /\ slots[q][j] = Flagged(u) => FlaggedRight(q, j, u)'
                      /\ slots[q][j] = Entry(u) => EntryRight(q, j, u)'
    BY <1>3 DEF FlagInv
  <2>1. 1 <= j BY ConstantsAssumption DEF Places
  <2>2. Unpruned(q, j) => Unpruned(q, j)'
    BY <1>2, <1>4, <1>6, <1>7, <1>9, <2>1 DEF Unpruned
  <2>3. /\ slots[q][j] = Flagged(u) => FlaggedRight(q, j, u)
        /\ slots[q][j] = Entry(u) => EntryRight(q, j, u)
    BY <1>2 DEF IInv, FlagInv
  <2> QED BY <1>2, <1>3, <1>8, <1>9, <2>2, <2>3, Exclusive DEF FlaggedRight, EntryRight
<1>17. CountExact'
  <2>1. iterator[t].removed = 0 BY <1>2 DEF IInv, IteratorInv
  <2>2. \A u \in Threads : iterator'[u].removed = iterator[u].removed BY <1>6, <1>7, <2>1
  <2>3. Unreported' = Unreported BY <1>1, <1>10, <2>2, UnreportedNext
  <2> QED BY <1>3, <2>3 DEF IInv, CountExact, Filled, Uncounted
<1> QED BY <1>9, <1>11, <1>12, <1>13, <1>14, <1>15, <1>16, <1>17 DEF IInv

\* The puddle whose slots a thread prunes is its own.
LEMMA PrunedIs ==
    ASSUME IInv, NEW t \in Threads, pc[t] = "pruneSlots"
    PROVE  /\ held[t] \in Puddles /\ held[t] \in live /\ held[t] \notin Range(units) /\ ~overflow
           /\ \A u \in Threads \ {t} : pc[u] = "pruneSlots" => held[u] # held[t]
           /\ iterator[t].scan \in Nat \ {0} /\ current[held[t]] \in 0..GrowSize /\ current[held[t]] \in Nat
<1>1. SlotTypes /\ PoolTypes /\ IteratorTypes BY TypeIs DEF IInv
<1>2. held[t] # 0 /\ iterator[t].scan # 0 BY DEF IInv, IteratorInv
<1>3. held[t] \in live /\ held[t] \in Puddles BY <1>1, <1>2 DEF PoolTypes
<1>4. held[t] \notin Range(units) BY DEF IInv, UnitInv
<1>5. \A u \in Threads \ {t} : pc[u] = "pruneSlots" => held[u] # held[t] BY DEF IInv, UnitInv
<1>6. iterator[t].scan \in Nat \ {0} BY <1>1, <1>2, IteratorOf
<1>7. current[held[t]] \in 0..GrowSize /\ current[held[t]] \in Nat BY <1>1, <1>3, ConstantsAssumption DEF SlotTypes
<1>8. ~overflow BY InPrune
<1> QED BY <1>3, <1>4, <1>5, <1>6, <1>7, <1>8

\* What pruning a slot leaves alone.
LEMMA PruneSlotFrame ==
    ASSUME IInv, NEW t \in Threads, pc[t] = "pruneSlots",
           UNCHANGED <<live, list, alloc, previous, currentSize, rest, dest, overflow, pc, splits, count>>,
           UNCHANGED <<overflowAtStart, units, walk, cycles, seen, fragment, held, young, back, object>>,
           young \subseteq remembered', remembered' \subseteq remembered, IteratorTypes', iterator'[t].scan # 0,
           \A u \in Threads \ {t} : iterator'[u] = iterator[u],
           SlotTypes'
    PROVE  /\ TypeOK' /\ PhaseInv' /\ AddInv' /\ FragmentInv' /\ RoomInv' /\ LinkInv' /\ SplitInv' /\ ObjectInv'
           /\ SizeInv' /\ DoneInv' /\ IteratorInv' /\ UnitInv' /\ PrunePhase'
<1>1. /\ SlotTypes /\ PoolTypes /\ ObjectTypes /\ PcTypes /\ NumberTypes /\ FlagTypes /\ FragmentTypes
      /\ IteratorTypes
  BY TypeIs DEF IInv
<1>2. /\ ~overflow
      /\ \A u \in Threads : pc[u] \in PruneStages /\ Stage(u) = pc[u] /\ fragment[u].count = 0 /\ ~HasRoom(u)
  BY InPrune
<1>3. pc' = [pc EXCEPT ![t] = "pruneSlots"] BY <1>1 DEF PcTypes
<1>4. \A u \in Threads : fragment'[u].count = 0 /\ ~HasRoom(u)' BY <1>2 DEF HasRoom
<1>5. /\ PcTypes' /\ PhaseInv' /\ PrunePhase'
      /\ AddInv' /\ FragmentInv' /\ RoomInv' /\ LinkInv' /\ SplitInv' /\ ObjectInv' /\ SizeInv' /\ DoneInv'
  BY <1>2, <1>3, <1>4, PruneFrame
<1>6. TypeOK'
  <2>1. ObjectTypes' BY <1>1 DEF ObjectTypes
  <2>2. PoolTypes' /\ NumberTypes' /\ FlagTypes' /\ FragmentTypes'
    BY <1>1 DEF PoolTypes, NumberTypes, FlagTypes, FragmentTypes
  <2> QED BY <1>5, <2>1, <2>2, TypeNext
<1>7. IteratorInv'
  <2>1. \A u \in Threads : pc[u] # "verdict" BY <1>2 DEF PruneStages
  <2> QED BY <2>1 DEF IInv, IteratorInv
<1>8. UnitInv'
  <2>1. InStages({"prune", "pruneSlots"})' <=> InStages({"prune", "pruneSlots"}) BY DEF InStages, Stage
  <2> QED BY <2>1 DEF IInv, UnitInv
<1> QED BY <1>5, <1>6, <1>7, <1>8

LEMMA PruneKeepStep ==
    ASSUME IInv, NEW t \in Threads, PruneSlot(t), Slot(t) # Empty, ~Slot(t)[2]
    PROVE  IInv'
<1>1. SlotTypes /\ IteratorTypes /\ ObjectTypes BY TypeIs DEF IInv
<1> DEFINE p == held[t]
           i == iterator[t].scan
<1>2. pc[t] = "pruneSlots" /\ ~(i > current[p]) /\ iterator' = [iterator EXCEPT ![t].scan = i + 1]
  BY DEF PruneSlot, AtEnd
<1>3. /\ UNCHANGED <<live, list, alloc, previous, currentSize, rest, dest, overflow, pc, splits, count>>
      /\ UNCHANGED <<overflowAtStart, units, walk, cycles, seen, fragment, held, young, back, object>>
      /\ UNCHANGED <<slots, current, remembered>>
  BY DEF PruneSlot, poolVars, compactVars, cycleVars, addVars, puddleVars
<1>4. /\ p \in Puddles /\ p \notin Range(units) /\ ~overflow
      /\ \A u \in Threads \ {t} : pc[u] = "pruneSlots" => held[u] # p
      /\ i \in Nat \ {0} /\ current[p] \in 0..GrowSize /\ current[p] \in Nat
  BY <1>2, PrunedIs
<1>5. /\ iterator' \in [Threads -> Iterators] /\ iterator'[t].scan = i + 1 /\ iterator'[t].removed = iterator[t].removed
      /\ \A u \in Threads \ {t} : iterator'[u] = iterator[u]
  <2> DEFINE n == [iterator[t] EXCEPT !.scan = i + 1]
  <2>1. iterator[t] \in Iterators /\ iterator \in [Threads -> Iterators] BY <1>1 DEF IteratorTypes
  <2>2. i + 1 \in 0..GrowSize + 1 BY <1>2, <1>4, ConstantsAssumption
  <2>3. n \in Iterators /\ n.scan = i + 1 /\ n.removed = iterator[t].removed BY <2>1, <2>2 DEF Iterators
  <2>4. iterator' = [iterator EXCEPT ![t] = n] BY <1>2, <2>1
  <2> HIDE DEF n
  <2> QED BY <2>1, <2>3, <2>4
<1>6. slots[p][i] # Empty /\ ~slots[p][i][2] BY DEF Slot
<1>7. p = held[t] /\ i = iterator[t].scan OBVIOUS
<1> HIDE DEF p, i
<1>8. SlotTypes' /\ IteratorTypes' BY <1>1, <1>3, <1>5 DEF SlotTypes, IteratorTypes
<1>9. /\ TypeOK' /\ PhaseInv' /\ AddInv' /\ FragmentInv' /\ RoomInv' /\ LinkInv' /\ SplitInv' /\ ObjectInv'
      /\ SizeInv' /\ DoneInv' /\ IteratorInv' /\ UnitInv' /\ PrunePhase'
  <2>1. young \subseteq remembered' /\ remembered' \subseteq remembered BY <1>3 DEF IInv, ObjectInv
  <2>2. iterator'[t].scan # 0 BY <1>4, <1>5
  <2> QED BY <1>2, <1>3, <1>5, <1>8, <2>1, <2>2, PruneSlotFrame
<1>10. EmptyInv' BY <1>3 DEF IInv, EmptyInv
<1>11. SlotInv' BY <1>3, SlotFrame DEF IInv, OnItsWay
<1>12. PrunePhase /\ ~ScanPhase /\ ~RunPhase /\ ~CompactPhase BY <1>2, InPrune
<1>13. FlagInv'
  <2> SUFFICES ASSUME NEW q \in Puddles, NEW j \in Places, NEW u \in Objects
               PROVE  /\ slots[q][j] = Flagged(u) => FlaggedRight(q, j, u)'
                      /\ slots[q][j] = Entry(u) => EntryRight(q, j, u)'
    BY <1>3 DEF FlagInv
  <2>0. j \in Nat BY DEF Places
  <2>1. /\ slots[q][j] = Flagged(u) => Unpruned(q, j) /\ u \notin young
        /\ slots[q][j] = Entry(u) => u \in young
    BY <1>4, <1>12 DEF IInv, FlagInv, FlaggedRight, EntryRight
  <2>2. slots[q][j] = Flagged(u) => ~(q = p /\ j = i) BY <1>6, EntriesAre
  <2>3. ~(q = p /\ j = i) /\ Unpruned(q, j) => Unpruned(q, j)'
    <3>1. j # i /\ i <= j => i + 1 <= j BY <1>4, <2>0
    <3> QED BY <1>3, <1>5, <1>7, <3>1 DEF Unpruned
  <2> QED BY <1>3, <1>9, <2>1, <2>2, <2>3 DEF FlaggedRight, EntryRight
<1>14. CountExact'
  <2>1. \A u \in Threads : iterator'[u].removed = iterator[u].removed BY <1>5
  <2>2. Unreported' = Unreported BY <1>1, <1>8, <2>1, UnreportedNext
  <2> QED BY <1>3, <2>2 DEF IInv, CountExact, Filled, Uncounted
<1> QED BY <1>9, <1>10, <1>11, <1>13, <1>14 DEF IInv

LEMMA PruneRemoveStep ==
    ASSUME IInv, NEW t \in Threads, PruneSlot(t), ~(Slot(t) # Empty /\ ~Slot(t)[2])
    PROVE  IInv'
<1>1. SlotTypes /\ IteratorTypes /\ ObjectTypes /\ PoolTypes /\ NumberTypes BY TypeIs DEF IInv
<1> DEFINE p == held[t]
           i == iterator[t].scan
           k == current[p]
           d == IF slots[p][i] = Empty THEN 0 ELSE 1
           o == slots[p][i][1]
<1>2. /\ pc[t] = "pruneSlots" /\ ~(i > k) /\ slots' = Without(slots, p, i, k)
      /\ current' = [current EXCEPT ![p] = k - 1]
      /\ iterator' = [iterator EXCEPT ![t].removed = @ + d, ![t].scan = i]
      /\ remembered' = IF slots[p][i] = Empty THEN remembered ELSE remembered \ {o}
  BY DEF PruneSlot, AtEnd, RemoveSlot, Without, Uncounts, BackUp, Slot
<1>3. /\ UNCHANGED <<live, list, alloc, previous, currentSize, rest, dest, overflow, pc, splits, count>>
      /\ UNCHANGED <<overflowAtStart, units, walk, cycles, seen, fragment, held, young, back, object>>
  BY DEF PruneSlot, poolVars, compactVars, cycleVars, addVars
<1>4. /\ p \in Puddles /\ p \in live /\ p \notin Range(units) /\ ~overflow
      /\ \A u \in Threads \ {t} : pc[u] = "pruneSlots" => held[u] # p
      /\ i \in Nat \ {0} /\ k \in 0..GrowSize /\ k \in Nat
  BY <1>2, PrunedIs
<1>5. i \in Places /\ k \in Places /\ k - 1 \in 0..GrowSize /\ k - 1 \in Nat
  BY <1>2, <1>4, ConstantsAssumption DEF Places
<1>6. /\ iterator' \in [Threads -> Iterators] /\ iterator'[t].scan = i /\ iterator'[t].removed = iterator[t].removed + d
      /\ \A u \in Threads \ {t} : iterator'[u] = iterator[u]
  <2> DEFINE n == [iterator[t] EXCEPT !.removed = @ + d, !.scan = i]
  <2>1. iterator[t] \in Iterators /\ iterator \in [Threads -> Iterators] BY <1>1 DEF IteratorTypes
  <2>2. iterator[t].removed + d \in Nat /\ iterator[t].scan \in 0..GrowSize + 1 BY <1>1, IteratorOf
  <2>3. n \in Iterators /\ n.scan = i /\ n.removed = iterator[t].removed + d
    <3> HIDE DEF d
    <3> QED BY <2>1, <2>2 DEF Iterators
  <2>4. iterator' = [iterator EXCEPT ![t] = n] BY <1>2, <2>1
  <2> HIDE DEF n, d
  <2> QED BY <2>1, <2>3, <2>4
<1>7. d \in Nat /\ d = IF slots[p][i] = Empty THEN 0 ELSE 1 OBVIOUS
<1>8. p = held[t] /\ i = iterator[t].scan /\ k = current[p] OBVIOUS
<1>9. slots[p][i] = Empty \/ (slots[p][i] # Empty /\ o \in Objects /\ slots[p][i] = Flagged(o))
  <2>1. slots[p][i] \in Entries BY <1>1, <1>4, <1>5, SlotTypeOf
  <2>2. ~(slots[p][i] # Empty /\ ~slots[p][i][2]) BY DEF Slot
  <2> DEFINE e == slots[p][i]
  <2>3. e # Empty => e[1] \in Objects /\ (e = Entry(e[1]) \/ e = Flagged(e[1])) /\ (~e[2] <=> e = Entry(e[1]))
    BY <2>1, EntriesAre
  <2>4. e # Empty => e # Entry(e[1]) BY <2>2, <2>3
  <2>5. o = e[1] OBVIOUS
  <2> HIDE DEF e, o
  <2>6. e = Empty \/ (e # Empty /\ o \in Objects /\ e = Flagged(o))
    <3>1. CASE e = Empty BY <3>1
    <3>2. CASE e # Empty
      <4>1. e[1] \in Objects /\ e = Flagged(e[1]) BY <2>3, <2>4, <3>2
      <4> QED BY <2>5, <3>2, <4>1, Zenon
    <3> QED BY <3>1, <3>2
  <2> QED BY <2>6 DEF e
<1> HIDE DEF p, i, k, d, o
<1>10. PrunePhase /\ ~ScanPhase /\ ~RunPhase /\ ~CompactPhase BY <1>2, InPrune
<1>11. \A q \in Puddles, j \in Places, u \in Objects :
         /\ slots[q][j] = Flagged(u) => Unpruned(q, j) /\ u \notin young
         /\ slots[q][j] = Entry(u) => u \in young
  BY <1>4, <1>10 DEF IInv, FlagInv, FlaggedRight, EntryRight
<1>12. slots' \in SlotArrays /\ Removes(slots, slots', p, i, k)
  <2>1. slots \in SlotArrays BY <1>1 DEF SlotTypes, SlotArrays
  <2> QED BY <1>2, <1>4, <1>5, <2>1, RemoveIs
<1>13. \A q \in Puddles, j \in Places :
         slots'[q][j] = IF q = p /\ j = k THEN Empty ELSE IF q = p /\ j = i THEN slots[p][k] ELSE slots[q][j]
  BY <1>12 DEF Removes
<1>14. current'[p] = k - 1 /\ \A q \in Puddles : q # p => current'[q] = current[q]
  BY <1>1, <1>2, <1>4 DEF SlotTypes
<1>15. SlotTypes' /\ IteratorTypes'
  <2>1. current' \in [Puddles -> 0..GrowSize] BY <1>1, <1>2, <1>5 DEF SlotTypes
  <2> QED BY <1>6, <1>12, <2>1 DEF SlotTypes, SlotArrays, IteratorTypes
<1>16. /\ TypeOK' /\ PhaseInv' /\ AddInv' /\ FragmentInv' /\ RoomInv' /\ LinkInv' /\ SplitInv' /\ ObjectInv'
       /\ SizeInv' /\ DoneInv' /\ IteratorInv' /\ UnitInv' /\ PrunePhase'
  <2>1. slots[p][i] # Empty => o \notin young BY <1>4, <1>5, <1>9, <1>11
  <2>2. young \subseteq remembered' /\ remembered' \subseteq remembered BY <1>2, <2>1 DEF IInv, ObjectInv
  <2>3. iterator'[t].scan # 0 BY <1>4, <1>6
  <2> QED BY <1>2, <1>3, <1>6, <1>15, <2>2, <2>3, PruneSlotFrame
<1>17. EmptyInv'
  <2>1. ASSUME NEW q \in Puddles, NEW j \in Places, current'[q] < j PROVE slots'[q][j] = Empty
    <3>1. CASE q # p BY <1>13, <1>14, <2>1, <3>1 DEF IInv, EmptyInv
    <3>2. CASE q = p /\ j = k BY <1>13, <3>2
    <3>3. CASE q = p /\ j # k
      <4>1. j \in Nat /\ i \in Nat /\ k \in Nat BY <1>4, ConstantsAssumption DEF Places
      <4>2. k < j /\ j # i BY <1>2, <1>14, <2>1, <3>3, <4>1
      <4>3. slots[p][j] = Empty BY <1>4, <1>8, <4>2 DEF IInv, EmptyInv
      <4> QED BY <1>13, <3>3, <4>2, <4>3
    <3> QED BY <3>1, <3>2, <3>3
  <2>2. \A q \in Puddles : q \notin live' => current'[q] = 0 BY <1>3, <1>4, <1>14 DEF IInv, EmptyInv
  <2> QED BY <2>1, <2>2 DEF EmptyInv
<1>18. /\ Cardinality(Full(slots')) = Cardinality(Full(slots)) - d
       /\ OneSlot(slots) => OneSlot(slots')
       /\ \A u \in Objects : HasSlot(slots', u) <=> \E x \in Spots \ {<<p, i>>} : HoldsAt(slots, x, u)
  BY <1>4, <1>5, <1>7, <1>12, SlotRemoved
<1>19. SlotInv'
  <2> DEFINE z == <<p, i>>
  <2>1. z \in Spots /\ At(slots, z) = slots[p][i] BY <1>4, <1>5, SpotsAre
  <2> HIDE DEF z
  <2>2. OneSlot(slots) /\ \A u \in Objects : HasSlot(slots, u) <=> u \in remembered /\ ~OnItsWay(u)
    BY <1>4 DEF IInv, SlotInv
  <2>3. \A u \in Objects : OnItsWay(u)' <=> OnItsWay(u) BY <1>3 DEF OnItsWay
  <2>4. \A u \in Objects : HasSlot(slots', u) <=> \E x \in Spots \ {z} : HoldsAt(slots, x, u) BY <1>18 DEF z
  <2>5. CASE slots[p][i] = Empty
    <3>1. \A u \in Objects : ~HoldsAt(slots, z, u) BY <2>1, <2>5 DEF HoldsAt
    <3>2. \A u \in Objects : HasSlot(slots', u) <=> HasSlot(slots, u) BY <2>4, <3>1 DEF HasSlot
    <3> QED BY <1>2, <1>18, <2>2, <2>3, <2>5, <3>2 DEF SlotInv
  <2>6. CASE slots[p][i] # Empty
    <3>1. o \in Objects /\ \A u \in Objects : HoldsAt(slots, z, u) <=> u = o
      BY <1>9, <2>1, <2>6, EntriesAre DEF HoldsAt
    <3>2. ~HasSlot(slots', o) BY <2>1, <2>2, <2>4, <3>1 DEF OneSlot
    <3>3. \A u \in Objects : u # o => (HasSlot(slots', u) <=> HasSlot(slots, u)) BY <2>1, <2>4, <3>1 DEF HasSlot
    <3> QED BY <1>2, <1>18, <2>2, <2>3, <2>6, <3>2, <3>3 DEF SlotInv
  <2> QED BY <2>5, <2>6
<1>20. FlagInv'
  <2> SUFFICES ASSUME NEW q \in Puddles, NEW j \in Places, NEW u \in Objects
               PROVE  /\ slots'[q][j] = Flagged(u) => Unpruned(q, j)' /\ u \notin young
                      /\ slots'[q][j] = Entry(u) => u \in young
    BY <1>3, <1>16 DEF FlagInv, FlaggedRight, EntryRight
  <2>1. Unpruned(q, j) => Unpruned(q, j)'
    BY <1>3, <1>6, <1>8 DEF Unpruned
  <2>2. CASE q = p /\ j = k
    <3>1. slots'[q][j] = Empty BY <1>13, <2>2
    <3> QED BY <3>1, EntriesAre
  <2>3. CASE q = p /\ j = i /\ j # k
    <3>1. slots'[q][j] = slots[p][k] BY <1>13, <2>3
    <3>2. i <= i BY <1>4
    <3>3. Unpruned(q, j)' BY <1>2, <1>3, <1>6, <1>8, <2>3, <3>2 DEF Unpruned
    <3> QED BY <1>4, <1>5, <1>11, <2>3, <3>1, <3>3
  <2>4. CASE ~(q = p /\ j = k) /\ ~(q = p /\ j = i)
    <3>1. slots'[q][j] = slots[q][j] BY <1>13, <2>4
    <3> QED BY <1>11, <2>1, <3>1
  <2> QED BY <2>2, <2>3, <2>4
<1>21. CountExact'
  <2>1. Filled = Full(slots) BY <1>1, FilledIs DEF IInv, PoolTypes
  <2>2. Filled' = Full(slots') BY <1>1, <1>3, <1>15, <1>17, FilledNext DEF PoolTypes
  <2>3. Cardinality(Unreported') + iterator[t].removed = Cardinality(Unreported) + iterator'[t].removed
    BY <1>1, <1>6, <1>15, UnreportedNext
  <2>4. Cardinality(Unreported) \in Nat /\ iterator[t].removed \in Nat BY <1>1, UnreportedIs, IteratorOf
  <2>5. Cardinality(Unreported') \in Nat
    <3>1. IteratorTypes' BY <1>15
    <3> DEFINE c == [u \in Threads |-> iterator'[u].removed]
    <3>2. c \in [Threads -> Nat] /\ Unreported' = Pairs(c, Threads)
      BY <3>1, RemovalsOf DEF IteratorTypes, Unreported
    <3> HIDE DEF c
    <3> QED BY <3>2, ConstantsAssumption, PairsFinite, FS_CardinalityType
  <2>6. Cardinality(Full(slots)) \in Nat /\ Cardinality(Full(slots')) \in Nat BY FullFinite
  <2>7. Cardinality(Filled') + Cardinality(Unreported') = Cardinality(Filled) + Cardinality(Unreported)
    BY <1>6, <1>7, <1>18, <2>1, <2>2, <2>3, <2>4, <2>5, <2>6
  <2>8. Uncounted(Threads)' = Uncounted(Threads) BY <1>3 DEF Uncounted
  <2> QED BY <1>3, <2>7, <2>8 DEF IInv, CountExact
<1> QED BY <1>16, <1>17, <1>19, <1>20, <1>21 DEF IInv

LEMMA PruneSlotStep ==
    ASSUME IInv, NEW t \in Threads, PruneSlot(t)
    PROVE  IInv'
  BY PruneKeepStep, PruneRemoveStep

LEMMA PrunedPuddleStep ==
    ASSUME IInv, NEW t \in Threads, PrunedPuddle(t)
    PROVE  IInv'
<1>1. /\ SlotTypes /\ PoolTypes /\ ObjectTypes /\ PcTypes /\ NumberTypes /\ FlagTypes /\ FragmentTypes
      /\ IteratorTypes
  BY TypeIs DEF IInv
<1>2. /\ pc[t] = "pruneSlots" /\ pc' = [pc EXCEPT ![t] = "prune"] /\ held' = [held EXCEPT ![t] = 0]
      /\ iterator[t].scan > current[held[t]]
      /\ count' = count - iterator[t].removed /\ iterator' = [iterator EXCEPT ![t] = NoIterator]
  BY DEF PrunedPuddle, Goto, AtEnd, EndOfPuddle
<1>3. /\ UNCHANGED <<live, list, alloc, previous, currentSize, rest, dest, slots, current, overflow>>
      /\ UNCHANGED <<overflowAtStart, units, walk, cycles, splits, seen, fragment>>
      /\ UNCHANGED <<remembered, young, back, object>>
  BY DEF PrunedPuddle, poolVars, compactVars, puddleVars, cycleVars, objectVars, addVars
<1>4. /\ held[t] \in Puddles /\ ~overflow /\ iterator[t].scan \in Nat \ {0} /\ current[held[t]] \in Nat
  BY <1>2, PrunedIs
<1>5. /\ held'[t] = 0 /\ \A u \in Threads \ {t} : held'[u] = held[u] BY <1>1, <1>2 DEF PoolTypes
<1>6. /\ iterator' \in [Threads -> Iterators] /\ iterator'[t].removed = 0
      /\ \A u \in Threads \ {t} : iterator'[u] = iterator[u]
  <2>1. NoIterator \in Iterators /\ NoIterator.removed = 0 BY ConstantsAssumption DEF NoIterator, Iterators
  <2> HIDE DEF NoIterator
  <2> QED BY <1>1, <1>2, <2>1 DEF IteratorTypes
<1>7. /\ PrunePhase /\ ~ScanPhase /\ ~RunPhase /\ ~CompactPhase /\ Uncounted(Threads) = 0
      /\ \A u \in Threads : pc[u] \in PruneStages /\ Stage(u) = pc[u] /\ fragment[u].count = 0 /\ ~HasRoom(u)
  BY <1>2, InPrune
<1>8. /\ PcTypes' /\ PhaseInv' /\ PrunePhase'
      /\ pc'[t] = "prune" /\ Stage(t)' = "prune"
      /\ \A u \in Threads \ {t} : pc'[u] = pc[u] /\ Stage(u)' = Stage(u)
      /\ AddInv' /\ FragmentInv' /\ RoomInv' /\ LinkInv' /\ SplitInv' /\ ObjectInv' /\ SizeInv' /\ DoneInv'
  <2>1. \A u \in Threads : fragment'[u].count = 0 /\ ~HasRoom(u)' BY <1>3, <1>7 DEF HasRoom
  <2>2. young \subseteq remembered' BY <1>3 DEF IInv, ObjectInv
  <2> QED BY <1>2, <1>3, <1>4, <1>5, <2>1, <2>2, PruneFrame
<1>9. count' \in Nat /\ count' + iterator[t].removed = count
  <2>1. count = Cardinality(Filled) + Cardinality(Unreported)
    BY <1>1, <1>7 DEF IInv, CountExact, NumberTypes
  <2>2. Filled = Full(slots) BY <1>1, FilledIs DEF IInv, PoolTypes
  <2>3. Cardinality(Filled) \in Nat BY <2>2, FullFinite
  <2>4. Cardinality(Unreported) \in Nat /\ iterator[t].removed <= Cardinality(Unreported) /\ iterator[t].removed \in Nat
    BY <1>1, UnreportedIs, IteratorOf
  <2> QED BY <1>2, <2>1, <2>3, <2>4
<1>10. IteratorTypes' BY <1>6 DEF IteratorTypes
<1>11. TypeOK'
  <2>1. held' \in [Threads -> live \cup {0}] BY <1>1, <1>2 DEF PoolTypes
  <2>2. PoolTypes' BY <1>1, <1>3, <2>1 DEF PoolTypes
  <2>3. SlotTypes' /\ ObjectTypes' /\ NumberTypes' /\ FlagTypes' /\ FragmentTypes'
    BY <1>1, <1>3, <1>9 DEF SlotTypes, ObjectTypes, NumberTypes, FlagTypes, FragmentTypes
  <2> QED BY <1>8, <1>10, <2>2, <2>3, TypeNext
<1>12. EmptyInv' BY <1>3 DEF IInv, EmptyInv
<1>13. IteratorInv'
  <2>1. \A u \in Threads : pc'[u] # "verdict" BY <1>7, <1>8 DEF PruneStages
  <2> QED BY <1>5, <1>6, <1>8, <2>1 DEF IInv, IteratorInv
<1>14. UnitInv'
  <2>1. \A u \in Threads : pc'[u] = "pruneSlots" => pc[u] = "pruneSlots" /\ held'[u] = held[u] BY <1>5, <1>8
  <2>2. units # <<>> => InStages({"prune", "pruneSlots"})' /\ ~overflow' BY <1>3, <1>8 DEF IInv, UnitInv, InStages
  <2> QED BY <1>3, <2>1, <2>2, UnitFrame DEF IInv
<1>15. SlotInv' BY <1>3, SlotFrame DEF IInv, OnItsWay
<1>16. FlagInv'
  <2> SUFFICES ASSUME NEW q \in Puddles, NEW j \in Places, NEW u \in Objects
               PROVE  /\ slots[q][j] = Flagged(u) => Unpruned(q, j)' /\ u \notin young
                      /\ slots[q][j] = Entry(u) => u \in young
    BY <1>3, <1>8 DEF FlagInv, FlaggedRight, EntryRight
  <2>1. /\ slots[q][j] = Flagged(u) => Unpruned(q, j) /\ u \notin young
        /\ slots[q][j] = Entry(u) => u \in young
    BY <1>4, <1>7 DEF IInv, FlagInv, FlaggedRight, EntryRight
  <2>2. slots[q][j] # Empty /\ q = held[t] => ~(iterator[t].scan <= j)
    <3>1. slots[q][j] # Empty => ~(current[q] < j) BY DEF IInv, EmptyInv
    <3>2. current[q] \in Nat /\ j \in Nat /\ iterator[t].scan \in Nat
      BY <1>1, IteratorOf, ConstantsAssumption DEF SlotTypes, Places
    <3> QED BY <1>2, <3>1, <3>2
  <2>3. slots[q][j] # Empty /\ Unpruned(q, j) => Unpruned(q, j)'
    BY <1>3, <1>5, <1>6, <1>8, <2>2 DEF Unpruned
  <2>4. slots[q][j] = Flagged(u) => slots[q][j] # Empty BY EntriesAre
  <2> QED BY <2>1, <2>3, <2>4
<1>17. CountExact'
  <2>1. Cardinality(Unreported') + iterator[t].removed = Cardinality(Unreported) + iterator'[t].removed
    BY <1>1, <1>6, <1>10, UnreportedNext
  <2>2. Cardinality(Unreported) \in Nat /\ iterator[t].removed \in Nat BY <1>1, UnreportedIs, IteratorOf
  <2>3. Cardinality(Unreported') \in Nat
    <3> DEFINE c == [u \in Threads |-> iterator'[u].removed]
    <3>1. c \in [Threads -> Nat] /\ Unreported' = Pairs(c, Threads)
      BY <1>10, RemovalsOf DEF IteratorTypes, Unreported
    <3> HIDE DEF c
    <3> QED BY <3>1, ConstantsAssumption, PairsFinite, FS_CardinalityType
  <2>4. Filled' = Filled /\ Uncounted(Threads)' = Uncounted(Threads) BY <1>3 DEF Filled, Uncounted
  <2>5. Cardinality(Filled) \in Nat
    <3>1. Filled = Full(slots) BY <1>1, FilledIs DEF IInv, PoolTypes
    <3> QED BY <3>1, FullFinite
  <2>6. count \in Nat /\ count + Uncounted(Threads) = Cardinality(Filled) + Cardinality(Unreported)
    BY <1>1 DEF IInv, CountExact, NumberTypes
  <2>7. count' + Uncounted(Threads) = Cardinality(Filled) + Cardinality(Unreported')
    BY <1>6, <1>7, <1>9, <2>1, <2>2, <2>3, <2>5, <2>6
  <2> QED BY <2>4, <2>7 DEF CountExact
<1> QED BY <1>8, <1>11, <1>12, <1>13, <1>14, <1>15, <1>16, <1>17 DEF IInv

LEMMA PruneDoneStep ==
    ASSUME IInv, NEW t \in Threads, PruneDone(t)
    PROVE  IInv'
<1>1. /\ SlotTypes /\ PoolTypes /\ ObjectTypes /\ PcTypes /\ NumberTypes /\ FlagTypes /\ FragmentTypes
      /\ IteratorTypes
  BY TypeIs DEF IInv
<1>2. pc[t] = "prune" /\ ~overflow /\ units = <<>> /\ pc' = [pc EXCEPT ![t] = "done"] BY DEF PruneDone, Goto
<1>3. /\ UNCHANGED <<live, list, alloc, previous, currentSize, rest, dest, slots, current, overflow, count>>
      /\ UNCHANGED <<overflowAtStart, units, walk, cycles, splits, seen, fragment, held, iterator>>
      /\ UNCHANGED <<remembered, young, back, object>>
  BY DEF PruneDone, poolVars, compactVars, puddleVars, cycleVars, objectVars, addVars, scanVars
<1>4. /\ PrunePhase /\ ~ScanPhase /\ ~RunPhase /\ ~CompactPhase /\ walk = {}
      /\ \A u \in Threads : /\ pc[u] \in PruneStages /\ Stage(u) = pc[u] /\ fragment[u].count = 0 /\ ~HasRoom(u)
                            /\ object[u] = None
  BY <1>2, InPrune
<1>5. held[t] = 0 BY <1>2 DEF IInv, LinkInv
<1>6. /\ PcTypes' /\ PhaseInv' /\ PrunePhase' /\ ~RebuildPhase'
      /\ pc'[t] = "done" /\ Stage(t)' = "done"
      /\ \A u \in Threads \ {t} : pc'[u] = pc[u] /\ Stage(u)' = Stage(u)
      /\ AddInv' /\ FragmentInv' /\ RoomInv' /\ LinkInv' /\ SplitInv' /\ ObjectInv' /\ SizeInv'
  <2>1. \A u \in Threads : fragment'[u].count = 0 /\ ~HasRoom(u)' BY <1>3, <1>4 DEF HasRoom
  <2>2. young \subseteq remembered' BY <1>3 DEF IInv, ObjectInv
  <2> QED BY <1>2, <1>3, <1>5, <2>1, <2>2, PruneFrame
<1>7. TypeOK'
  <2>1. SlotTypes' /\ PoolTypes' /\ ObjectTypes' /\ NumberTypes' /\ FlagTypes' /\ FragmentTypes' /\ IteratorTypes'
    BY <1>1, <1>3 DEF SlotTypes, PoolTypes, ObjectTypes, NumberTypes, FlagTypes, FragmentTypes, IteratorTypes
  <2> QED BY <1>6, <2>1, TypeNext
<1>8. EmptyInv' BY <1>3 DEF IInv, EmptyInv
<1>9. IteratorInv'
  <2>1. \A u \in Threads : pc'[u] # "verdict" BY <1>4, <1>6 DEF PruneStages
  <2>2. iterator[t].removed = 0 BY <1>2 DEF IInv, IteratorInv
  <2> QED BY <1>3, <1>6, <2>1, <2>2 DEF IInv, IteratorInv
<1>10. UnitInv'
  <2>1. \A u \in Threads : pc'[u] = "pruneSlots" => pc[u] = "pruneSlots" BY <1>6
  <2> QED BY <1>2, <1>3, <2>1, UnitFrame DEF IInv
<1>11. SlotInv' BY <1>3, SlotFrame DEF IInv, OnItsWay
<1>12. \A q \in Puddles, j \in Places, u \in Objects :
         /\ slots[q][j] = Flagged(u) => Unpruned(q, j) /\ u \notin young
         /\ slots[q][j] = Entry(u) => u \in young
  BY <1>2, <1>4 DEF IInv, FlagInv, FlaggedRight, EntryRight
<1>13. FlagInv'
  <2>1. \A q \in Puddles, j \in Places : Unpruned(q, j) => Unpruned(q, j)'
    BY <1>2, <1>3, <1>5, <1>6 DEF Unpruned
  <2> QED BY <1>3, <1>6, <1>12, <2>1 DEF FlagInv, FlaggedRight, EntryRight
<1>14. DoneInv'
  <2>1. ASSUME DonePhase' PROVE remembered = young
    <3>1. \A u \in Threads : pc[u] # "pruneSlots" BY <1>2, <1>4, <1>6, <2>1 DEF DonePhase, InStages
    <3>2. \A q \in Puddles, j \in Places : ~Unpruned(q, j) BY <1>2, <3>1, RangeOfEmpty DEF Unpruned
    <3>3. ASSUME NEW o \in remembered PROVE o \in young
      <4>1. o \in Objects BY <1>1 DEF ObjectTypes
      <4>2. ~OnItsWay(o) BY <1>4, <4>1, ConstantsAssumption DEF OnItsWay
      <4>3. HasSlot(slots, o) BY <1>2, <3>3, <4>1, <4>2 DEF IInv, SlotInv
      <4>4. PICK x \in Spots : HoldsAt(slots, x, o) BY <4>3 DEF HasSlot
      <4> DEFINE q == x[1]
                 j == x[2]
      <4>5. q \in Puddles /\ j \in Places /\ slots[q][j] # Empty /\ slots[q][j][1] = o
        BY <4>4, SpotsAre DEF HoldsAt, At
      <4> HIDE DEF q, j
      <4>6. slots[q][j] = Entry(o) \/ slots[q][j] = Flagged(o) BY <1>1, <4>5, SlotTypeOf, EntriesAre
      <4> QED BY <1>12, <3>2, <4>1, <4>5, <4>6
    <3>4. young \subseteq remembered BY DEF IInv, ObjectInv
    <3> QED BY <3>3, <3>4
  <2> QED BY <1>3, <1>6, <2>1 DEF DoneInv
<1>15. CountExact' BY <1>3, CountFrame DEF IInv
<1> QED BY <1>6, <1>7, <1>8, <1>9, <1>10, <1>11, <1>13, <1>14, <1>15 DEF IInv

LEMMA PruneOverflowStep ==
    ASSUME IInv, NEW t \in Threads, PruneOverflow(t)
    PROVE  IInv'
<1>1. /\ SlotTypes /\ PoolTypes /\ ObjectTypes /\ PcTypes /\ NumberTypes /\ FlagTypes /\ FragmentTypes
      /\ IteratorTypes
  BY TypeIs DEF IInv
<1> DEFINE n == [NoFragment EXCEPT !.count = fragment[t].count]
<1>2. pc[t] = "prune" /\ overflow /\ fragment' = [fragment EXCEPT ![t] = n] /\ pc' = [pc EXCEPT ![t] = "pruneOverflow"]
  BY DEF PruneOverflow, Goto
<1>3. /\ UNCHANGED <<live, list, alloc, previous, currentSize, rest, dest, slots, current, overflow, count>>
      /\ UNCHANGED <<overflowAtStart, units, walk, cycles, splits, seen, held, iterator>>
      /\ UNCHANGED <<remembered, young, back, object>>
  BY DEF PruneOverflow, poolVars, compactVars, puddleVars, cycleVars, objectVars, addVars, scanVars
<1>4. \A u \in Threads : pc[u] \in PruneStages /\ Stage(u) = pc[u] /\ fragment[u].count = 0 /\ ~HasRoom(u)
  BY <1>2, InPrune
<1>5. held[t] = 0 /\ iterator[t].removed = 0 BY <1>2 DEF IInv, LinkInv, IteratorInv
<1>6. n \in Fragments /\ n.count = 0 /\ n.next = 0 /\ n.top = 0
  BY <1>4, ConstantsAssumption DEF NoFragment, Fragments
<1> HIDE DEF n
<1>7. /\ fragment' \in [Threads -> Fragments] /\ fragment'[t] = n
      /\ \A u \in Threads \ {t} : fragment'[u] = fragment[u]
  BY <1>1, <1>2, <1>6 DEF FragmentTypes
<1>8. \A u \in Threads : fragment'[u].count = 0 /\ ~HasRoom(u)' BY <1>4, <1>6, <1>7 DEF HasRoom
<1>9. /\ PcTypes' /\ PhaseInv' /\ PrunePhase' /\ ~RebuildPhase'
      /\ pc'[t] = "pruneOverflow"
      /\ \A u \in Threads \ {t} : pc'[u] = pc[u] /\ Stage(u)' = Stage(u)
      /\ AddInv' /\ FragmentInv' /\ RoomInv' /\ LinkInv' /\ SplitInv' /\ ObjectInv' /\ SizeInv' /\ DoneInv'
  <2>1. young \subseteq remembered' BY <1>3 DEF IInv, ObjectInv
  <2> QED BY <1>2, <1>3, <1>5, <1>8, <2>1, PruneFrame
<1>10. FragmentTypes' BY <1>1, <1>3, <1>7 DEF FragmentTypes
<1>11. TypeOK'
  <2>1. SlotTypes' /\ PoolTypes' /\ ObjectTypes' /\ NumberTypes' /\ FlagTypes' /\ IteratorTypes'
    BY <1>1, <1>3 DEF SlotTypes, PoolTypes, ObjectTypes, NumberTypes, FlagTypes, IteratorTypes
  <2> QED BY <1>9, <1>10, <2>1, TypeNext
<1>12. EmptyInv' BY <1>3 DEF IInv, EmptyInv
<1>13. IteratorInv'
  <2>1. \A u \in Threads : pc'[u] # "verdict" BY <1>4, <1>9 DEF PruneStages
  <2> QED BY <1>3, <1>5, <1>9, <2>1 DEF IInv, IteratorInv
<1>14. UnitInv'
  <2>1. \A u \in Threads : pc'[u] = "pruneSlots" => pc[u] = "pruneSlots" BY <1>9
  <2>2. units = <<>> BY <1>2 DEF IInv, UnitInv
  <2> QED BY <1>3, <2>1, <2>2, UnitFrame DEF IInv
<1>15. SlotInv' /\ FlagInv' BY <1>2, <1>3 DEF SlotInv, FlagInv
<1>16. CountExact'
  <2>1. Uncounted(Threads)' = Uncounted(Threads) BY <1>1, <1>4, <1>8, <1>10, UncountedNext
  <2> QED BY <1>3, <2>1 DEF IInv, CountExact, Filled, Unreported
<1> QED BY <1>9, <1>11, <1>12, <1>13, <1>14, <1>15, <1>16 DEF IInv

-----------------------------------------------------------------------------
(* What all threads do together. *)

\* No thread adds an object or has a puddle.
Quiet == \A t \in Threads : pc[t] \notin AddPlaces \cup WorkPlaces

LEMMA QuietIs ==
    ASSUME IInv, Quiet
    PROVE  /\ \A u \in Threads : /\ Stage(u) = pc[u] /\ object[u] = None /\ back[u] = "run" /\ seen[u] = 0
                                 /\ held[u] = 0 /\ iterator[u].removed = 0
                                 /\ fragment[u].count = 0 => ~HasRoom(u)
           /\ Holders = {} /\ HeldPuddles = {}
           /\ \A p, i : (Ahead(p, i) <=> p \in Range(previous)) /\ ~Pending(p, i) /\ (Unpruned(p, i) <=> p \in Range(units))
           /\ \A o \in Objects : OnItsWay(o) <=> o \in walk
<1>1. \A u \in Threads : pc[u] \notin AddPlaces /\ pc[u] \notin WorkPlaces BY DEF Quiet
<1>2. \A u \in Threads : pc[u] \notin {"slots", "verdict", "pruneSlots", "pop", "add", "bump"}
  BY <1>1 DEF AddPlaces, WorkPlaces
<1>3. \A u \in Threads : object[u] = None /\ back[u] = "run" /\ seen[u] = 0 BY <1>1, <1>2 DEF IInv, AddInv
<1>4. \A u \in Threads : held[u] = 0 BY <1>2 DEF IInv, LinkInv
<1>5. \A u \in Threads : iterator[u].removed = 0 BY <1>2 DEF IInv, IteratorInv
<1>6. \A u \in Threads : fragment[u].count = 0 => ~HasRoom(u) BY <1>2 DEF IInv, FragmentInv
<1>7. Holders = {} BY <1>4 DEF Holders
<1>8. HeldPuddles = {} BY <1>7 DEF HeldPuddles
<1>9. \A p, i : (Ahead(p, i) <=> p \in Range(previous)) /\ ~Pending(p, i) /\ (Unpruned(p, i) <=> p \in Range(units))
  BY <1>2 DEF Ahead, Pending, Unpruned
<1>10. \A o \in Objects : OnItsWay(o) <=> o \in walk BY <1>3, ConstantsAssumption DEF OnItsWay
<1>11. \A u \in Threads : Stage(u) = pc[u] BY <1>1 DEF Stage
<1> QED BY <1>3, <1>4, <1>5, <1>6, <1>7, <1>8, <1>9, <1>10, <1>11

LEMMA QuietFrame ==
    ASSUME IInv, Quiet, Quiet', UNCHANGED <<back, object, seen, held, iterator>>
    PROVE  /\ \A u \in Threads : Stage(u)' = pc'[u] /\ object'[u] = None /\ held'[u] = 0 /\ pc'[u] # "pruneSlots"
           /\ AddInv' /\ IteratorInv' /\ Holders' = {} /\ HeldPuddles' = {}
           /\ \A p, i : Ahead(p, i)' <=> p \in Range(previous')
           /\ \A p, i : ~Pending(p, i)' /\ (Unpruned(p, i)' <=> p \in Range(units'))
           /\ \A o \in Objects : OnItsWay(o)' <=> o \in walk'
           /\ Unreported' = Unreported /\ Cardinality(Unreported) = 0
<1>1. \A u \in Threads : pc'[u] \notin AddPlaces /\ pc'[u] \notin WorkPlaces BY DEF Quiet
<1>2. \A u \in Threads : pc'[u] \notin {"slots", "verdict", "pruneSlots", "pop", "add", "bump"}
  BY <1>1 DEF AddPlaces, WorkPlaces
<1>3. \A u \in Threads : /\ object[u] = None /\ back[u] = "run" /\ seen[u] = 0 /\ held[u] = 0
                         /\ iterator[u].removed = 0
  BY QuietIs
<1>4. AddInv' BY <1>1, <1>3 DEF AddInv
<1>5. IteratorInv' BY <1>2, <1>3 DEF IteratorInv
<1>6. Holders' = {} BY <1>3 DEF Holders
<1>7. HeldPuddles' = {} BY <1>6 DEF HeldPuddles
<1>8. \A p, i : Ahead(p, i)' <=> p \in Range(previous') BY <1>2 DEF Ahead
<1>9. \A p, i : ~Pending(p, i)' /\ (Unpruned(p, i)' <=> p \in Range(units')) BY <1>2 DEF Pending, Unpruned
<1>10. \A o \in Objects : OnItsWay(o)' <=> o \in walk' BY <1>3, ConstantsAssumption DEF OnItsWay
<1>11. \A u \in Threads : Stage(u)' = pc'[u] BY <1>1 DEF Stage
<1>12. Unreported' = Unreported BY DEF Unreported
<1>13. Cardinality(Unreported) = 0
  <2>1. IteratorTypes BY TypeIs DEF IInv
  <2> QED BY <1>3, <2>1, UnreportedIs
<1> QED BY <1>2, <1>3, <1>4, <1>5, <1>6, <1>7, <1>8, <1>9, <1>10, <1>11, <1>12, <1>13

\* All threads go from one place to another.
QuietPlaces == Pcs \ (AddPlaces \cup WorkPlaces)

LEMMA AllMove ==
    ASSUME NEW a \in QuietPlaces, NEW b \in QuietPlaces, All(a), AllGoto(b), UNCHANGED back, PcTypes
    PROVE  /\ Quiet /\ Quiet' /\ PcTypes'
           /\ \A u \in Threads : pc[u] = a /\ Stage(u) = a /\ pc'[u] = b /\ Stage(u)' = b
           /\ \A S : (InStages(S) <=> a \in S) /\ (InStages(S)' <=> b \in S)
           /\ Stage(Master) = a /\ Stage(Master)' = b
<1>1. \A u \in Threads : pc[u] = a /\ pc'[u] = b BY DEF All, AllGoto
<1>2. a \in Pcs /\ b \in Pcs /\ a \notin AddPlaces \cup WorkPlaces /\ b \notin AddPlaces \cup WorkPlaces
  BY DEF QuietPlaces
<1>3. Quiet /\ Quiet' BY <1>1, <1>2 DEF Quiet
<1>4. pc' \in [Threads -> Pcs] BY <1>2 DEF AllGoto
<1>5. PcTypes' BY <1>4 DEF PcTypes
<1>6. a \notin AddPlaces /\ b \notin AddPlaces BY <1>2
<1>7. \A u \in Threads : Stage(u) = a /\ Stage(u)' = b BY <1>1, <1>6 DEF Stage
<1>8. Master \in Threads BY ConstantsAssumption
<1>9. \A S : (InStages(S) <=> a \in S) /\ (InStages(S)' <=> b \in S) BY <1>7, <1>8 DEF InStages
<1> QED BY <1>1, <1>3, <1>5, <1>7, <1>8, <1>9

\* A slot that is not NULL is in a puddle that exists.
LEMMA LiveSlot ==
    ASSUME IInv, NEW p \in Puddles, NEW i \in Places, slots[p][i] # Empty
    PROVE  p \in live
<1>1. SlotTypes BY TypeIs DEF IInv
<1>2. current[p] \in Nat /\ i \in Nat /\ 1 <= i BY <1>1, ConstantsAssumption DEF SlotTypes, Places
<1>3. ~(current[p] < i) BY DEF IInv, EmptyInv
<1>4. current[p] # 0 BY <1>2, <1>3
<1> QED BY <1>4 DEF IInv, EmptyInv

\* Nobody has room.
LEMMA NoRoom ==
    ASSUME \A t \in Threads : fragment'[t].count = 0 /\ ~HasRoom(t)'
    PROVE  FragmentInv' /\ RoomInv'
  BY DEF FragmentInv, RoomInv

LEMMA AllFlush ==
    ASSUME IInv, count' = count + Uncounted(Threads), fragment' = Flushed(Threads), UNCHANGED seen
    PROVE  /\ FragmentTypes' /\ count' \in Nat /\ FragmentInv' /\ RoomInv'
           /\ \A t \in Threads : fragment'[t].count = 0 /\ ~HasRoom(t)'
           /\ Filled' = Filled /\ Unreported' = Unreported => CountExact'
<1>1. FragmentTypes /\ NumberTypes BY TypeIs DEF IInv
<1>2. NoFragment \in Fragments BY ConstantsAssumption DEF NoFragment, Fragments
<1>3. fragment' \in [Threads -> Fragments] /\ \A t \in Threads : fragment'[t] = NoFragment BY <1>2 DEF Flushed
<1>4. FragmentTypes' BY <1>1, <1>3 DEF FragmentTypes
<1>5. \A t \in Threads : fragment'[t].count = 0 /\ ~HasRoom(t)' BY <1>3 DEF HasRoom, NoFragment
<1>6. FragmentInv' /\ RoomInv' BY <1>5, NoRoom
<1>7. Uncounted(Threads) \in Nat /\ count \in Nat BY <1>1, UncountedIs DEF NumberTypes
<1>8. Uncounted(Threads)' = 0 BY <1>1, <1>4, <1>5, UncountedNext
<1>9. count' + 0 = count + Uncounted(Threads) /\ count' \in Nat BY <1>7
<1>10. Filled' = Filled /\ Unreported' = Unreported => CountExact' BY <1>8, <1>9 DEF IInv, CountExact
<1> QED BY <1>4, <1>5, <1>6, <1>9, <1>10

LEMMA ScanCompleteStep ==
    ASSUME IInv, ScanComplete
    PROVE  IInv'
<1>1. /\ SlotTypes /\ PoolTypes /\ ObjectTypes /\ PcTypes /\ NumberTypes /\ FlagTypes /\ FragmentTypes
      /\ IteratorTypes
  BY TypeIs DEF IInv
<1>2. /\ All("scan") /\ AllGoto("prune") /\ units' = (IF overflow THEN <<>> ELSE list)
      /\ splits = {} /\ \A t \in Threads : fragment[t].count = 0
  BY DEF ScanComplete, NoWorkLeft
<1>3. /\ UNCHANGED <<live, list, alloc, previous, currentSize, rest, dest, slots, current, overflow, count>>
      /\ UNCHANGED <<overflowAtStart, walk, cycles, splits, seen, fragment, held, iterator>>
      /\ UNCHANGED <<remembered, young, back, object>>
  BY DEF ScanComplete, poolVars, compactVars, puddleVars, objectVars, addVars, scanVars
<1>4. "scan" \in QuietPlaces /\ "prune" \in QuietPlaces BY DEF QuietPlaces, Pcs, AddPlaces, WorkPlaces
<1>5. /\ Quiet /\ Quiet' /\ PcTypes'
      /\ \A u \in Threads : pc[u] = "scan" /\ Stage(u) = "scan" /\ pc'[u] = "prune" /\ Stage(u)' = "prune"
      /\ \A S : (InStages(S) <=> "scan" \in S) /\ (InStages(S)' <=> "prune" \in S)
      /\ Stage(Master) = "scan" /\ Stage(Master)' = "prune"
  BY <1>1, <1>2, <1>3, <1>4, AllMove
<1>6. /\ ScanPhase /\ ~RunPhase /\ ~PrunePhase /\ ~RebuildPhase /\ ~DonePhase /\ ~CompactPhase
      /\ rest = <<>> /\ dest = 0 /\ walk = {} /\ units = <<>>
  <2>1. Master \in Threads /\ pc[Master] \in ScanStages BY <1>5, ConstantsAssumption DEF ScanStages
  <2> QED BY <2>1, InScan
<1>7. previous = <<>> BY <1>5 DEF IInv, LinkInv
<1>8. PrunePhase' /\ PhaseInv' BY <1>5 DEF PrunePhase, PhaseInv
<1>9. ~RunPhase' /\ ~ScanPhase' /\ ~RebuildPhase' /\ ~CompactPhase' /\ ~DonePhase'
  BY <1>5, <1>8, ExclusiveNext DEF DonePhase
<1>10. /\ \A u \in Threads : fragment[u].count = 0 => ~HasRoom(u)
       /\ HeldPuddles = {} /\ Holders = {}
       /\ \A p, i : (Ahead(p, i) <=> p \in Range(previous)) /\ ~Pending(p, i)
       /\ \A u \in Threads : object[u] = None /\ held[u] = 0
  BY <1>5, QuietIs
<1>11. /\ \A u \in Threads : pc'[u] # "pruneSlots" /\ held'[u] = 0
       /\ AddInv' /\ IteratorInv' /\ Holders' = {}
       /\ \A p, i : ~Pending(p, i)' /\ (Unpruned(p, i)' <=> p \in Range(units'))
  BY <1>3, <1>5, QuietFrame
<1>12. FragmentInv' /\ RoomInv'
  <2>1. \A u \in Threads : fragment'[u].count = 0 /\ ~HasRoom(u)' BY <1>2, <1>3, <1>10 DEF HasRoom
  <2> QED BY <2>1, NoRoom
<1>13. live = Range(list) BY <1>6, <1>7, <1>10, RangeOfEmpty DEF IInv, LinkInv
<1>14. TypeOK'
  <2>1. units' \in Seq(live) BY <1>1, <1>2 DEF PoolTypes
  <2>2. PoolTypes' BY <1>1, <1>3, <2>1 DEF PoolTypes
  <2>3. SlotTypes' /\ ObjectTypes' /\ NumberTypes' /\ FlagTypes' /\ FragmentTypes' /\ IteratorTypes'
    BY <1>1, <1>3 DEF SlotTypes, ObjectTypes, NumberTypes, FlagTypes, FragmentTypes, IteratorTypes
  <2> QED BY <1>5, <2>2, <2>3, TypeNext
<1>15. EmptyInv' BY <1>3 DEF IInv, EmptyInv
<1>16. LinkInv'
  <2>1. \A u \in Threads : held'[u] # 0 => pc'[u] \in WorkPlaces BY <1>11
  <2> QED BY <1>3, <1>6, <1>7, <1>9, <1>10, <1>11, <2>1, LinkFrame DEF IInv
<1>17. UnitInv'
  <2>1. IsInjective(units') /\ Range(units') \subseteq Range(list') BY <1>2, <1>3, RangeOfEmpty DEF IInv, LinkInv
  <2>2. units' # <<>> => InStages({"prune", "pruneSlots"})' /\ ~overflow' BY <1>2, <1>3, <1>5
  <2> QED BY <1>11, <2>1, <2>2 DEF UnitInv
<1>18. SplitInv' BY <1>2, <1>3 DEF SplitInv
<1>19. ObjectInv' BY <1>3, <1>6 DEF IInv, ObjectInv
<1>20. SlotInv' BY <1>3, SlotFrame DEF IInv, OnItsWay
<1>21. FlagInv'
  <2> SUFFICES ASSUME ~overflow, NEW q \in Puddles, NEW j \in Places, NEW u \in Objects
               PROVE  /\ slots[q][j] = Flagged(u) => Unpruned(q, j)' /\ u \notin young
                      /\ slots[q][j] = Entry(u) => u \in young
    BY <1>3, <1>8 DEF FlagInv, FlaggedRight, EntryRight
  <2>1. ~Ahead(q, j) /\ ~Pending(q, j) BY <1>7, <1>10, RangeOfEmpty
  <2>2. slots[q][j] = Flagged(u) => u \notin young BY <1>2, <1>6, <2>1 DEF IInv, FlagInv, FlaggedRight
  <2>3. slots[q][j] = Entry(u) => u \in young BY <1>6, <2>1 DEF IInv, FlagInv, EntryRight
  <2>4. slots[q][j] = Flagged(u) => q \in Range(list) BY <1>13, LiveSlot, EntriesAre
  <2> QED BY <1>2, <1>11, <2>2, <2>3, <2>4
<1>22. DoneInv' BY <1>9 DEF DoneInv
<1>23. CountExact' /\ SizeInv' BY <1>3, CountFrame DEF IInv, SizeInv
<1> QED BY <1>8, <1>11, <1>12, <1>14, <1>15, <1>16, <1>17, <1>18, <1>19, <1>20, <1>21, <1>22, <1>23 DEF IInv

\* The mutators run, and none of them is adding an object.
LEMMA InRun ==
    ASSUME IInv, All("run")
    PROVE  /\ RunPhase /\ ~ScanPhase /\ ~PrunePhase /\ ~RebuildPhase /\ ~DonePhase /\ ~CompactPhase
           /\ Quiet /\ previous = <<>> /\ rest = <<>> /\ dest = 0 /\ walk = {} /\ splits = {} /\ units = <<>>
           /\ live = Range(list)
           /\ ~overflow => \A p \in Puddles, i \in Places, o \in Objects : slots[p][i] # Flagged(o)
<1>1. \A u \in Threads : pc[u] = "run" BY DEF All
<1>2. Quiet BY <1>1 DEF Quiet, AddPlaces, WorkPlaces
<1>3. \A u \in Threads : Stage(u) = "run" BY <1>1, <1>2, QuietIs
<1>4. Master \in Threads BY ConstantsAssumption
<1>5. RunPhase BY <1>3 DEF RunPhase, InStages
<1>6. ~ScanPhase /\ ~PrunePhase /\ ~RebuildPhase /\ ~DonePhase /\ ~CompactPhase BY <1>5, Exclusive
<1>7. previous = <<>> BY <1>3, <1>4 DEF IInv, LinkInv, InStages, ScanStages
<1>8. rest = <<>> /\ dest = 0 BY <1>6 DEF IInv, LinkInv
<1>9. walk = {} /\ splits = {} BY <1>6 DEF IInv, ObjectInv, SplitInv
<1>10. units = <<>> BY <1>3, <1>4 DEF IInv, UnitInv, InStages
<1>11. HeldPuddles = {} BY <1>2, QuietIs
<1>12. live = Range(list) BY <1>7, <1>8, <1>11, RangeOfEmpty DEF IInv, LinkInv
<1>13. ASSUME ~overflow PROVE \A p \in Puddles, i \in Places, o \in Objects : slots[p][i] # Flagged(o)
  BY <1>6, <1>13 DEF IInv, FlagInv, FlaggedRight
<1> QED BY <1>2, <1>5, <1>6, <1>7, <1>8, <1>9, <1>10, <1>12, <1>13

LEMMA StartScavengeStep ==
    ASSUME IInv, StartScavenge
    PROVE  IInv'
<1>1. /\ SlotTypes /\ PoolTypes /\ ObjectTypes /\ PcTypes /\ NumberTypes /\ FlagTypes /\ FragmentTypes
      /\ IteratorTypes
  BY TypeIs DEF IInv
<1>2. /\ All("run") /\ AllGoto("begin") /\ cycles < MaxCycles /\ cycles' = cycles + 1
      /\ count' = count + Uncounted(Threads) /\ fragment' = Flushed(Threads) /\ overflowAtStart' = overflow
      /\ previous' = list /\ list' = <<>> /\ alloc' = 0 /\ young' \in SUBSET remembered
  BY DEF StartScavenge
<1>3. /\ UNCHANGED <<live, currentSize, rest, dest, slots, current, overflow>>
      /\ UNCHANGED <<units, walk, splits, seen, held, iterator>>
      /\ UNCHANGED <<remembered, back, object>>
  BY DEF StartScavenge, compactVars, puddleVars, addVars, scanVars
<1>4. "run" \in QuietPlaces /\ "begin" \in QuietPlaces BY DEF QuietPlaces, Pcs, AddPlaces, WorkPlaces
<1>5. /\ Quiet /\ Quiet' /\ PcTypes'
      /\ \A S : InStages(S)' <=> "begin" \in S
  BY <1>1, <1>2, <1>3, <1>4, AllMove
<1>6. /\ RunPhase /\ ~ScanPhase /\ ~PrunePhase /\ ~RebuildPhase /\ ~DonePhase /\ ~CompactPhase
      /\ previous = <<>> /\ rest = <<>> /\ dest = 0 /\ walk = {} /\ splits = {} /\ units = <<>>
      /\ live = Range(list)
      /\ ~overflow => \A p \in Puddles, i \in Places, o \in Objects : slots[p][i] # Flagged(o)
  BY <1>2, InRun
<1>7. ScanPhase' /\ PhaseInv'
  <2>1. InStages(ScanStages)' /\ InStages({"begin", "overflowed"})' /\ InStages(ScanStages \ {"overflowed"})'
    BY <1>5 DEF ScanStages
  <2>2. overflowAtStart' => overflow' BY <1>2, <1>3
  <2> QED BY <2>1, <2>2 DEF ScanPhase, PhaseInv
<1>8. ~RunPhase' /\ ~PrunePhase' /\ ~RebuildPhase' /\ ~DonePhase' /\ ~CompactPhase' BY <1>7, ExclusiveNext
<1>9. /\ \A u \in Threads : object'[u] = None /\ held'[u] = 0 /\ pc'[u] # "pruneSlots"
      /\ AddInv' /\ IteratorInv' /\ Holders' = {} /\ HeldPuddles' = {} /\ Unreported' = Unreported
      /\ \A p, i : Ahead(p, i)' <=> p \in Range(previous')
  BY <1>3, <1>5, QuietFrame
<1>10. FragmentTypes' /\ count' \in Nat /\ FragmentInv' /\ RoomInv' /\ CountExact'
  <2>1. Filled' = Filled BY <1>3 DEF Filled
  <2> QED BY <1>2, <1>3, <1>9, <2>1, AllFlush
<1>11. TypeOK'
  <2>1. list' \in Seq(live') /\ previous' \in Seq(live') /\ alloc' \in Puddles \cup {0} BY <1>1, <1>2, <1>3 DEF PoolTypes
  <2>2. PoolTypes' BY <1>1, <1>3, <2>1 DEF PoolTypes
  <2>3. cycles' \in 0..MaxCycles BY <1>1, <1>2, ConstantsAssumption DEF NumberTypes
  <2>4. NumberTypes' BY <1>1, <1>3, <1>10, <2>3 DEF NumberTypes
  <2>5. ObjectTypes' BY <1>1, <1>2, <1>3 DEF ObjectTypes
  <2>6. SlotTypes' /\ FlagTypes' /\ IteratorTypes' BY <1>1, <1>2, <1>3 DEF SlotTypes, FlagTypes, IteratorTypes
  <2> QED BY <1>5, <1>10, <2>2, <2>4, <2>5, <2>6, TypeNext
<1>12. EmptyInv' BY <1>3 DEF IInv, EmptyInv
<1>13. LinkInv'
  <2>1. IsInjective(list') /\ Range(list') = {} /\ IsInjective(previous') /\ IsInjective(rest')
    BY <1>2, <1>3, RangeOfEmpty DEF IInv, LinkInv
  <2>2. live' = Range(previous') BY <1>2, <1>3, <1>6
  <2>3. Range(rest') = {} /\ dest' = 0 /\ rest' = <<>> BY <1>3, <1>6, RangeOfEmpty
  <2>4. InStages(ScanStages \ {"scan"})' BY <1>5 DEF ScanStages
  <2> QED BY <1>2, <1>9, <2>1, <2>2, <2>3, <2>4 DEF LinkInv
<1>14. UnitInv' BY <1>3, <1>6, <1>9, RangeOfEmpty DEF UnitInv
<1>15. SplitInv' BY <1>3, <1>6 DEF SplitInv
<1>16. ObjectInv' BY <1>2, <1>3, <1>6, <1>9 DEF ObjectInv
<1>17. SlotInv' BY <1>3, SlotFrame DEF IInv, OnItsWay
<1>18. FlagInv'
  <2> SUFFICES ASSUME ~overflow, NEW q \in Puddles, NEW j \in Places, NEW u \in Objects
               PROVE  slots[q][j] = Entry(u) => Ahead(q, j)'
    BY <1>3, <1>6, <1>7 DEF FlagInv, EntryRight
  <2>1. slots[q][j] = Entry(u) => q \in Range(list) BY <1>6, LiveSlot, EntriesAre
  <2> QED BY <1>2, <1>9, <2>1
<1>19. DoneInv' BY <1>8 DEF DoneInv
<1>20. SizeInv' BY <1>3 DEF IInv, SizeInv
<1> QED BY <1>7, <1>9, <1>10, <1>11, <1>12, <1>13, <1>14, <1>15, <1>16, <1>17, <1>18, <1>19, <1>20 DEF IInv

LEMMA EndScavengeStep ==
    ASSUME IInv, EndScavenge
    PROVE  IInv'
<1>1. /\ SlotTypes /\ PoolTypes /\ ObjectTypes /\ PcTypes /\ NumberTypes /\ FlagTypes /\ FragmentTypes
      /\ IteratorTypes
  BY TypeIs DEF IInv
<1>2. All("done") /\ AllGoto("run") /\ young' = {} BY DEF EndScavenge
<1>3. /\ UNCHANGED <<live, list, alloc, previous, currentSize, rest, dest, slots, current, overflow, count>>
      /\ UNCHANGED <<overflowAtStart, units, walk, cycles, splits, seen, fragment, held, iterator>>
      /\ UNCHANGED <<remembered, back, object>>
  BY DEF EndScavenge, poolVars, compactVars, puddleVars, cycleVars, addVars, scanVars
<1>4. "done" \in QuietPlaces /\ "run" \in QuietPlaces BY DEF QuietPlaces, Pcs, AddPlaces, WorkPlaces
<1>5. /\ Quiet /\ Quiet' /\ PcTypes'
      /\ \A u \in Threads : pc[u] = "done" /\ Stage(u) = "done" /\ pc'[u] = "run" /\ Stage(u)' = "run"
      /\ \A S : (InStages(S) <=> "done" \in S) /\ (InStages(S)' <=> "run" \in S)
  BY <1>1, <1>2, <1>3, <1>4, AllMove
<1>6. DonePhase /\ ~RunPhase /\ ~ScanPhase /\ ~RebuildPhase /\ ~CompactPhase BY <1>5, Exclusive DEF DonePhase
<1>7. RunPhase' /\ PhaseInv' BY <1>5 DEF RunPhase, PhaseInv
<1>8. ~ScanPhase' /\ ~PrunePhase' /\ ~RebuildPhase' /\ ~DonePhase' /\ ~CompactPhase' BY <1>7, ExclusiveNext
<1>9. /\ \A u \in Threads : fragment[u].count = 0 => ~HasRoom(u)
      /\ Holders = {} /\ \A p, i : Unpruned(p, i) <=> p \in Range(units)
      /\ \A u \in Threads : object[u] = None /\ held[u] = 0 /\ back[u] = "run"
  BY <1>5, QuietIs
<1>10. /\ \A u \in Threads : pc'[u] # "pruneSlots" /\ held'[u] = 0 /\ object'[u] = None
       /\ AddInv' /\ IteratorInv' /\ Holders' = {}
  BY <1>3, <1>5, QuietFrame
<1>11. previous = <<>> /\ units = <<>> BY <1>5 DEF IInv, LinkInv, UnitInv, ScanStages
<1>12. walk = {} /\ splits = {} BY <1>6 DEF IInv, ObjectInv, SplitInv
<1>13. FragmentInv' /\ RoomInv'
  <2>1. \A u \in Threads : fragment[u].count = 0 BY <1>5 DEF IInv, FragmentInv
  <2>2. \A u \in Threads : fragment'[u].count = 0 /\ ~HasRoom(u)' BY <1>3, <1>9, <2>1 DEF HasRoom
  <2> QED BY <2>2, NoRoom
<1>14. TypeOK'
  <2>1. ObjectTypes' BY <1>1, <1>2, <1>3 DEF ObjectTypes
  <2>2. SlotTypes' /\ PoolTypes' /\ NumberTypes' /\ FlagTypes' /\ FragmentTypes' /\ IteratorTypes'
    BY <1>1, <1>3 DEF SlotTypes, PoolTypes, NumberTypes, FlagTypes, FragmentTypes, IteratorTypes
  <2> QED BY <1>5, <2>1, <2>2, TypeNext
<1>15. EmptyInv' BY <1>3 DEF IInv, EmptyInv
<1>16. LinkInv'
  <2>1. \A u \in Threads : held'[u] # 0 => pc'[u] \in WorkPlaces BY <1>10
  <2> QED BY <1>3, <1>6, <1>8, <1>9, <1>10, <1>11, <2>1, LinkFrame DEF IInv
<1>17. UnitInv' BY <1>3, <1>10, <1>11, RangeOfEmpty DEF UnitInv
<1>18. SplitInv' BY <1>3, <1>12 DEF SplitInv
<1>19. ObjectInv' BY <1>2, <1>3, <1>10, <1>12 DEF ObjectInv
<1>20. SlotInv' BY <1>3, SlotFrame DEF IInv, OnItsWay
<1>21. FlagInv'
  <2> SUFFICES ASSUME ~overflow, NEW q \in Puddles, NEW j \in Places, NEW u \in Objects
               PROVE  slots[q][j] # Flagged(u)
    BY <1>3, <1>7 DEF FlagInv, EntryRight
  <2>1. ~Unpruned(q, j) BY <1>9, <1>11, RangeOfEmpty
  <2> QED BY <1>6, <2>1 DEF IInv, FlagInv, FlaggedRight
<1>22. DoneInv' BY <1>8 DEF DoneInv
<1>23. CountExact' /\ SizeInv' BY <1>3, CountFrame DEF IInv, SizeInv
<1> QED BY <1>7, <1>10, <1>13, <1>14, <1>15, <1>16, <1>17, <1>18, <1>19, <1>20, <1>21, <1>22, <1>23 DEF IInv

LEMMA StartCompactStep ==
    ASSUME IInv, StartCompact
    PROVE  IInv'
<1>1. /\ SlotTypes /\ PoolTypes /\ ObjectTypes /\ PcTypes /\ NumberTypes /\ FlagTypes /\ FragmentTypes
      /\ IteratorTypes
  BY TypeIs DEF IInv
<1>2. /\ All("run") /\ AllGoto("compact") /\ cycles < MaxCycles /\ cycles' = cycles + 1
      /\ count' = count + Uncounted(Threads) /\ fragment' = Flushed(Threads)
      /\ rest' = list /\ list' = <<>>
  BY DEF StartCompact
<1>3. /\ UNCHANGED <<live, alloc, previous, currentSize, dest, slots, current, overflow, overflowAtStart>>
      /\ UNCHANGED <<units, walk, splits, seen, held, iterator>>
      /\ UNCHANGED <<remembered, young, back, object>>
  BY DEF StartCompact, puddleVars, addVars, scanVars, objectVars
<1>4. "run" \in QuietPlaces /\ "compact" \in QuietPlaces BY DEF QuietPlaces, Pcs, AddPlaces, WorkPlaces
<1>5. /\ Quiet /\ Quiet' /\ PcTypes'
      /\ \A S : InStages(S)' <=> "compact" \in S
  BY <1>1, <1>2, <1>3, <1>4, AllMove
<1>6. /\ RunPhase /\ ~ScanPhase /\ ~PrunePhase /\ ~RebuildPhase /\ ~DonePhase /\ ~CompactPhase
      /\ previous = <<>> /\ rest = <<>> /\ dest = 0 /\ walk = {} /\ splits = {} /\ units = <<>>
      /\ live = Range(list)
      /\ ~overflow => \A p \in Puddles, i \in Places, o \in Objects : slots[p][i] # Flagged(o)
  BY <1>2, InRun
<1>7. CompactPhase' /\ PhaseInv' BY <1>5 DEF CompactPhase, PhaseInv
<1>8. ~RunPhase' /\ ~ScanPhase' /\ ~PrunePhase' /\ ~RebuildPhase' /\ ~DonePhase' BY <1>7, ExclusiveNext
<1>9. /\ \A u \in Threads : object'[u] = None /\ held'[u] = 0 /\ pc'[u] # "pruneSlots"
      /\ AddInv' /\ IteratorInv' /\ Holders' = {} /\ HeldPuddles' = {} /\ Unreported' = Unreported
  BY <1>3, <1>5, QuietFrame
<1>10. FragmentTypes' /\ count' \in Nat /\ FragmentInv' /\ RoomInv' /\ CountExact'
  <2>1. Filled' = Filled BY <1>3 DEF Filled
  <2> QED BY <1>2, <1>3, <1>9, <2>1, AllFlush
<1>11. TypeOK'
  <2>1. list' \in Seq(live') /\ rest' \in Seq(live') BY <1>1, <1>2, <1>3 DEF PoolTypes
  <2>2. PoolTypes' BY <1>1, <1>3, <2>1 DEF PoolTypes
  <2>3. cycles' \in 0..MaxCycles BY <1>1, <1>2, ConstantsAssumption DEF NumberTypes
  <2>4. NumberTypes' BY <1>1, <1>3, <1>10, <2>3 DEF NumberTypes
  <2>5. SlotTypes' /\ ObjectTypes' /\ FlagTypes' /\ IteratorTypes'
    BY <1>1, <1>3 DEF SlotTypes, ObjectTypes, FlagTypes, IteratorTypes
  <2> QED BY <1>5, <1>10, <2>2, <2>4, <2>5, TypeNext
<1>12. EmptyInv' BY <1>3 DEF IInv, EmptyInv
<1>13. LinkInv'
  <2>1. IsInjective(list') /\ Range(list') = {} /\ IsInjective(previous') /\ IsInjective(rest')
    BY <1>2, <1>3, RangeOfEmpty DEF IInv, LinkInv
  <2>2. live' = Range(rest') BY <1>2, <1>3, <1>6
  <2>3. Range(previous') = {} /\ dest' = 0 /\ previous' = <<>> BY <1>3, <1>6, RangeOfEmpty
  <2>4. dest' \notin Range(rest')
    <3>1. 0 \notin live BY <1>1 DEF PoolTypes, Puddles
    <3> QED BY <1>3, <2>2, <2>3, <3>1
  <2> QED BY <1>7, <1>9, <2>1, <2>2, <2>3, <2>4 DEF LinkInv
<1>14. UnitInv' BY <1>3, <1>6, <1>9, RangeOfEmpty DEF UnitInv
<1>15. SplitInv' BY <1>3, <1>6 DEF SplitInv
<1>16. ObjectInv' BY <1>3, <1>6, <1>9 DEF IInv, ObjectInv
<1>17. SlotInv' BY <1>3, SlotFrame DEF IInv, OnItsWay
<1>18. FlagInv' BY <1>3, <1>6, <1>7 DEF FlagInv, EntryRight
<1>19. DoneInv' BY <1>8 DEF DoneInv
<1>20. SizeInv' BY <1>3 DEF IInv, SizeInv
<1> QED BY <1>7, <1>9, <1>10, <1>11, <1>12, <1>13, <1>14, <1>15, <1>16, <1>17, <1>18, <1>19, <1>20 DEF IInv

\* clear(), when all puddles are in the lists.
LEMMA ClearIs ==
    ASSUME IInv, Clear, live = Range(list) \cup Range(previous)
    PROVE  /\ live' = {} /\ list' = <<>> /\ alloc' = 0 /\ previous' = <<>> /\ currentSize' = 0 /\ count' = 0
           /\ SlotTypes' /\ EmptyInv' /\ SizeInv'
           /\ \A p \in Puddles, i \in Places : slots'[p][i] = Empty
           /\ Filled' = {}
<1>1. SlotTypes /\ PoolTypes BY TypeIs DEF IInv
<1> DEFINE ps == Range(list) \cup Range(previous)
<1>2. /\ slots' = [p \in Puddles |-> IF p \in ps THEN NewPuddle ELSE slots[p]]
      /\ current' = [p \in Puddles |-> IF p \in ps THEN 0 ELSE current[p]]
      /\ live' = live \ ps
      /\ list' = <<>> /\ alloc' = 0 /\ previous' = <<>> /\ currentSize' = 0 /\ count' = 0
  BY DEF Clear, Freed
<1>3. ps = live OBVIOUS
<1> HIDE DEF ps
<1>4. live' = {} BY <1>2, <1>3
<1>5. NewPuddle \in [Places -> Entries] /\ \A i \in Places : NewPuddle[i] = Empty BY EntriesAre DEF NewPuddle
<1>6. \A p \in Puddles, i \in Places : slots'[p][i] = Empty
  <2> SUFFICES ASSUME NEW p \in Puddles, NEW i \in Places PROVE slots'[p][i] = Empty OBVIOUS
  <2>1. CASE p \in live BY <1>2, <1>3, <1>5, <2>1
  <2>2. CASE p \notin live BY <1>2, <1>3, <2>2, LiveSlot
  <2> QED BY <2>1, <2>2
<1>7. \A p \in Puddles : current'[p] = 0 BY <1>2, <1>3 DEF IInv, EmptyInv
<1>8. SlotTypes'
  <2>1. slots' \in [Puddles -> [Places -> Entries]] BY <1>1, <1>2, <1>5 DEF SlotTypes
  <2>2. current' \in [Puddles -> 0..GrowSize] BY <1>1, <1>2, ConstantsAssumption DEF SlotTypes
  <2> QED BY <2>1, <2>2 DEF SlotTypes
<1>9. EmptyInv' BY <1>6, <1>7 DEF EmptyInv
<1>10. SizeInv'
  <2>1. Cardinality(live') = 0 BY <1>4, FS_EmptySet
  <2>2. 0 >= GrowSize * 0 BY ConstantsAssumption
  <2> QED BY <1>2, <2>1, <2>2 DEF SizeInv
<1>11. Filled' = {} BY <1>4 DEF Filled
<1> QED BY <1>2, <1>4, <1>6, <1>8, <1>9, <1>10, <1>11

LEMMA ScavengeOverflowStep ==
    ASSUME IInv, ScavengeOverflow
    PROVE  IInv'
<1>1. /\ SlotTypes /\ PoolTypes /\ ObjectTypes /\ PcTypes /\ NumberTypes /\ FlagTypes /\ FragmentTypes
      /\ IteratorTypes
  BY TypeIs DEF IInv
<1>2. All("overflowed") /\ AllGoto("scan") /\ Clear BY DEF ScavengeOverflow
<1>3. /\ UNCHANGED <<rest, dest, overflow, overflowAtStart, units, walk, cycles, splits, seen, fragment, held, iterator>>
      /\ UNCHANGED <<remembered, young, back, object>>
  BY DEF ScavengeOverflow, compactVars, cycleVars, addVars, scanVars, objectVars
<1>4. "overflowed" \in QuietPlaces /\ "scan" \in QuietPlaces BY DEF QuietPlaces, Pcs, AddPlaces, WorkPlaces
<1>5. /\ Quiet /\ Quiet' /\ PcTypes'
      /\ \A u \in Threads : pc[u] = "overflowed" /\ Stage(u) = "overflowed" /\ pc'[u] = "scan" /\ Stage(u)' = "scan"
      /\ \A S : (InStages(S) <=> "overflowed" \in S) /\ (InStages(S)' <=> "scan" \in S)
  BY <1>1, <1>2, <1>3, <1>4, AllMove
<1>6. ScanPhase /\ rest = <<>> /\ dest = 0 /\ walk = {} /\ units = <<>>
  <2>1. Master \in Threads /\ pc[Master] \in ScanStages BY <1>5, ConstantsAssumption DEF ScanStages
  <2> QED BY <2>1, InScan
<1>7. overflowAtStart /\ overflow BY <1>5, <1>6 DEF ScanPhase
<1>8. splits = {} BY <1>7 DEF IInv, SplitInv
<1>9. /\ \A u \in Threads : fragment[u].count = 0 => ~HasRoom(u)
      /\ HeldPuddles = {} /\ \A u \in Threads : object[u] = None /\ held[u] = 0
  BY <1>5, QuietIs
<1>10. live = Range(list) \cup Range(previous) BY <1>6, <1>9, RangeOfEmpty DEF IInv, LinkInv
<1>11. /\ live' = {} /\ list' = <<>> /\ alloc' = 0 /\ previous' = <<>> /\ currentSize' = 0 /\ count' = 0
       /\ SlotTypes' /\ EmptyInv' /\ SizeInv' /\ Filled' = {}
  BY <1>2, <1>10, ClearIs
<1>12. ScanPhase' /\ PhaseInv'
  <2>1. InStages(ScanStages)' /\ InStages({"scan"})' BY <1>5 DEF ScanStages
  <2>2. overflowAtStart' /\ overflow' BY <1>3, <1>7
  <2> QED BY <2>1, <2>2 DEF ScanPhase, PhaseInv
<1>13. ~RunPhase' /\ ~PrunePhase' /\ ~RebuildPhase' /\ ~DonePhase' /\ ~CompactPhase' BY <1>12, ExclusiveNext
<1>14. /\ \A u \in Threads : pc'[u] # "pruneSlots" /\ held'[u] = 0 /\ object'[u] = None
       /\ AddInv' /\ IteratorInv' /\ Holders' = {} /\ HeldPuddles' = {}
       /\ Unreported' = Unreported /\ Cardinality(Unreported) = 0
  BY <1>3, <1>5, QuietFrame
<1>15. \A u \in Threads : fragment'[u].count = 0 /\ ~HasRoom(u)'
  <2>1. \A u \in Threads : fragment[u].count = 0 BY <1>5 DEF IInv, FragmentInv
  <2> QED BY <1>3, <1>9, <2>1 DEF HasRoom
<1>16. FragmentInv' /\ RoomInv' BY <1>15, NoRoom
<1>17. FragmentTypes' BY <1>1, <1>3 DEF FragmentTypes
<1>18. TypeOK'
  <2>1. held' \in [Threads -> live' \cup {0}] BY <1>1, <1>3, <1>14 DEF PoolTypes
  <2>2. PoolTypes' BY <1>3, <1>6, <1>8, <1>11, <2>1 DEF PoolTypes
  <2>3. ObjectTypes' /\ NumberTypes' /\ FlagTypes' /\ IteratorTypes'
    BY <1>1, <1>3, <1>11 DEF ObjectTypes, NumberTypes, FlagTypes, IteratorTypes
  <2> QED BY <1>5, <1>11, <1>17, <2>2, <2>3, TypeNext
<1>19. LinkInv'
  <2>1. Range(list') = {} /\ IsInjective(list') /\ Range(previous') = {} /\ IsInjective(previous')
    BY <1>11, RangeOfEmpty
  <2>2. rest' = <<>> /\ dest' = 0 /\ Range(rest') = {} /\ IsInjective(rest') BY <1>3, <1>6, RangeOfEmpty
  <2> QED BY <1>11, <1>14, <2>1, <2>2 DEF LinkInv
<1>20. UnitInv' BY <1>3, <1>6, <1>14, RangeOfEmpty DEF UnitInv
<1>21. SplitInv' BY <1>3, <1>8 DEF SplitInv
<1>22. ObjectInv' BY <1>3, <1>6, <1>14 DEF IInv, ObjectInv
<1>23. SlotInv' /\ FlagInv' BY <1>3, <1>7 DEF SlotInv, FlagInv
<1>24. DoneInv' BY <1>13 DEF DoneInv
<1>25. CountExact'
  <2>1. Uncounted(Threads)' = 0 BY <1>1, <1>15, <1>17, UncountedNext
  <2>2. Cardinality(Filled') = 0 BY <1>11, FS_EmptySet
  <2>3. Cardinality(Unreported') = 0 BY <1>14
  <2> QED BY <1>11, <2>1, <2>2, <2>3 DEF CountExact
<1> QED BY <1>11, <1>12, <1>14, <1>16, <1>18, <1>19, <1>20, <1>21, <1>22, <1>23, <1>24, <1>25 DEF IInv

LEMMA RebuildStep ==
    ASSUME IInv, Rebuild
    PROVE  IInv'
<1>1. /\ SlotTypes /\ PoolTypes /\ ObjectTypes /\ PcTypes /\ NumberTypes /\ FlagTypes /\ FragmentTypes
      /\ IteratorTypes
  BY TypeIs DEF IInv
<1>0. Master \in Threads BY ConstantsAssumption
<1>2. /\ \A u \in Threads : pc[u] = "pruneOverflow"
      /\ overflow' = FALSE /\ Clear /\ walk' = remembered /\ pc' = [pc EXCEPT ![Master] = "rebuild"]
  BY DEF Rebuild, All, Goto
<1>3. /\ UNCHANGED <<rest, dest, overflowAtStart, units, cycles, splits, seen, fragment, held, iterator>>
      /\ UNCHANGED <<remembered, young, back, object>>
  BY DEF Rebuild, compactVars, addVars, scanVars, objectVars
<1>4. pc'[Master] = "rebuild" /\ \A u \in Threads : u # Master => pc'[u] = "pruneOverflow"
  BY <1>0, <1>1, <1>2 DEF PcTypes
<1>5. Quiet /\ Quiet'
  <2>1. \A u \in Threads : pc'[u] \in {"rebuild", "pruneOverflow"} BY <1>4
  <2> QED BY <1>2, <2>1 DEF Quiet, AddPlaces, WorkPlaces
<1>6. PcTypes' BY <1>1, <1>2, <1>3 DEF PcTypes, Pcs
<1>7. /\ \A u \in Threads : /\ Stage(u) = pc[u] /\ object[u] = None /\ held[u] = 0
                            /\ fragment[u].count = 0 => ~HasRoom(u)
      /\ HeldPuddles = {}
  BY <1>5, QuietIs
<1>8. PrunePhase /\ overflow /\ ~ScanPhase /\ ~RebuildPhase /\ ~CompactPhase
  <2>1. Stage(Master) = "pruneOverflow" BY <1>0, <1>2, <1>7
  <2> QED BY <1>0, <1>1, <2>1, PhaseOf, Exclusive DEF IInv
<1>9. previous = <<>> /\ units = <<>>
  <2>1. \A u \in Threads : Stage(u) = "pruneOverflow" BY <1>2, <1>7
  <2> QED BY <1>0, <2>1 DEF IInv, LinkInv, UnitInv, InStages, ScanStages
<1>10. rest = <<>> /\ dest = 0 /\ splits = {} BY <1>8 DEF IInv, LinkInv, SplitInv
<1>11. live = Range(list) \cup Range(previous) BY <1>7, <1>10, RangeOfEmpty DEF IInv, LinkInv
<1>12. /\ live' = {} /\ list' = <<>> /\ alloc' = 0 /\ previous' = <<>> /\ currentSize' = 0 /\ count' = 0
       /\ SlotTypes' /\ EmptyInv' /\ SizeInv' /\ Filled' = {}
       /\ \A p \in Puddles, i \in Places : slots'[p][i] = Empty
  BY <1>2, <1>11, ClearIs
<1>13. /\ \A u \in Threads : Stage(u)' = pc'[u] /\ object'[u] = None /\ held'[u] = 0 /\ pc'[u] # "pruneSlots"
       /\ AddInv' /\ IteratorInv' /\ Holders' = {} /\ HeldPuddles' = {}
       /\ \A o \in Objects : OnItsWay(o)' <=> o \in walk'
       /\ Unreported' = Unreported /\ Cardinality(Unreported) = 0
  BY <1>3, <1>5, QuietFrame
<1>14. RebuildPhase' /\ PhaseInv'
  <2>1. Stage(Master)' = "rebuild" BY <1>0, <1>4, <1>13
  <2>2. \A u \in Threads : u = Master \/ Stage(u)' = "pruneOverflow" BY <1>4, <1>13
  <2> QED BY <2>1, <2>2 DEF RebuildPhase, PhaseInv
<1>15. ~RunPhase' /\ ~ScanPhase' /\ ~PrunePhase' /\ ~DonePhase' /\ ~CompactPhase' BY <1>14, ExclusiveNext
<1>16. \A u \in Threads : fragment'[u].count = 0 /\ ~HasRoom(u)'
  <2>1. \A u \in Threads : fragment[u].count = 0 BY <1>2, <1>7 DEF IInv, FragmentInv
  <2> QED BY <1>3, <1>7, <2>1 DEF HasRoom
<1>17. FragmentInv' /\ RoomInv' BY <1>16, NoRoom
<1>18. FragmentTypes' BY <1>1, <1>3 DEF FragmentTypes
<1>19. TypeOK'
  <2>1. held' \in [Threads -> live' \cup {0}] BY <1>1, <1>3, <1>13 DEF PoolTypes
  <2>2. PoolTypes' BY <1>3, <1>9, <1>10, <1>12, <2>1 DEF PoolTypes
  <2>3. ObjectTypes' BY <1>1, <1>2, <1>3 DEF ObjectTypes
  <2>4. NumberTypes' /\ FlagTypes' /\ IteratorTypes'
    BY <1>1, <1>2, <1>3, <1>12 DEF NumberTypes, FlagTypes, IteratorTypes
  <2> QED BY <1>6, <1>12, <1>18, <2>2, <2>3, <2>4, TypeNext
<1>20. LinkInv'
  <2>1. Range(list') = {} /\ IsInjective(list') /\ Range(previous') = {} /\ IsInjective(previous')
    BY <1>12, RangeOfEmpty
  <2>2. rest' = <<>> /\ dest' = 0 /\ Range(rest') = {} /\ IsInjective(rest') BY <1>3, <1>10, RangeOfEmpty
  <2> QED BY <1>12, <1>13, <2>1, <2>2 DEF LinkInv
<1>21. UnitInv' BY <1>3, <1>9, <1>13, RangeOfEmpty DEF UnitInv
<1>22. SplitInv' BY <1>3, <1>10 DEF SplitInv
<1>23. ObjectInv' BY <1>2, <1>3, <1>13, <1>14 DEF IInv, ObjectInv
<1>24. SlotInv'
  <2>1. \A x \in Spots, o \in Objects : ~HoldsAt(slots', x, o) BY <1>12, SpotsAre DEF HoldsAt, At
  <2>2. OneSlot(slots') /\ \A o \in Objects : ~HasSlot(slots', o) BY <2>1 DEF OneSlot, HasSlot
  <2> QED BY <1>2, <1>3, <1>13, <2>2 DEF SlotInv
<1>25. FlagInv' BY <1>12, EntriesAre DEF FlagInv
<1>26. DoneInv' BY <1>2, <1>3, <1>15 DEF DoneInv
<1>27. CountExact'
  <2>1. Uncounted(Threads)' = 0 BY <1>1, <1>16, <1>18, UncountedNext
  <2>2. Cardinality(Filled') = 0 BY <1>12, FS_EmptySet
  <2>3. Cardinality(Unreported') = 0 BY <1>13
  <2> QED BY <1>12, <2>1, <2>2, <2>3 DEF CountExact
<1> QED BY <1>12, <1>13, <1>14, <1>17, <1>19, <1>20, <1>21, <1>22, <1>23, <1>24, <1>25, <1>26, <1>27 DEF IInv

\* What coming to an object of the heap leaves alone.
LEMMA WalkFrame ==
    ASSUME IInv, SameStages, SameWork, PcTypes', ObjectTypes', RebuildPhase, AddInv', FragmentInv', ObjectInv',
           UNCHANGED <<live, list, alloc, previous, currentSize, rest, dest, slots, current, overflow, count>>,
           UNCHANGED <<overflowAtStart, units, cycles, young, splits, seen, fragment, held, iterator>>,
           remembered' \subseteq young \cup walk',
           \A u \in Objects : u \in remembered' /\ ~OnItsWay(u)' <=> u \in remembered /\ ~OnItsWay(u)
    PROVE  IInv'
<1>1. /\ SlotTypes /\ PoolTypes /\ ObjectTypes /\ PcTypes /\ NumberTypes /\ FlagTypes /\ FragmentTypes
      /\ IteratorTypes
  BY TypeIs DEF IInv
<1>2. /\ PhaseInv' /\ (RunPhase' <=> RunPhase) /\ (CompactPhase' <=> CompactPhase)
      /\ (ScanPhase' <=> ScanPhase) /\ (PrunePhase' <=> PrunePhase) /\ (RebuildPhase' <=> RebuildPhase)
      /\ (DonePhase' <=> DonePhase)
  BY StagesSame, PhasesSame DEF IInv
<1>3. TypeOK'
  <2>1. SlotTypes' /\ PoolTypes' /\ NumberTypes' /\ FlagTypes' /\ FragmentTypes' /\ IteratorTypes'
    BY <1>1 DEF SlotTypes, PoolTypes, NumberTypes, FlagTypes, FragmentTypes, IteratorTypes
  <2> QED BY <2>1, TypeNext
<1>4. RoomInv' /\ EmptyInv' BY DEF IInv, RoomInv, EmptyInv, HasRoom
<1>5. LinkInv' BY LinkSame DEF IInv
<1>6. IteratorInv' /\ UnitInv' /\ SplitInv'
  <2>1. \A p \in Puddles : current[p] \in Nat BY <1>1, ConstantsAssumption DEF SlotTypes
  <2>2. \A p \in Puddles : current[p] <= current[p] BY <2>1
  <2> QED BY <1>2, <2>1, <2>2, WorkFrame
<1>7. SlotInv' BY DEF IInv, SlotInv
<1>8. \A p \in Puddles, i \in Places :
        (Ahead(p, i)' <=> Ahead(p, i)) /\ (Pending(p, i)' <=> Pending(p, i)) /\ (Unpruned(p, i)' <=> Unpruned(p, i))
  BY WorkSame
<1>9. FlagInv' BY <1>2, <1>8, FlagFrame DEF IInv
<1>10. DoneInv' BY <1>2, ExclusiveNext DEF DoneInv
<1>11. CountExact' /\ SizeInv' BY CountFrame DEF IInv, SizeInv
<1> QED BY <1>2, <1>3, <1>4, <1>5, <1>6, <1>7, <1>9, <1>10, <1>11 DEF IInv

LEMMA RebuildObjectStep ==
    ASSUME IInv, NEW o \in Objects, RebuildObject(o)
    PROVE  IInv'
<1>1. ObjectTypes /\ PcTypes BY TypeIs DEF IInv
<1>0. Master \in Threads BY ConstantsAssumption
<1>2. /\ pc[Master] = "rebuild" /\ o \in walk /\ walk' = walk \ {o}
      /\ IF o \in young
         THEN /\ object' = [object EXCEPT ![Master] = o] /\ back' = [back EXCEPT ![Master] = "rebuild"]
              /\ pc' = [pc EXCEPT ![Master] = "add"] /\ UNCHANGED remembered
         ELSE remembered' = remembered \ {o} /\ UNCHANGED <<pc, object, back>>
  BY DEF RebuildObject, Goto
<1>3. /\ UNCHANGED <<live, list, alloc, previous, currentSize, rest, dest, slots, current, overflow, count>>
      /\ UNCHANGED <<overflowAtStart, units, cycles, young, splits, seen, fragment, held, iterator>>
  BY DEF RebuildObject, poolVars, compactVars, puddleVars, scanVars
<1>4. pc[Master] \notin AddPlaces /\ Stage(Master) = "rebuild" BY <1>2 DEF AddPlaces, Stage
<1>5. RebuildPhase BY <1>0, <1>1, <1>4, PhaseOf DEF IInv
<1>6. remembered \subseteq young \cup walk BY <1>5 DEF IInv, DoneInv
<1>7. object[Master] = None /\ seen[Master] = 0 BY <1>0, <1>2, <1>4 DEF IInv, AddInv
<1>8. /\ young \subseteq remembered /\ walk \subseteq remembered
      /\ \A t \in Threads : object[t] # None =>
           /\ object[t] \in remembered \ walk
           /\ \A u \in Threads : object[u] = object[t] => u = t
           /\ back[t] # "run" => object[t] \in young
  BY DEF IInv, ObjectInv
<1>9. CASE o \in young
  <2>1. /\ object'[Master] = o /\ back'[Master] = "rebuild" /\ pc'[Master] = "add" /\ UNCHANGED remembered
        /\ \A u \in Threads \ {Master} : object'[u] = object[u] /\ back'[u] = back[u] /\ pc'[u] = pc[u]
    BY <1>0, <1>1, <1>2, <1>9 DEF ObjectTypes, PcTypes
  <2>2. SameStages /\ SameWork
    <3>1. Stage(Master)' = Stage(Master) /\ pc[Master] \notin WorkPlaces /\ pc'[Master] \notin WorkPlaces
      BY <1>2, <1>4, <2>1 DEF Stage, AddPlaces, WorkPlaces
    <3> QED BY <1>0, <1>3, <2>1, <3>1, OneMoves DEF scanVars
  <2>3. PcTypes' /\ ObjectTypes' BY <1>1, <1>2, <1>3, <1>9 DEF PcTypes, Pcs, ObjectTypes
  <2>4. AddInv'
    <3>1. \A u \in Threads \ {Master} : /\ object'[u] # None <=> pc'[u] \in AddPlaces
                                        /\ back'[u] # "run" => pc'[u] \in AddPlaces
                                        /\ seen'[u] # 0 => pc'[u] = "bump" /\ seen'[u] \in Range(list')
      BY <1>3, <2>1 DEF IInv, AddInv
    <3>2. object'[Master] # None /\ pc'[Master] \in AddPlaces /\ seen'[Master] = 0
      BY <1>3, <1>7, <2>1, ConstantsAssumption DEF AddPlaces
    <3> QED BY <3>1, <3>2 DEF AddInv
  <2>5. FragmentInv'
    <3>1. \A u \in Threads : Stage(u)' = Stage(u) BY <2>2 DEF SameStages
    <3> QED BY <1>2, <1>3, <1>4, <2>1, <3>1 DEF IInv, FragmentInv, HasRoom
  <2>6. ObjectInv'
    <3>1. young' \subseteq remembered' /\ walk' \subseteq remembered' BY <1>2, <1>3, <1>8, <2>1
    <3>2. ASSUME NEW u \in Threads, object'[u] # None
          PROVE  /\ object'[u] \in remembered' \ walk'
                 /\ \A v \in Threads : object'[v] = object'[u] => v = u
                 /\ back'[u] # "run" => object'[u] \in young'
      <4>1. \A v \in Threads : object[v] # None => object[v] # o BY <1>2, <1>8
      <4>2. CASE u = Master
        <5>1. \A v \in Threads : object'[v] = o => v = Master BY <2>1, <4>1, ConstantsAssumption
        <5> QED BY <1>2, <1>3, <1>8, <1>9, <2>1, <4>2, <5>1
      <4>3. CASE u # Master
        <5>1. object'[u] = object[u] /\ back'[u] = back[u] BY <2>1, <4>3
        <5>2. \A v \in Threads : object'[v] = object[u] => v = u BY <1>8, <2>1, <3>2, <4>1, <5>1
        <5> QED BY <1>2, <1>3, <1>8, <2>1, <3>2, <5>1, <5>2
      <4> QED BY <4>2, <4>3
    <3>3. RebuildPhase' BY <1>5, <2>2, StagesSame
    <3> QED BY <3>1, <3>2, <3>3 DEF ObjectInv
  <2>7. remembered' \subseteq young \cup walk' BY <1>2, <1>6, <1>9, <2>1
  <2>8. \A u \in Objects : OnItsWay(u)' <=> OnItsWay(u) BY <1>0, <1>2, <1>7, <2>1, ConstantsAssumption DEF OnItsWay
  <2> QED BY <1>3, <1>5, <2>1, <2>2, <2>3, <2>4, <2>5, <2>6, <2>7, <2>8, WalkFrame
<1>10. CASE o \notin young
  <2>1. remembered' = remembered \ {o} /\ UNCHANGED <<pc, object, back>> BY <1>2, <1>10
  <2>2. SameStages /\ SameWork BY <1>3, <2>1 DEF SameStages, SameWork, Stage
  <2>3. PcTypes' /\ ObjectTypes' BY <1>1, <1>2, <1>3, <2>1 DEF PcTypes, ObjectTypes
  <2>4. AddInv' /\ FragmentInv' BY <1>3, <2>1 DEF IInv, AddInv, FragmentInv, HasRoom, Stage
  <2>5. RebuildPhase' BY <1>5, <2>2, StagesSame
  <2>6. ObjectInv'
    <3>1. young' \subseteq remembered' /\ walk' \subseteq remembered' BY <1>2, <1>3, <1>8, <1>10, <2>1
    <3>2. \A u \in Threads : object[u] # None => object[u] # o BY <1>2, <1>8
    <3> QED BY <1>2, <1>3, <1>8, <2>1, <2>5, <3>1, <3>2 DEF ObjectInv
  <2>7. remembered' \subseteq young \cup walk' BY <1>2, <1>6, <2>1
  <2>8. \A u \in Objects : u \in remembered' /\ ~OnItsWay(u)' <=> u \in remembered /\ ~OnItsWay(u)
    BY <1>2, <2>1 DEF OnItsWay
  <2> QED BY <1>3, <1>5, <2>1, <2>2, <2>3, <2>4, <2>6, <2>7, <2>8, WalkFrame
<1> QED BY <1>9, <1>10

LEMMA RebuildDoneStep ==
    ASSUME IInv, RebuildDone
    PROVE  IInv'
<1>1. /\ SlotTypes /\ PoolTypes /\ ObjectTypes /\ PcTypes /\ NumberTypes /\ FlagTypes /\ FragmentTypes
      /\ IteratorTypes
  BY TypeIs DEF IInv
<1>0. Master \in Threads BY ConstantsAssumption
<1>2. /\ pc[Master] = "rebuild" /\ walk = {} /\ count' = count + Uncounted({Master}) /\ fragment' = Flushed({Master})
      /\ pc' = [u \in Threads |-> "done"]
  BY DEF RebuildDone, AllGoto
<1>3. /\ UNCHANGED <<live, list, alloc, previous, currentSize, rest, dest, slots, current, overflow>>
      /\ UNCHANGED <<overflowAtStart, units, walk, cycles, splits, seen, held, iterator>>
      /\ UNCHANGED <<remembered, young, back, object>>
  BY DEF RebuildDone, poolVars, compactVars, puddleVars, cycleVars, addVars, scanVars, objectVars
<1>4. RebuildPhase /\ ~RunPhase /\ ~ScanPhase /\ ~PrunePhase /\ ~CompactPhase
  <2>1. Stage(Master) = "rebuild" BY <1>2 DEF AddPlaces, Stage
  <2> QED BY <1>0, <1>1, <2>1, PhaseOf, Exclusive DEF IInv
<1>5. \A u \in Threads : u # Master => pc[u] = "pruneOverflow"
  <2>1. \A u \in Threads : back[u] \in {"run", "scan", "rebuild"} BY <1>1 DEF PcTypes
  <2> QED BY <1>4, <2>1 DEF RebuildPhase, Stage
<1>6. \A u \in Threads : pc'[u] = "done" BY <1>2
<1>7. Quiet /\ Quiet'
  <2>1. \A u \in Threads : pc[u] \in {"rebuild", "pruneOverflow"} BY <1>2, <1>5
  <2> QED BY <1>6, <2>1 DEF Quiet, AddPlaces, WorkPlaces
<1>8. PcTypes'
  <2>1. pc' \in [Threads -> Pcs] BY <1>2 DEF Pcs
  <2> QED BY <1>1, <1>3, <2>1 DEF PcTypes
<1>9. /\ \A u \in Threads : /\ Stage(u) = pc[u] /\ object[u] = None /\ held[u] = 0
                            /\ fragment[u].count = 0 => ~HasRoom(u)
      /\ Holders = {}
  BY <1>7, QuietIs
<1>10. /\ \A u \in Threads : Stage(u)' = pc'[u] /\ object'[u] = None /\ held'[u] = 0 /\ pc'[u] # "pruneSlots"
       /\ AddInv' /\ IteratorInv' /\ Holders' = {} /\ Unreported' = Unreported
  BY <1>3, <1>7, QuietFrame
<1>11. DonePhase' /\ PhaseInv' BY <1>6, <1>10 DEF DonePhase, InStages, PhaseInv
<1>12. ~RunPhase' /\ ~ScanPhase' /\ ~RebuildPhase' /\ ~CompactPhase' BY <1>11, ExclusiveNext
<1>13. previous = <<>> /\ units = <<>>
  <2>1. Stage(Master) = "rebuild" BY <1>0, <1>2, <1>9
  <2> QED BY <1>0, <2>1 DEF IInv, LinkInv, UnitInv, InStages, ScanStages
<1>14. splits = {} BY <1>4 DEF IInv, SplitInv
<1>15. /\ fragment'[Master] = NoFragment /\ fragment' \in [Threads -> Fragments]
       /\ \A u \in Threads \ {Master} : fragment'[u] = fragment[u]
  <2>1. NoFragment \in Fragments BY ConstantsAssumption DEF NoFragment, Fragments
  <2> QED BY <1>0, <1>1, <1>2, <2>1 DEF FragmentTypes, Flushed
<1>16. \A u \in Threads : fragment'[u].count = 0 /\ ~HasRoom(u)'
  <2>1. fragment'[Master].count = 0 /\ ~HasRoom(Master)' BY <1>15 DEF NoFragment, HasRoom
  <2>2. \A u \in Threads \ {Master} : fragment[u].count = 0 BY <1>5, <1>9 DEF IInv, FragmentInv
  <2>3. \A u \in Threads \ {Master} : fragment'[u].count = 0 /\ ~HasRoom(u)' BY <1>9, <1>15, <2>2 DEF HasRoom
  <2> QED BY <2>1, <2>3
<1>17. FragmentInv' /\ RoomInv' BY <1>16, NoRoom
<1>18. FragmentTypes' BY <1>1, <1>3, <1>15 DEF FragmentTypes
<1>19. Uncounted({Master}) = fragment[Master].count /\ fragment[Master].count \in Nat
  BY <1>0, <1>1, UncountedIs, FragmentOf
<1>20. TypeOK'
  <2>1. NumberTypes' BY <1>1, <1>2, <1>3, <1>19 DEF NumberTypes
  <2>2. SlotTypes' /\ PoolTypes' /\ ObjectTypes' /\ FlagTypes' /\ IteratorTypes'
    BY <1>1, <1>3 DEF SlotTypes, PoolTypes, ObjectTypes, FlagTypes, IteratorTypes
  <2> QED BY <1>8, <1>18, <2>1, <2>2, TypeNext
<1>21. EmptyInv' BY <1>3 DEF IInv, EmptyInv
<1>22. LinkInv'
  <2>1. \A u \in Threads : held'[u] # 0 => pc'[u] \in WorkPlaces BY <1>10
  <2> QED BY <1>3, <1>4, <1>9, <1>10, <1>12, <1>13, <2>1, LinkFrame DEF IInv
<1>23. UnitInv' BY <1>3, <1>10, <1>13, RangeOfEmpty DEF UnitInv
<1>24. SplitInv' BY <1>3, <1>14 DEF SplitInv
<1>25. ObjectInv' BY <1>2, <1>3, <1>10 DEF IInv, ObjectInv
<1>26. SlotInv' BY <1>3, SlotFrame DEF IInv, OnItsWay
<1>27. FlagInv'
  <2> SUFFICES ASSUME ~overflow, NEW q \in Puddles, NEW j \in Places, NEW u \in Objects
               PROVE  slots[q][j] # Flagged(u) /\ (slots[q][j] = Entry(u) => u \in young)
    BY <1>3 DEF FlagInv, EntryRight
  <2> QED BY <1>4 DEF IInv, FlagInv, FlaggedRight, EntryRight
<1>28. DoneInv'
  <2>1. remembered = young BY <1>2, <1>4 DEF IInv, DoneInv, ObjectInv
  <2> QED BY <1>3, <1>12, <2>1 DEF DoneInv
<1>29. CountExact'
  <2>1. Uncounted(Threads)' + fragment[Master].count = Uncounted(Threads) + fragment'[Master].count
    BY <1>0, <1>1, <1>15, <1>18, UncountedNext
  <2>2. Filled' = Filled BY <1>3 DEF Filled
  <2>3. Uncounted(Threads) \in Nat /\ count \in Nat BY <1>1, UncountedIs DEF NumberTypes
  <2>4. Uncounted(Threads)' = 0 BY <1>1, <1>16, <1>18, UncountedNext
  <2>5. fragment'[Master].count = 0 BY <1>0, <1>16
  <2>6. count' + Uncounted(Threads)' = count + Uncounted(Threads) BY <1>2, <1>19, <2>1, <2>3, <2>4, <2>5
  <2> QED BY <1>10, <2>2, <2>6 DEF IInv, CountExact
<1>30. SizeInv' BY <1>3 DEF IInv, SizeInv
<1> QED BY <1>10, <1>11, <1>17, <1>20, <1>21, <1>22, <1>23, <1>24, <1>25, <1>26, <1>27, <1>28, <1>29, <1>30 DEF IInv

\* compact() runs alone.
LEMMA InCompact ==
    ASSUME IInv, All("compact")
    PROVE  /\ CompactPhase /\ Quiet /\ previous = <<>> /\ walk = {} /\ splits = {} /\ units = <<>>
           /\ \A u \in Threads : /\ Stage(u) = "compact" /\ object[u] = None /\ held[u] = 0
                                 /\ fragment[u].count = 0 /\ ~HasRoom(u)
           /\ live = Range(list) \cup Range(rest) \cup ({dest} \ {0})
           /\ ~overflow => \A p \in Puddles, i \in Places, o \in Objects : slots[p][i] # Flagged(o)
<1>1. \A u \in Threads : pc[u] = "compact" BY DEF All
<1>2. Quiet BY <1>1 DEF Quiet, AddPlaces, WorkPlaces
<1>3. \A u \in Threads : Stage(u) = "compact" BY <1>1, <1>2, QuietIs
<1>4. Master \in Threads BY ConstantsAssumption
<1>5. CompactPhase BY <1>3 DEF CompactPhase, InStages
<1>6. ~RunPhase /\ ~ScanPhase /\ ~PrunePhase /\ ~RebuildPhase /\ ~DonePhase BY <1>5, Exclusive
<1>7. previous = <<>> BY <1>3, <1>4 DEF IInv, LinkInv, InStages, ScanStages
<1>8. walk = {} /\ splits = {} BY <1>6 DEF IInv, ObjectInv, SplitInv
<1>9. units = <<>> BY <1>3, <1>4 DEF IInv, UnitInv, InStages
<1>10. HeldPuddles = {} /\ \A u \in Threads : object[u] = None /\ held[u] = 0 /\ (fragment[u].count = 0 => ~HasRoom(u))
  BY <1>2, QuietIs
<1>11. \A u \in Threads : fragment[u].count = 0 BY <1>3 DEF IInv, FragmentInv
<1>12. live = Range(list) \cup Range(rest) \cup ({dest} \ {0}) BY <1>7, <1>10, RangeOfEmpty DEF IInv, LinkInv
<1>13. ASSUME ~overflow PROVE \A p \in Puddles, i \in Places, o \in Objects : slots[p][i] # Flagged(o)
  BY <1>6, <1>13 DEF IInv, FlagInv, FlaggedRight
<1> QED BY <1>2, <1>3, <1>5, <1>7, <1>8, <1>9, <1>10, <1>11, <1>12, <1>13

\* What compact() does to the puddles, as far as the invariant is concerned.
LEMMA CompactFrame ==
    ASSUME IInv, All("compact"),
           UNCHANGED <<alloc, previous, count, overflow, overflowAtStart, units, walk, cycles>>,
           UNCHANGED <<remembered, young, splits, pc, back, object, seen, fragment, held, iterator>>,
           SlotTypes', EmptyInv', live' \subseteq live, currentSize' \in Nat, SizeInv',
           list' \in Seq(live'), rest' \in Seq(live'), dest' \in live' \cup {0},
           IsInjective(list'), IsInjective(rest'), live' = Range(list') \cup Range(rest') \cup ({dest'} \ {0}),
           Range(list') \cap Range(rest') = {}, dest' \notin Range(list') \cup Range(rest'),
           Cardinality(Full(slots')) = Cardinality(Full(slots)), OneSlot(slots) => OneSlot(slots'),
           \A o \in Objects : HasSlot(slots', o) <=> HasSlot(slots, o),
           \A x \in Spots : \E y \in Spots : At(slots', x) = At(slots, y)
    PROVE  IInv'
<1>1. /\ SlotTypes /\ PoolTypes /\ ObjectTypes /\ PcTypes /\ NumberTypes /\ FlagTypes /\ FragmentTypes
      /\ IteratorTypes
  BY TypeIs DEF IInv
<1>2. /\ CompactPhase /\ Quiet /\ previous = <<>> /\ walk = {} /\ splits = {} /\ units = <<>>
      /\ \A u \in Threads : object[u] = None /\ held[u] = 0 /\ fragment[u].count = 0 /\ ~HasRoom(u)
      /\ ~overflow => \A p \in Puddles, i \in Places, o \in Objects : slots[p][i] # Flagged(o)
  BY InCompact
<1>3. SameStages BY DEF SameStages, Stage
<1>4. CompactPhase' /\ PhaseInv' BY <1>2, <1>3, StagesSame DEF PhaseInv
<1>5. ~RunPhase' /\ ~ScanPhase' /\ ~PrunePhase' /\ ~RebuildPhase' /\ ~DonePhase' BY <1>4, ExclusiveNext
<1>6. Quiet' BY <1>2 DEF Quiet
<1>7. /\ \A u \in Threads : object'[u] = None /\ held'[u] = 0 /\ pc'[u] # "pruneSlots"
      /\ AddInv' /\ IteratorInv' /\ Holders' = {} /\ HeldPuddles' = {} /\ Unreported' = Unreported
  BY <1>2, <1>6, QuietFrame
<1>8. FragmentInv' /\ RoomInv'
  <2>1. \A u \in Threads : fragment'[u].count = 0 /\ ~HasRoom(u)' BY <1>2 DEF HasRoom
  <2> QED BY <2>1, NoRoom
<1>9. TypeOK'
  <2>1. held' \in [Threads -> live' \cup {0}]
    <3>1. held' \in [Threads -> live \cup {0}] BY <1>1 DEF PoolTypes
    <3> QED BY <1>7, <3>1
  <2>2. previous' \in Seq(live') /\ units' \in Seq(live') /\ splits' \subseteq live' \X Places \X Objects BY <1>2
  <2>3. PoolTypes' BY <1>1, <2>1, <2>2 DEF PoolTypes
  <2>4. NumberTypes' BY <1>1 DEF NumberTypes
  <2>5. ObjectTypes' /\ PcTypes' /\ FlagTypes' /\ FragmentTypes' /\ IteratorTypes'
    BY <1>1 DEF ObjectTypes, PcTypes, FlagTypes, FragmentTypes, IteratorTypes
  <2> QED BY <2>3, <2>4, <2>5, TypeNext
<1>10. LinkInv'
  <2>1. previous' = <<>> /\ IsInjective(previous') /\ Range(previous') = {} BY <1>2, RangeOfEmpty
  <2> QED BY <1>4, <1>7, <2>1 DEF LinkInv
<1>11. UnitInv'
  <2>1. units' = <<>> /\ IsInjective(units') /\ Range(units') = {} BY <1>2, RangeOfEmpty
  <2> QED BY <1>7, <2>1 DEF UnitInv
<1>12. SplitInv' BY <1>2 DEF SplitInv
<1>13. ObjectInv' BY <1>2, <1>7 DEF IInv, ObjectInv
<1>14. SlotInv'
  <2>1. \A o \in Objects : OnItsWay(o)' <=> OnItsWay(o) BY DEF OnItsWay
  <2> QED BY <2>1 DEF IInv, SlotInv
<1>15. FlagInv'
  <2> SUFFICES ASSUME ~overflow, NEW q \in Puddles, NEW j \in Places, NEW u \in Objects
               PROVE  slots'[q][j] # Flagged(u)
    BY <1>4 DEF FlagInv, EntryRight
  <2>1. PICK y \in Spots : At(slots', <<q, j>>) = At(slots, y) BY SpotsAre
  <2>2. slots'[q][j] = slots[y[1]][y[2]] BY <2>1, SpotsAre DEF At
  <2> QED BY <1>2, <2>2, SpotsAre
<1>16. DoneInv' BY <1>5 DEF DoneInv
<1>17. CountExact'
  <2>1. Filled = Full(slots) BY <1>1, FilledIs DEF IInv, PoolTypes
  <2>2. live' \subseteq Puddles BY <1>1 DEF PoolTypes
  <2>3. Filled' = Full(slots') BY <2>2, FilledNext
  <2>4. Uncounted(Threads)' = Uncounted(Threads) BY DEF Uncounted
  <2> QED BY <1>7, <2>1, <2>3, <2>4 DEF IInv, CountExact
<1> QED BY <1>4, <1>7, <1>8, <1>9, <1>10, <1>11, <1>12, <1>13, <1>14, <1>15, <1>16, <1>17 DEF IInv

\* The slots after a merge of n of the b slots of a puddle behind the a slots of another one.
Merged(f, to, from, a, b, n) ==
    [f EXCEPT ![to] = [i \in Places |-> IF i \in a + 1 .. a + n THEN f[from][(b - n) + (i - a)] ELSE @[i]],
              ![from] = [i \in Places |-> IF i > b - n THEN Empty ELSE @[i]]]

MergeValues(f, g, to, from, a, b, n) ==
    /\ g \in SlotArrays
    /\ \A j \in Places : g[to][j] = IF j \in a + 1 .. a + n THEN f[from][(b - n) + (j - a)] ELSE f[to][j]
    /\ \A j \in Places : g[from][j] = IF j > b - n THEN Empty ELSE f[from][j]
    /\ \A q \in Puddles : q # to /\ q # from => g[q] = f[q]

LEMMA MergedIs ==
    ASSUME NEW f \in SlotArrays, NEW to \in Puddles, NEW from \in Puddles, to # from,
           NEW a \in Nat, NEW b \in Nat, NEW n \in Nat, n <= b, b <= GrowSize, a + n <= GrowSize
    PROVE  MergeValues(f, Merged(f, to, from, a, b, n), to, from, a, b, n)
<1> DEFINE In == [i \in Places |-> IF i \in a + 1 .. a + n THEN f[from][(b - n) + (i - a)] ELSE f[to][i]]
           Out == [i \in Places |-> IF i > b - n THEN Empty ELSE f[from][i]]
           g == Merged(f, to, from, a, b, n)
<1>1. GrowSize \in Nat /\ Places = 1..GrowSize BY ConstantsAssumption DEF Places
<1>2. /\ \A q \in Puddles : f[q] \in [Places -> Entries]
      /\ \A j \in Places : f[to][j] \in Entries /\ f[from][j] \in Entries
  BY DEF SlotArrays
<1>3. \A i \in Places : i \in a + 1 .. a + n => (b - n) + (i - a) \in Places BY <1>1
<1>4. In \in [Places -> Entries] BY <1>2, <1>3
<1>5. Out \in [Places -> Entries] BY <1>2, EntriesAre
<1>6. g = [f EXCEPT ![to] = In, ![from] = Out] BY DEF Merged, SlotArrays
<1> HIDE DEF In, Out
<1>7. g = [q \in Puddles |-> IF q = from THEN Out ELSE IF q = to THEN In ELSE f[q]] BY <1>6 DEF SlotArrays
<1>8. g \in SlotArrays BY <1>2, <1>4, <1>5, <1>7 DEF SlotArrays
<1>9. g[to] = In /\ g[from] = Out /\ \A q \in Puddles : q # to /\ q # from => g[q] = f[q] BY <1>7
<1>10. \A j \in Places : In[j] = IF j \in a + 1 .. a + n THEN f[from][(b - n) + (j - a)] ELSE f[to][j] BY DEF In
<1>11. \A j \in Places : Out[j] = IF j > b - n THEN Empty ELSE f[from][j] BY DEF Out
<1> HIDE DEF g
<1>12. \A j \in Places : g[to][j] = IF j \in a + 1 .. a + n THEN f[from][(b - n) + (j - a)] ELSE f[to][j]
  BY <1>9, <1>10
<1>13. \A j \in Places : g[from][j] = IF j > b - n THEN Empty ELSE f[from][j] BY <1>9, <1>11
<1>14. MergeValues(f, g, to, from, a, b, n) BY <1>8, <1>9, <1>12, <1>13 DEF MergeValues
<1> QED BY <1>14 DEF g

\* merge moves what fits.
LEMMA MovedIs ==
    ASSUME SlotTypes, NEW to \in Puddles, NEW from \in Puddles
    PROVE  /\ Moved(to, from) \in Nat /\ Moved(to, from) <= current[from]
           /\ current[to] + Moved(to, from) <= GrowSize
           /\ Moved(to, from) = current[from] \/ current[to] + Moved(to, from) = GrowSize
<1> DEFINE a == current[to]
           b == current[from]
           n == Moved(to, from)
<1>1. a \in 0..GrowSize /\ b \in 0..GrowSize /\ GrowSize \in Nat BY SlotTypeOf, ConstantsAssumption
<1> HIDE DEF a, b
<1>2. n = CHOOSE x \in {GrowSize - a, b} : \A y \in {GrowSize - a, b} : x <= y BY DEF Moved, Min, a, b
<1>3. \E x \in {GrowSize - a, b} : \A y \in {GrowSize - a, b} : x <= y
  <2>1. GrowSize - a \in Nat /\ b \in Nat BY <1>1
  <2>2. GrowSize - a <= b \/ b <= GrowSize - a BY <2>1
  <2> QED BY <2>1, <2>2
<1> HIDE DEF n
<1>4. n \in {GrowSize - a, b} /\ n <= GrowSize - a /\ n <= b BY <1>2, <1>3
<1>5. n \in Nat /\ n <= b /\ a + n <= GrowSize /\ (n = b \/ a + n = GrowSize) BY <1>1, <1>4
<1> QED BY <1>5 DEF a, b, n

\* The size of the pool counts the puddles that exist.
LEMMA SizeWithout ==
    ASSUME NEW S \in SUBSET Puddles, NEW x \in S, NEW c \in Nat, c >= GrowSize * Cardinality(S)
    PROVE  c - GrowSize \in Nat /\ c - GrowSize >= GrowSize * Cardinality(S \ {x}) /\ c >= GrowSize * Cardinality(S \ {x})
<1>1. IsFiniteSet(Puddles) BY ConstantsAssumption, FS_Interval DEF Puddles
<1>2. IsFiniteSet(S) BY <1>1, FS_Subset
<1>3. Cardinality(S \ {x}) = Cardinality(S) - 1 BY <1>2, FS_RemoveElement
<1>4. Cardinality(S) \in Nat /\ Cardinality(S) # 0 BY <1>2, FS_CardinalityType, FS_EmptySet
<1> DEFINE n == Cardinality(S)
<1> HIDE DEF n
<1>5. n \in Nat /\ n # 0 /\ Cardinality(S \ {x}) = n - 1 /\ c >= GrowSize * n BY <1>3, <1>4 DEF n
<1>6. GrowSize \in Nat BY ConstantsAssumption
<1>7. PICK k \in Nat : n = k + 1
  <2>1. n - 1 \in Nat /\ n = (n - 1) + 1 BY <1>5
  <2> QED BY <2>1
<1>8. GrowSize * n = GrowSize * k + GrowSize /\ GrowSize * k \in Nat BY <1>6, <1>7
<1>9. n - 1 = k BY <1>5, <1>7
<1> DEFINE m == GrowSize * k
<1> HIDE DEF m
<1>10. m \in Nat /\ c >= m + GrowSize BY <1>5, <1>8 DEF m
<1>11. c - GrowSize \in Nat /\ c - GrowSize >= m /\ c >= m BY <1>6, <1>10
<1> QED BY <1>5, <1>9, <1>11 DEF m

\* The puddles of compact(): the next one is in no other place.
LEMMA CompactPlaces ==
    ASSUME IInv, All("compact"), rest # <<>>
    PROVE  /\ Head(rest) \in live /\ Head(rest) \notin Range(list) /\ Head(rest) # dest
           /\ Tail(rest) \in Seq(live) /\ IsInjective(Tail(rest)) /\ Range(Tail(rest)) = Range(rest) \ {Head(rest)}
           /\ Head(rest) \in Range(rest) /\ 0 \notin live /\ live \subseteq Puddles /\ list \in Seq(live)
           /\ dest \in live \cup {0} /\ IsInjective(list)
           /\ live = Range(list) \cup Range(rest) \cup ({dest} \ {0})
           /\ Range(list) \cap Range(rest) = {} /\ dest \notin Range(list) \cup Range(rest)
<1>1. PoolTypes BY TypeIs DEF IInv
<1>2. rest \in Seq(live) /\ list \in Seq(live) /\ live \subseteq Puddles /\ dest \in live \cup {0} BY <1>1 DEF PoolTypes
<1>3. 0 \notin live BY <1>2 DEF Puddles
<1>4. /\ IsInjective(rest) /\ IsInjective(list)
      /\ Range(list) \cap Range(rest) = {} /\ dest \notin Range(list) \cup Range(rest)
  BY DEF IInv, LinkInv
<1>5. /\ Head(rest) \in live /\ Head(rest) \in Range(rest) /\ Tail(rest) \in Seq(live) /\ IsInjective(Tail(rest))
      /\ Range(Tail(rest)) = Range(rest) \ {Head(rest)}
  BY <1>2, <1>4, TailIs
<1>6. live = Range(list) \cup Range(rest) \cup ({dest} \ {0}) BY InCompact
<1> QED BY <1>2, <1>3, <1>4, <1>5, <1>6

\* Where the puddles are after a merge.
MergePlaced(L, s, r, to, from, s2, d2, L2) ==
    /\ L \subseteq Puddles /\ s \in Seq(L) /\ r \in Seq(L) /\ to \in L /\ from \in L /\ to # from
    /\ IsInjective(s) /\ IsInjective(r) /\ L = Range(s) \cup Range(r) \cup {to, from} /\ Range(s) \cap Range(r) = {}
    /\ to \notin Range(s) \cup Range(r) /\ from \notin Range(s) \cup Range(r) /\ 0 \notin L
    /\ \/ s2 = <<to>> \o s /\ d2 = from /\ L2 = L
       \/ s2 = <<to>> \o s /\ d2 = 0 /\ L2 = L \ {from}
       \/ s2 = s /\ d2 = to /\ L2 = L \ {from}

Placed(L, s, r, d, L2) ==
    /\ L2 \subseteq L /\ s \in Seq(L2) /\ r \in Seq(L2) /\ d \in L2 \cup {0} /\ IsInjective(s)
    /\ L2 = Range(s) \cup Range(r) \cup ({d} \ {0}) /\ Range(s) \cap Range(r) = {} /\ d \notin Range(s) \cup Range(r)

LEMMA MergePlaces ==
    ASSUME NEW L, NEW s, NEW r, NEW to, NEW from, NEW s2, NEW d2, NEW L2, MergePlaced(L, s, r, to, from, s2, d2, L2)
    PROVE  Placed(L, s2, r, d2, L2)
<1> DEFINE x == <<to>> \o s
<1>1. /\ s \in Seq(L) /\ r \in Seq(L) /\ to \in L /\ from \in L /\ to # from
      /\ IsInjective(s) /\ IsInjective(r) /\ L = Range(s) \cup Range(r) \cup {to, from} /\ Range(s) \cap Range(r) = {}
      /\ to \notin Range(s) \cup Range(r) /\ from \notin Range(s) \cup Range(r) /\ 0 \notin L
  BY DEF MergePlaced
<1>2. x \in Seq(L) /\ IsInjective(x) /\ Range(x) = Range(s) \cup {to} BY <1>1, ConsIs
<1>3. \/ s2 = x /\ d2 = from /\ L2 = L
      \/ s2 = x /\ d2 = 0 /\ L2 = L \ {from}
      \/ s2 = s /\ d2 = to /\ L2 = L \ {from}
  BY DEF MergePlaced
<1> HIDE DEF x
<1>4. CASE s2 = x /\ d2 = from /\ L2 = L BY <1>1, <1>2, <1>4 DEF Placed
<1>5. CASE s2 = x /\ d2 = 0 /\ L2 = L \ {from}
  <2>1. Range(s2) \subseteq L2 /\ Range(r) \subseteq L2 BY <1>1, <1>2, <1>5
  <2>2. s2 \in Seq(L2) /\ r \in Seq(L2) BY <1>1, <1>2, <1>5, <2>1, Retyped
  <2>3. L2 = Range(s2) \cup Range(r) BY <1>1, <1>2, <1>5
  <2>4. Range(s2) \cap Range(r) = {} /\ d2 \notin Range(s2) \cup Range(r) BY <1>1, <1>2, <1>5
  <2> QED BY <1>2, <1>5, <2>2, <2>3, <2>4 DEF Placed
<1>6. CASE s2 = s /\ d2 = to /\ L2 = L \ {from}
  <2>1. Range(s) \subseteq L2 /\ Range(r) \subseteq L2 BY <1>1, <1>6
  <2>2. s2 \in Seq(L2) /\ r \in Seq(L2) BY <1>1, <1>6, <2>1, Retyped
  <2>3. L2 = Range(s2) \cup Range(r) \cup {d2} /\ d2 # 0 BY <1>1, <1>6
  <2> QED BY <1>1, <1>6, <2>2, <2>3 DEF Placed
<1> QED BY <1>3, <1>4, <1>5, <1>6

LEMMA MergeStep ==
    ASSUME IInv, All("compact"), rest # <<>>, rest' = Tail(rest), NEW to, NEW from, dest # 0,
           (to = dest /\ from = Head(rest)) \/ (to = Head(rest) /\ from = dest), MergeInto(to, from),
           UNCHANGED <<alloc, previous, count, overflow, cycleVars, objectVars, splits, pc, addVars, fragment, scanVars>>
    PROVE  IInv'
<1> DEFINE a == current[to]
           b == current[from]
           n == Moved(to, from)
           full == a + n = GrowSize
           emptied == n = b
<1>1. SlotTypes /\ NumberTypes BY TypeIs DEF IInv
<1>2. /\ Head(rest) \in live /\ Head(rest) \notin Range(list) /\ Head(rest) # dest
      /\ Tail(rest) \in Seq(live) /\ IsInjective(Tail(rest)) /\ Range(Tail(rest)) = Range(rest) \ {Head(rest)}
      /\ Head(rest) \in Range(rest) /\ 0 \notin live /\ live \subseteq Puddles /\ list \in Seq(live)
      /\ dest \in live \cup {0} /\ IsInjective(list)
      /\ live = Range(list) \cup Range(rest) \cup ({dest} \ {0})
      /\ Range(list) \cap Range(rest) = {} /\ dest \notin Range(list) \cup Range(rest)
  BY CompactPlaces
<1>3. /\ to \in live /\ from \in live /\ to # from /\ to \in Puddles /\ from \in Puddles
      /\ to \notin Range(list) \cup Range(rest') /\ from \notin Range(list) \cup Range(rest')
      /\ live = Range(list) \cup Range(rest') \cup {to, from} /\ Range(list) \cap Range(rest') = {}
  BY <1>2
<1>4. /\ GrowSize \in Nat /\ GrowSize # 0 /\ a \in Nat /\ a <= GrowSize /\ b \in Nat /\ b <= GrowSize
  BY <1>1, <1>3, SlotTypeOf, ConstantsAssumption
<1>5. n \in Nat /\ n <= b /\ a + n <= GrowSize /\ (emptied \/ full) BY <1>1, <1>3, MovedIs
<1>6. /\ slots' = Merged(slots, to, from, a, b, n)
      /\ current' = [current EXCEPT ![to] = @ + n, ![from] = @ - n]
      /\ list' = (IF full THEN <<to>> \o list ELSE list)
      /\ dest' = (IF ~full THEN to ELSE IF emptied THEN 0 ELSE from)
      /\ live' = (IF full /\ ~emptied THEN live ELSE live \ {from})
      /\ currentSize' = IF full /\ ~emptied THEN currentSize ELSE currentSize - GrowSize
  BY DEF MergeInto, Merge, Merged, TailOf
<1> HIDE DEF a, b, n, full, emptied
<1>7. slots \in SlotArrays BY <1>1 DEF SlotTypes, SlotArrays
<1>8. /\ slots' \in SlotArrays
      /\ \A j \in Places : slots'[to][j] = IF j \in a + 1 .. a + n THEN slots[from][(b - n) + (j - a)] ELSE slots[to][j]
      /\ \A j \in Places : slots'[from][j] = IF j > b - n THEN Empty ELSE slots[from][j]
      /\ \A q \in Puddles : q # to /\ q # from => slots'[q] = slots[q]
  <2> DEFINE g == Merged(slots, to, from, a, b, n)
  <2>1. to \in Puddles /\ from \in Puddles /\ to # from BY <1>3
  <2>2. a \in Nat /\ b \in Nat /\ n \in Nat /\ n <= b /\ b <= GrowSize /\ a + n <= GrowSize BY <1>4, <1>5
  <2>3. MergeValues(slots, g, to, from, a, b, n) BY <1>7, <2>1, <2>2, MergedIs
  <2>4. slots' = g BY <1>6
  <2> HIDE DEF g
  <2> QED BY <2>3, <2>4 DEF MergeValues
<1>9. /\ \A j \in Places : a < j => slots[to][j] = Empty
      /\ \A j \in Places : b < j => slots[from][j] = Empty
  BY <1>3 DEF IInv, EmptyInv, a, b
<1>10. /\ Cardinality(Full(slots')) = Cardinality(Full(slots)) /\ (OneSlot(slots) => OneSlot(slots'))
       /\ \A o \in Objects : HasSlot(slots', o) <=> HasSlot(slots, o)
       /\ \A x \in Spots : \E y \in Spots : At(slots', x) = At(slots, y)
  <2>1. to \in Puddles /\ from \in Puddles /\ to # from BY <1>3
  <2>2. a \in Nat /\ b \in Nat /\ n \in Nat /\ n <= b /\ b <= GrowSize /\ a + n <= GrowSize BY <1>4, <1>5
  <2>3. IsMerge(slots, slots', to, from, a, b, n) BY <1>7, <1>8, <1>9, <2>1, <2>2 DEF IsMerge
  <2> QED BY <2>3, SlotsMoved
<1>11. /\ current'[to] = a + n /\ current'[from] = b - n
       /\ \A q \in Puddles : q # to /\ q # from => current'[q] = current[q]
       /\ current' \in [Puddles -> 0..GrowSize]
  <2>1. current \in [Puddles -> 0..GrowSize] BY <1>1 DEF SlotTypes
  <2>2. a + n \in 0..GrowSize /\ b - n \in 0..GrowSize BY <1>4, <1>5
  <2>3. current' = [current EXCEPT ![to] = a + n, ![from] = b - n] BY <1>3, <1>6, <2>1 DEF a, b
  <2> QED BY <1>3, <2>1, <2>2, <2>3
<1>12. SlotTypes' BY <1>8, <1>11 DEF SlotTypes, SlotArrays
<1>13. full \in BOOLEAN /\ emptied \in BOOLEAN BY DEF full, emptied
<1>14. EmptyInv'
  <2>1. ASSUME NEW q \in Puddles, NEW i \in Places, current'[q] < i PROVE slots'[q][i] = Empty
    <3>1. i \in Nat BY DEF Places
    <3>2. CASE q = to
      <4>1. a + n < i BY <1>11, <2>1, <3>2
      <4>2. a < i /\ i \notin a + 1 .. a + n BY <1>4, <1>5, <3>1, <4>1
      <4> QED BY <1>8, <1>9, <3>2, <4>2
    <3>3. CASE q = from
      <4>1. b - n < i BY <1>11, <2>1, <3>3
      <4>2. i > b - n BY <1>4, <1>5, <3>1, <4>1
      <4> QED BY <1>8, <3>3, <4>2
    <3>4. CASE q # to /\ q # from BY <1>8, <1>11, <2>1, <3>4 DEF IInv, EmptyInv
    <3> QED BY <3>2, <3>3, <3>4
  <2>2. ASSUME NEW q \in Puddles, q \notin live' PROVE current'[q] = 0
    <3>1. CASE q \in live
      <4>1. emptied /\ q = from BY <1>5, <1>6, <2>2, <3>1
      <4> QED BY <1>4, <1>11, <4>1 DEF emptied
    <3>2. CASE q \notin live
      <4>1. q # to /\ q # from BY <1>3, <3>2
      <4> QED BY <1>11, <3>2, <4>1 DEF IInv, EmptyInv
    <3> QED BY <3>1, <3>2
  <2> QED BY <2>1, <2>2 DEF EmptyInv
<1>15. currentSize' \in Nat /\ SizeInv'
  <2>1. currentSize \in Nat /\ currentSize >= GrowSize * Cardinality(live) BY <1>1 DEF NumberTypes, IInv, SizeInv
  <2>2. currentSize - GrowSize \in Nat /\ currentSize - GrowSize >= GrowSize * Cardinality(live \ {from})
    BY <1>2, <1>3, <2>1, SizeWithout
  <2>3. CASE full /\ ~emptied
    <3>1. currentSize' = currentSize /\ live' = live BY <1>6, <2>3
    <3> QED BY <2>1, <3>1 DEF SizeInv
  <2>4. CASE ~(full /\ ~emptied)
    <3>1. currentSize' = currentSize - GrowSize /\ live' = live \ {from} BY <1>6, <2>4
    <3> QED BY <2>2, <3>1 DEF SizeInv
  <2> QED BY <2>3, <2>4
<1>16. /\ live' \subseteq live /\ list' \in Seq(live') /\ rest' \in Seq(live') /\ dest' \in live' \cup {0}
       /\ IsInjective(list') /\ IsInjective(rest')
       /\ live' = Range(list') \cup Range(rest') \cup ({dest'} \ {0})
       /\ Range(list') \cap Range(rest') = {} /\ dest' \notin Range(list') \cup Range(rest')
  <2>1. full \/ emptied BY <1>5
  <2>2. rest' \in Seq(live) /\ IsInjective(rest') BY <1>2
  <2>3. live \in SUBSET Puddles /\ list \in Seq(live) /\ IsInjective(list) /\ 0 \notin live BY <1>2
  <2>4. \/ list' = <<to>> \o list /\ dest' = from /\ live' = live
        \/ list' = <<to>> \o list /\ dest' = 0 /\ live' = live \ {from}
        \/ list' = list /\ dest' = to /\ live' = live \ {from}
    BY <1>6, <2>1
  <2>5. MergePlaced(live, list, rest', to, from, list', dest', live')
    BY <1>3, <2>2, <2>3, <2>4 DEF MergePlaced
  <2>6. Placed(live, list', rest', dest', live') BY <2>5, MergePlaces
  <2> QED BY <2>2, <2>6 DEF Placed
<1>17. /\ UNCHANGED <<alloc, previous, count, overflow, overflowAtStart, units, walk, cycles>>
       /\ UNCHANGED <<remembered, young, splits, pc, back, object, seen, fragment, held, iterator>>
  BY DEF cycleVars, objectVars, addVars, scanVars
<1> QED BY <1>10, <1>12, <1>14, <1>15, <1>16, <1>17, CompactFrame

LEMMA CompactPuddleStep ==
    ASSUME IInv, CompactPuddle
    PROVE  IInv'
<1> DEFINE p == Head(rest)
<1>1. SlotTypes /\ NumberTypes BY TypeIs DEF IInv
<1>2. All("compact") /\ rest # <<>> /\ rest' = Tail(rest) BY DEF CompactPuddle
<1>3. /\ \/ current[p] = 0 /\ live' = live \ {p} /\ UNCHANGED <<list, dest, currentSize, puddleVars>>
         \/ IsFull(p) /\ list' = <<p>> \o list /\ UNCHANGED <<live, dest, currentSize, puddleVars>>
         \/ dest = 0 /\ dest' = p /\ UNCHANGED <<live, list, currentSize, puddleVars>>
         \/ dest # 0 /\ MergeInto(dest, p)
         \/ dest # 0 /\ MergeInto(p, dest)
      /\ UNCHANGED <<alloc, previous, count, overflow, cycleVars, objectVars, splits, pc, addVars, fragment, scanVars>>
  BY DEF CompactPuddle
<1>4. /\ p \in live /\ p \notin Range(list) /\ p # dest
      /\ Tail(rest) \in Seq(live) /\ IsInjective(Tail(rest)) /\ Range(Tail(rest)) = Range(rest) \ {p}
      /\ p \in Range(rest) /\ 0 \notin live /\ live \subseteq Puddles /\ list \in Seq(live)
      /\ dest \in live \cup {0} /\ IsInjective(list)
      /\ live = Range(list) \cup Range(rest) \cup ({dest} \ {0})
      /\ Range(list) \cap Range(rest) = {} /\ dest \notin Range(list) \cup Range(rest)
  BY <1>2, CompactPlaces
<1> DEFINE r == Tail(rest)
<1>5. ASSUME UNCHANGED puddleVars, currentSize' = currentSize, SizeInv', EmptyInv',
             live' \subseteq live, list' \in Seq(live'), rest' \in Seq(live'), dest' \in live' \cup {0}, IsInjective(list'),
             live' = Range(list') \cup Range(rest') \cup ({dest'} \ {0}),
             Range(list') \cap Range(rest') = {}, dest' \notin Range(list') \cup Range(rest')
      PROVE  IInv'
  <2>1. UNCHANGED <<slots, current>> BY <1>5 DEF puddleVars
  <2>2. SlotTypes' /\ currentSize' \in Nat BY <1>1, <1>5, <2>1 DEF SlotTypes, NumberTypes
  <2>3. /\ UNCHANGED <<alloc, previous, count, overflow, overflowAtStart, units, walk, cycles>>
        /\ UNCHANGED <<remembered, young, splits, pc, back, object, seen, fragment, held, iterator>>
    BY <1>3 DEF cycleVars, objectVars, addVars, scanVars
  <2>4. /\ Cardinality(Full(slots')) = Cardinality(Full(slots)) /\ (OneSlot(slots) => OneSlot(slots'))
        /\ \A o \in Objects : HasSlot(slots', o) <=> HasSlot(slots, o)
        /\ \A x \in Spots : \E y \in Spots : At(slots', x) = At(slots, y)
    BY <2>1
  <2>5. IsInjective(rest') BY <1>2, <1>4
  <2> QED BY <1>2, <1>5, <2>2, <2>3, <2>4, <2>5, CompactFrame
<1> HIDE DEF p
<1>6. CASE current[p] = 0 /\ live' = live \ {p} /\ UNCHANGED <<list, dest, currentSize, puddleVars>>
  <2>1. Range(list) \subseteq live' /\ Range(r) \subseteq live' BY <1>4, <1>6
  <2>2. list' \in Seq(live') /\ rest' \in Seq(live') BY <1>2, <1>4, <1>6, <2>1, Retyped
  <2>3. Range(rest') = Range(rest) \ {p} BY <1>2, <1>4
  <2>4. /\ dest' \in live' \cup {0} /\ IsInjective(list')
        /\ live' = Range(list') \cup Range(rest') \cup ({dest'} \ {0})
        /\ Range(list') \cap Range(rest') = {} /\ dest' \notin Range(list') \cup Range(rest')
    BY <1>4, <1>6, <2>3
  <2>5. EmptyInv'
    <3>1. UNCHANGED <<slots, current>> BY <1>6 DEF puddleVars
    <3>2. \A q \in Puddles : q \notin live' => current[q] = 0 BY <1>6 DEF IInv, EmptyInv
    <3> QED BY <3>1, <3>2 DEF IInv, EmptyInv
  <2>6. SizeInv'
    <3>1. currentSize \in Nat /\ currentSize >= GrowSize * Cardinality(live) BY <1>1 DEF NumberTypes, IInv, SizeInv
    <3>2. currentSize >= GrowSize * Cardinality(live \ {p}) BY <1>4, <3>1, SizeWithout
    <3> QED BY <1>6, <3>2 DEF SizeInv
  <2> QED BY <1>5, <1>6, <2>2, <2>4, <2>5, <2>6
<1>7. ASSUME live' = live, UNCHANGED <<currentSize, puddleVars>> PROVE SizeInv' /\ EmptyInv'
  <2>1. UNCHANGED <<slots, current>> BY <1>7 DEF puddleVars
  <2> QED BY <1>7, <2>1 DEF IInv, SizeInv, EmptyInv
<1>8. rest' \in Seq(live) /\ Range(rest') = Range(rest) \ {p} BY <1>2, <1>4
<1>9. CASE IsFull(p) /\ list' = <<p>> \o list /\ UNCHANGED <<live, dest, currentSize, puddleVars>>
  <2> DEFINE x == <<p>> \o list
  <2>1. x \in Seq(live) /\ IsInjective(x) /\ Range(x) = Range(list) \cup {p} BY <1>4, ConsIs
  <2>2. list' = x BY <1>9
  <2> HIDE DEF x
  <2>3. list' \in Seq(live) /\ IsInjective(list') /\ Range(list') = Range(list) \cup {p} BY <2>1, <2>2
  <2>4. /\ live' = Range(list') \cup Range(rest') \cup ({dest'} \ {0})
        /\ Range(list') \cap Range(rest') = {} /\ dest' \notin Range(list') \cup Range(rest')
    BY <1>4, <1>8, <1>9, <2>3
  <2> QED BY <1>4, <1>5, <1>7, <1>8, <1>9, <2>3, <2>4
<1>10. CASE dest = 0 /\ dest' = p /\ UNCHANGED <<live, list, currentSize, puddleVars>>
  <2>1. /\ live' = Range(list') \cup Range(rest') \cup ({dest'} \ {0})
        /\ Range(list') \cap Range(rest') = {} /\ dest' \notin Range(list') \cup Range(rest')
    BY <1>4, <1>8, <1>10
  <2> QED BY <1>4, <1>5, <1>7, <1>8, <1>10, <2>1
<1>11. CASE dest # 0 /\ MergeInto(dest, p) BY <1>2, <1>3, <1>11, MergeStep DEF p
<1>12. CASE dest # 0 /\ MergeInto(p, dest) BY <1>2, <1>3, <1>12, MergeStep DEF p
<1> QED BY <1>3, <1>6, <1>9, <1>10, <1>11, <1>12

LEMMA CompactDoneStep ==
    ASSUME IInv, CompactDone
    PROVE  IInv'
<1> DEFINE whole == IF dest = 0 THEN list ELSE Append(list, dest)
<1>1. /\ SlotTypes /\ PoolTypes /\ ObjectTypes /\ PcTypes /\ NumberTypes /\ FlagTypes /\ FragmentTypes
      /\ IteratorTypes
  BY TypeIs DEF IInv
<1>2. /\ All("compact") /\ AllGoto("run") /\ rest = <<>> /\ dest' = 0 /\ list' = whole
      /\ alloc' = (IF list' = <<>> THEN 0 ELSE Last(list'))
  BY DEF CompactDone
<1>3. /\ UNCHANGED <<live, previous, rest, currentSize, slots, current, overflow, count, overflowAtStart, cycles>>
      /\ UNCHANGED <<units, walk, splits, seen, fragment, held, iterator>>
      /\ UNCHANGED <<remembered, young, back, object>>
  BY DEF CompactDone, puddleVars, addVars, scanVars, objectVars, cycleVars
<1>4. "compact" \in QuietPlaces /\ "run" \in QuietPlaces BY DEF QuietPlaces, Pcs, AddPlaces, WorkPlaces
<1>5. /\ Quiet /\ Quiet' /\ PcTypes'
      /\ \A S : InStages(S)' <=> "run" \in S
  BY <1>1, <1>2, <1>3, <1>4, AllMove
<1>6. /\ CompactPhase /\ previous = <<>> /\ walk = {} /\ splits = {} /\ units = <<>>
      /\ \A u \in Threads : fragment[u].count = 0 /\ ~HasRoom(u)
      /\ live = Range(list) \cup Range(rest) \cup ({dest} \ {0})
      /\ ~overflow => \A p \in Puddles, i \in Places, o \in Objects : slots[p][i] # Flagged(o)
  BY <1>2, InCompact
<1>7. RunPhase' /\ PhaseInv' BY <1>5 DEF RunPhase, PhaseInv
<1>8. ~ScanPhase' /\ ~PrunePhase' /\ ~RebuildPhase' /\ ~DonePhase' /\ ~CompactPhase' BY <1>7, ExclusiveNext
<1>9. /\ \A u \in Threads : object'[u] = None /\ held'[u] = 0 /\ pc'[u] # "pruneSlots"
      /\ AddInv' /\ IteratorInv' /\ Holders' = {} /\ HeldPuddles' = {}
  BY <1>3, <1>5, QuietFrame
<1>10. FragmentInv' /\ RoomInv'
  <2>1. \A u \in Threads : fragment'[u].count = 0 /\ ~HasRoom(u)' BY <1>3, <1>6 DEF HasRoom
  <2> QED BY <2>1, NoRoom
<1>11. list' \in Seq(live) /\ IsInjective(list') /\ Range(list') = live /\ alloc' \in Puddles \cup {0}
  <2>1. /\ list \in Seq(live) /\ IsInjective(list) /\ dest \in live \cup {0} /\ dest \notin Range(list)
        /\ live \subseteq Puddles
    BY <1>1 DEF PoolTypes, IInv, LinkInv
  <2>2. Range(rest) = {} BY <1>2, RangeOfEmpty
  <2>3. list' \in Seq(live) /\ IsInjective(list') /\ Range(list') = live
    <3>1. CASE dest = 0
      <4>1. list' = list BY <1>2, <3>1
      <4>2. live = Range(list) BY <1>6, <2>2, <3>1
      <4> QED BY <2>1, <4>1, <4>2
    <3>2. CASE dest # 0
      <4> DEFINE x == Append(list, dest)
      <4>1. list' = x BY <1>2, <3>2
      <4>2. dest \in live BY <2>1, <3>2
      <4>3. x \in Seq(live) /\ IsInjective(x) /\ Range(x) = Range(list) \cup {dest} BY <2>1, <4>2, AppendIs
      <4> HIDE DEF x
      <4>4. live = Range(list) \cup {dest} BY <1>6, <2>2, <3>2
      <4> QED BY <4>1, <4>3, <4>4
    <3> QED BY <3>1, <3>2
  <2> HIDE DEF whole
  <2>4. alloc' \in Puddles \cup {0}
    <3>1. list' # <<>> => Last(list') \in live BY <2>3, RangeIs
    <3> QED BY <1>2, <2>1, <3>1
  <2> QED BY <2>3, <2>4
<1> HIDE DEF whole
<1>12. TypeOK'
  <2>1. PoolTypes' BY <1>1, <1>2, <1>3, <1>11 DEF PoolTypes
  <2>2. SlotTypes' /\ ObjectTypes' /\ NumberTypes' /\ FlagTypes' /\ FragmentTypes' /\ IteratorTypes'
    BY <1>1, <1>3 DEF SlotTypes, ObjectTypes, NumberTypes, FlagTypes, FragmentTypes, IteratorTypes
  <2> QED BY <1>5, <2>1, <2>2, TypeNext
<1>13. EmptyInv' BY <1>3 DEF IInv, EmptyInv
<1>14. LinkInv'
  <2>1. previous' = <<>> /\ rest' = <<>> /\ dest' = 0 BY <1>2, <1>3, <1>6
  <2>2. /\ Range(previous') = {} /\ Range(rest') = {} /\ IsInjective(previous') /\ IsInjective(rest')
    BY <2>1, RangeOfEmpty
  <2>3. {dest'} \ {0} = {} BY <2>1
  <2>4. live' = Range(list') BY <1>3, <1>11
  <2>5. dest' \notin Range(list') \cup Range(rest')
    <3>1. 0 \notin live BY <1>1 DEF PoolTypes, Puddles
    <3> QED BY <1>11, <2>1, <2>2, <3>1
  <2> QED BY <1>2, <1>9, <1>11, <2>1, <2>2, <2>3, <2>4, <2>5 DEF LinkInv
<1>15. UnitInv' BY <1>3, <1>6, <1>9, RangeOfEmpty DEF UnitInv
<1>16. SplitInv' BY <1>3, <1>6 DEF SplitInv
<1>17. ObjectInv' BY <1>3, <1>6, <1>9 DEF IInv, ObjectInv
<1>18. SlotInv' BY <1>3, SlotFrame DEF IInv, OnItsWay
<1>19. FlagInv' BY <1>3, <1>6, <1>7 DEF FlagInv, EntryRight
<1>20. DoneInv' BY <1>8 DEF DoneInv
<1>21. CountExact' /\ SizeInv'
  <2>1. Filled' = Filled /\ Unreported' = Unreported /\ Uncounted(Threads)' = Uncounted(Threads)
    BY <1>3 DEF Filled, Unreported, Uncounted
  <2> QED BY <1>3, <2>1 DEF IInv, SizeInv, CountExact
<1> QED BY <1>7, <1>9, <1>10, <1>12, <1>13, <1>14, <1>15, <1>16, <1>17, <1>18, <1>19, <1>20, <1>21 DEF IInv

-----------------------------------------------------------------------------
(* The invariant holds in every behavior. *)

LEMMA InitInv ==
    ASSUME Init
    PROVE  IInv
<1>1. /\ slots = [p \in Puddles |-> NewPuddle] /\ current = [p \in Puddles |-> 0]
      /\ live = {} /\ list = <<>> /\ alloc = 0 /\ previous = <<>> /\ rest = <<>> /\ dest = 0 /\ currentSize = 0
      /\ count = 0 /\ overflow = FALSE /\ overflowAtStart = FALSE
      /\ remembered = {} /\ young = {} /\ splits = {} /\ units = <<>> /\ walk = {} /\ cycles = 0
      /\ pc = [t \in Threads |-> "run"] /\ back = [t \in Threads |-> "run"]
      /\ object = [t \in Threads |-> None] /\ seen = [t \in Threads |-> 0]
      /\ fragment = [t \in Threads |-> NoFragment]
      /\ held = [t \in Threads |-> 0] /\ iterator = [t \in Threads |-> NoIterator]
  BY DEF Init
<1>2. /\ \A t \in Threads : /\ pc[t] = "run" /\ back[t] = "run" /\ object[t] = None /\ seen[t] = 0 /\ held[t] = 0
                            /\ fragment[t] = NoFragment /\ iterator[t] = NoIterator
      /\ \A p \in Puddles : current[p] = 0 /\ \A i \in Places : slots[p][i] = Empty
  BY <1>1 DEF NewPuddle
<1>3. \A t \in Threads : Stage(t) = "run" /\ fragment[t].count = 0 /\ ~HasRoom(t) /\ iterator[t].removed = 0
  BY <1>2 DEF Stage, NoFragment, NoIterator, HasRoom, AddPlaces
<1>4. Holders = {} BY <1>2 DEF Holders
<1>5. HeldPuddles = {} BY <1>4 DEF HeldPuddles
<1>6. RunPhase /\ PhaseInv BY <1>3 DEF PhaseInv, RunPhase, InStages
<1>7. ~ScanPhase /\ ~PrunePhase /\ ~RebuildPhase /\ ~DonePhase /\ ~CompactPhase BY <1>6, Exclusive
<1>8. TypeOK
  <2>1. NewPuddle \in [Places -> Entries] BY EntriesAre DEF NewPuddle
  <2>2. SlotTypes BY <1>1, <2>1, ConstantsAssumption DEF SlotTypes
  <2>3. PoolTypes BY <1>1 DEF PoolTypes
  <2>4. ObjectTypes BY <1>1 DEF ObjectTypes
  <2>5. PcTypes BY <1>1 DEF PcTypes, Pcs
  <2>6. NumberTypes BY <1>1, ConstantsAssumption DEF NumberTypes
  <2>7. FlagTypes BY <1>1 DEF FlagTypes
  <2>8. NoFragment \in Fragments BY ConstantsAssumption DEF NoFragment, Fragments
  <2>9. FragmentTypes BY <1>1, <2>8 DEF FragmentTypes
  <2>10. NoIterator \in Iterators BY ConstantsAssumption DEF NoIterator, Iterators
  <2>11. IteratorTypes BY <1>1, <2>10 DEF IteratorTypes
  <2> QED BY <2>2, <2>3, <2>4, <2>5, <2>6, <2>7, <2>9, <2>11, TypeIs
<1>9. AddInv BY <1>2 DEF AddInv, AddPlaces
<1>10. FragmentInv /\ RoomInv BY <1>3 DEF FragmentInv, RoomInv
<1>11. EmptyInv BY <1>2 DEF EmptyInv
<1>12. LinkInv
  <2>1. Range(list) = {} /\ Range(previous) = {} /\ Range(rest) = {} BY <1>1, RangeOfEmpty
  <2>2. IsInjective(list) /\ IsInjective(previous) /\ IsInjective(rest) BY <1>1, RangeOfEmpty
  <2>3. {dest} \ {0} = {} BY <1>1
  <2> QED BY <1>1, <1>2, <1>4, <1>5, <2>1, <2>2, <2>3 DEF LinkInv
<1>13. IteratorInv BY <1>2, <1>3 DEF IteratorInv
<1>14. UnitInv
  <2>1. Range(units) = {} /\ IsInjective(units) BY <1>1, RangeOfEmpty
  <2> QED BY <1>1, <1>2, <2>1 DEF UnitInv
<1>15. SplitInv /\ ObjectInv BY <1>1, <1>2 DEF SplitInv, ObjectInv
<1>16. SlotInv
  <2>1. \A x \in Spots : At(slots, x) = Empty BY <1>2, SpotsAre DEF At
  <2>2. \A x \in Spots, o \in Objects : ~HoldsAt(slots, x, o) BY <2>1 DEF HoldsAt
  <2> QED BY <1>1, <2>2 DEF SlotInv, OneSlot, HasSlot
<1>17. FlagInv BY <1>2, EntriesAre DEF FlagInv
<1>18. DoneInv BY <1>7 DEF DoneInv
<1>19. CountExact
  <2>1. Filled = {} BY <1>1 DEF Filled
  <2>2. Cardinality(Filled) = 0 BY <2>1, FS_EmptySet
  <2>3. FragmentTypes /\ IteratorTypes BY <1>8, TypeIs
  <2>4. Cardinality(Unreported) = 0 BY <1>3, <2>3, UnreportedIs
  <2>5. \A t \in Threads : Counts[t] = 0 BY <1>3 DEF Counts
  <2>6. Uncounted(Threads) = 0 BY <2>3, <2>5, UncountedIs, PairsNone
  <2> QED BY <1>1, <2>2, <2>4, <2>6 DEF CountExact
<1>20. SizeInv
  <2>1. Cardinality(live) = 0 BY <1>1, FS_EmptySet
  <2>2. 0 >= GrowSize * 0 BY ConstantsAssumption
  <2> QED BY <1>1, <2>1, <2>2 DEF SizeInv
<1> QED BY <1>6, <1>8, <1>9, <1>10, <1>11, <1>12, <1>13, <1>14, <1>15, <1>16, <1>17, <1>18, <1>19, <1>20 DEF IInv

LEMMA StutterStep ==
    ASSUME IInv, UNCHANGED vars
    PROVE  IInv'
<1>1. /\ UNCHANGED <<live, list, alloc, previous, currentSize, rest, dest, slots, current, overflow, count>>
      /\ UNCHANGED <<overflowAtStart, units, walk, cycles, splits, seen, fragment, held, iterator>>
      /\ UNCHANGED <<remembered, young, back, object, pc>>
  BY DEF vars, poolVars, compactVars, puddleVars, cycleVars, objectVars, addVars, scanVars
<1>2. SameStages /\ SameWork BY <1>1 DEF SameStages, SameWork, Stage
<1>3. /\ PhaseInv' /\ (RunPhase' <=> RunPhase) /\ (CompactPhase' <=> CompactPhase)
      /\ (ScanPhase' <=> ScanPhase) /\ (PrunePhase' <=> PrunePhase) /\ (RebuildPhase' <=> RebuildPhase)
      /\ (DonePhase' <=> DonePhase)
  BY <1>1, <1>2, StagesSame, PhasesSame DEF IInv
<1>4. \A S : InStages(S)' <=> InStages(S) BY <1>2, StagesSame
<1>5. \A t \in Threads : Stage(t)' = Stage(t) BY <1>2 DEF SameStages
<1>6. Holders' = Holders /\ HeldPuddles' = HeldPuddles BY <1>1 DEF Holders, HeldPuddles
<1>7. TypeOK' BY <1>1 DEF IInv, TypeOK
<1>8. AddInv' /\ FragmentInv' /\ RoomInv' /\ EmptyInv'
  BY <1>1, <1>5 DEF IInv, AddInv, FragmentInv, RoomInv, EmptyInv, HasRoom
<1>9. LinkInv' BY <1>1, <1>3, <1>4, <1>6 DEF IInv, LinkInv
<1>10. IteratorInv' /\ UnitInv' BY <1>1, <1>4 DEF IInv, IteratorInv, UnitInv, Slot
<1>11. SplitInv' /\ ObjectInv' /\ DoneInv' BY <1>1, <1>3 DEF IInv, SplitInv, ObjectInv, DoneInv
<1>12. SlotInv' BY <1>1, SlotFrame DEF IInv, OnItsWay
<1>13. \A p \in Puddles, i \in Places :
        (Ahead(p, i)' <=> Ahead(p, i)) /\ (Pending(p, i)' <=> Pending(p, i)) /\ (Unpruned(p, i)' <=> Unpruned(p, i))
  BY <1>1, <1>2, WorkSame
<1>14. FlagInv' BY <1>1, <1>3, <1>13, FlagFrame DEF IInv
<1>15. CountExact' /\ SizeInv' BY <1>1, CountFrame DEF IInv, SizeInv
<1> QED BY <1>3, <1>7, <1>8, <1>9, <1>10, <1>11, <1>12, <1>14, <1>15 DEF IInv

LEMMA NextInv ==
    ASSUME IInv, [Next]_vars
    PROVE  IInv'
<1>1. ASSUME NEW t \in Threads, Adding(t) PROVE IInv'
  <2>1. CASE AddEntry(t) BY <2>1, AddEntryStep
  <2>2. CASE AskForFragment(t) BY <2>2, AskForFragmentStep
  <2>3. CASE AllocateUnlocked(t) BY <2>3, AllocateUnlockedStep
  <2>4. CASE NoRoomUnlocked(t) BY <2>4, NoRoomUnlockedStep
  <2>5. CASE AllocateLocked(t) BY <2>5, AllocateLockedStep
  <2>6. CASE AddPuddle(t) BY <2>6, AddPuddleStep
  <2>7. CASE Overflow(t) BY <2>7, OverflowStep
  <2> QED BY <1>1, <2>1, <2>2, <2>3, <2>4, <2>5, <2>6, <2>7 DEF Adding
<1>2. ASSUME NEW t \in Threads, Collecting(t) PROVE IInv'
  <2>1. CASE ScavengeRememberedSet(t) BY <2>1, ScavengeRememberedSetStep
  <2>2. CASE PopPreviousPuddle(t) BY <2>2, PopPreviousPuddleStep
  <2>3. CASE ScavengeSlot(t) BY <2>3, ScavengeEmptyStep, ScavengeFullStep
  <2>4. CASE Verdict(t) BY <2>4, VerdictStep
  <2>5. CASE ScavengedPuddle(t) BY <2>5, ScavengedPuddleStep
  <2>6. CASE \E s \in splits : ScanSplit(t, s) BY <2>6, ScanSplitStep
  <2>7. CASE FlushToWait(t) BY <2>7, FlushToWaitStep
  <2>8. CASE PrunePuddle(t) BY <2>8, PrunePuddleStep
  <2>9. CASE PruneSlot(t) BY <2>9, PruneSlotStep
  <2>10. CASE PrunedPuddle(t) BY <2>10, PrunedPuddleStep
  <2>11. CASE PruneDone(t) BY <2>11, PruneDoneStep
  <2>12. CASE PruneOverflow(t) BY <2>12, PruneOverflowStep
  <2> QED BY <1>2, <2>1, <2>2, <2>3, <2>4, <2>5, <2>6, <2>7, <2>8, <2>9, <2>10, <2>11, <2>12 DEF Collecting
<1>3. ASSUME Together PROVE IInv'
  <2>1. CASE ScavengeOverflow BY <2>1, ScavengeOverflowStep
  <2>2. CASE ScanComplete BY <2>2, ScanCompleteStep
  <2>3. CASE Rebuild BY <2>3, RebuildStep
  <2>4. CASE \E o \in Objects : RebuildObject(o) BY <2>4, RebuildObjectStep
  <2>5. CASE RebuildDone BY <2>5, RebuildDoneStep
  <2>6. CASE EndScavenge BY <2>6, EndScavengeStep
  <2>7. CASE CompactPuddle BY <2>7, CompactPuddleStep
  <2>8. CASE CompactDone BY <2>8, CompactDoneStep
  <2> QED BY <1>3, <2>1, <2>2, <2>3, <2>4, <2>5, <2>6, <2>7, <2>8 DEF Together
<1>4. ASSUME NEW t \in Threads, NEW o \in Objects, RememberObject(t, o) PROVE IInv'
  BY <1>4, RememberObjectStep
<1>5. CASE StartScavenge BY <1>5, StartScavengeStep
<1>6. CASE StartCompact BY <1>6, StartCompactStep
<1>7. CASE UNCHANGED vars BY <1>7, StutterStep
<1> QED BY <1>1, <1>2, <1>3, <1>4, <1>5, <1>6, <1>7 DEF Next

-----------------------------------------------------------------------------
(* What the invariant means. *)

\* The threads that hold a puddle hold one each.
LEMMA HoldersCount ==
    ASSUME IInv
    PROVE  IsFiniteSet(HeldPuddles) /\ Cardinality(HeldPuddles) = Cardinality(Holders)
<1> DEFINE f == [t \in Holders |-> held[t]]
<1>1. IsFiniteSet(Holders)
  <2>1. Holders \subseteq Threads BY DEF Holders
  <2> QED BY <2>1, ConstantsAssumption, FS_Subset
<1>2. \A t, u \in Holders : held[t] = held[u] => t = u BY DEF IInv, LinkInv
<1>3. \A x : x \in HeldPuddles <=> \E t \in Holders : held[t] = x BY DEF HeldPuddles
<1>4. f \in [Holders -> HeldPuddles] BY <1>3
<1>5. \A t \in Holders : f[t] = held[t] OBVIOUS
<1> HIDE DEF f
<1>6. f \in Bijection(Holders, HeldPuddles) BY <1>2, <1>3, <1>4, <1>5 DEF Bijection, Injection, IsInjective, Surjection
<1>7. ExistsBijection(Holders, HeldPuddles) BY <1>6 DEF ExistsBijection
<1> QED BY <1>1, <1>7, FS_Bijection

LEMMA DisjointCount ==
    ASSUME NEW A, NEW B, IsFiniteSet(A), IsFiniteSet(B), A \cap B = {}
    PROVE  IsFiniteSet(A \cup B) /\ Cardinality(A \cup B) = Cardinality(A) + Cardinality(B)
<1>1. /\ IsFiniteSet(A \cup B)
      /\ Cardinality(A \cup B) = Cardinality(A) + Cardinality(B) - Cardinality(A \cap B)
  BY FS_Union
<1>2. Cardinality(A \cap B) = 0 BY FS_EmptySet
<1>3. Cardinality(A) \in Nat /\ Cardinality(B) \in Nat BY FS_CardinalityType
<1> QED BY <1>1, <1>2, <1>3

\* Every puddle is in one of the places, so their sizes add up.
LEMMA LiveCount ==
    ASSUME IInv
    PROVE  Cardinality(live) = Len(list) + Len(previous) + Len(rest) + Cardinality(Holders) + IF dest = 0 THEN 0 ELSE 1
<1> DEFINE A == Range(list)
           B == Range(previous)
           C == Range(rest)
           D == {dest} \ {0}
           h == Cardinality(Holders)
           d == IF dest = 0 THEN 0 ELSE 1
<1>1. PoolTypes /\ PcTypes BY TypeIs DEF IInv
<1>2. list \in Seq(live) /\ previous \in Seq(live) /\ rest \in Seq(live) BY <1>1 DEF PoolTypes
<1>3. /\ IsInjective(list) /\ IsInjective(previous) /\ IsInjective(rest)
      /\ live = A \cup B \cup C \cup HeldPuddles \cup D
      /\ A \cap B = {} /\ HeldPuddles \cap (A \cup B) = {} /\ A \cap C = {} /\ dest \notin A \cup C
      /\ previous # <<>> => InStages(ScanStages \ {"scan"})
      /\ rest # <<>> \/ dest # 0 => CompactPhase
  BY DEF IInv, LinkInv
<1>4. /\ IsFiniteSet(A) /\ Cardinality(A) = Len(list) /\ IsFiniteSet(B) /\ Cardinality(B) = Len(previous)
      /\ IsFiniteSet(C) /\ Cardinality(C) = Len(rest)
  BY <1>2, <1>3, RangeSize
<1>5. IsFiniteSet(HeldPuddles) /\ Cardinality(HeldPuddles) = h BY HoldersCount
<1>6. /\ IsFiniteSet(D) /\ Cardinality(D) = d
  <2>1. CASE dest = 0
    <3>1. D = {} BY <2>1
    <3> QED BY <2>1, <3>1, FS_EmptySet
  <2>2. CASE dest # 0
    <3>1. D = {dest} BY <2>2
    <3> QED BY <2>2, <3>1, FS_Singleton
  <2> QED BY <2>1, <2>2
<1>7. Len(list) \in Nat /\ Len(previous) \in Nat /\ Len(rest) \in Nat /\ h \in Nat /\ d \in Nat
  <2>1. Cardinality(HeldPuddles) \in Nat BY <1>5, FS_CardinalityType
  <2> QED BY <1>2, <1>5, <2>1
<1> HIDE DEF h, d
<1>8. CASE CompactPhase
  <2>1. Master \in Threads /\ Stage(Master) = "compact" BY <1>8, ConstantsAssumption DEF CompactPhase, InStages
  <2>2. previous = <<>> BY <1>3, <2>1 DEF InStages, ScanStages
  <2>3. B = {} /\ Len(previous) = 0 BY <2>2, RangeOfEmpty
  <2>4. Holders = {}
    <3>1. \A t \in Threads : Stage(t) = "compact" BY <1>8 DEF CompactPhase, InStages
    <3>2. \A t \in Threads : pc[t] \notin {"pop", "slots", "verdict"} BY <3>1 DEF Stage, AddPlaces
    <3> QED BY <3>2 DEF Holders
  <2>5. HeldPuddles = {} BY <2>4 DEF HeldPuddles
  <2>6. h = 0 BY <2>4, FS_EmptySet DEF h
  <2> HIDE DEF A, B, C
  <2>7. IsFiniteSet(A \cup C) /\ Cardinality(A \cup C) = Cardinality(A) + Cardinality(C)
    BY <1>3, <1>4, DisjointCount
  <2>8. (A \cup C) \cap D = {} BY <1>3
  <2> HIDE DEF D
  <2>9. Cardinality((A \cup C) \cup D) = Cardinality(A \cup C) + Cardinality(D) BY <1>6, <2>7, <2>8, DisjointCount
  <2>10. live = (A \cup C) \cup D BY <1>3, <2>3, <2>5
  <2>11. Cardinality(live) = Len(list) + Len(rest) + d BY <1>4, <1>6, <2>7, <2>9, <2>10
  <2>12. Cardinality(live) = Len(list) + Len(previous) + Len(rest) + h + d BY <1>7, <2>3, <2>6, <2>11
  <2> QED BY <2>12 DEF h, d
<1>9. CASE ~CompactPhase
  <2>1. rest = <<>> /\ dest = 0 BY <1>3, <1>9
  <2>2. C = {} /\ Len(rest) = 0 /\ D = {} /\ d = 0 BY <2>1, RangeOfEmpty DEF d
  <2> HIDE DEF A, B, C, D
  <2>3. IsFiniteSet(A \cup B) /\ Cardinality(A \cup B) = Cardinality(A) + Cardinality(B)
    BY <1>3, <1>4, DisjointCount
  <2>4. (A \cup B) \cap HeldPuddles = {} BY <1>3
  <2>5. Cardinality((A \cup B) \cup HeldPuddles) = Cardinality(A \cup B) + Cardinality(HeldPuddles)
    BY <1>5, <2>3, <2>4, DisjointCount
  <2>6. live = (A \cup B) \cup HeldPuddles BY <1>3, <2>2
  <2>7. Cardinality(live) = Len(list) + Len(previous) + h BY <1>4, <1>5, <2>3, <2>5, <2>6
  <2>8. Cardinality(live) = Len(list) + Len(previous) + Len(rest) + h + d BY <1>7, <2>2, <2>7
  <2> QED BY <2>8 DEF h, d
<1> QED BY <1>8, <1>9

LEMMA ShapeHolds ==
    ASSUME IInv
    PROVE  PoolShape
<1>1. SlotTypes /\ PoolTypes /\ PcTypes /\ FragmentTypes /\ NumberTypes BY TypeIs DEF IInv
<1>2. live \subseteq Puddles /\ list \in Seq(live) BY <1>1 DEF PoolTypes
<1>3. live = Range(list) \cup Range(previous) \cup Range(rest) \cup {held[t] : t \in Holders} \cup ({dest} \ {0})
  BY DEF IInv, LinkInv, HeldPuddles
<1>4. ~All("compact") => alloc = IF list = <<>> THEN 0 ELSE Last(list)
  <2>1. CompactPhase => All("compact")
    <3>1. \A t \in Threads : back[t] \in {"run", "scan", "rebuild"} BY <1>1 DEF PcTypes
    <3> QED BY <3>1 DEF CompactPhase, InStages, Stage, All
  <2> QED BY <2>1 DEF IInv, LinkInv
<1>5. \A p \in live, i \in Places : i > current[p] => slots[p][i] = Empty
  <2> SUFFICES ASSUME NEW p \in live, NEW i \in Places, i > current[p] PROVE slots[p][i] = Empty OBVIOUS
  <2>1. p \in Puddles /\ current[p] \in Nat /\ i \in Nat BY <1>1, <1>2, SlotTypeOf, ConstantsAssumption DEF Places
  <2>2. current[p] < i BY <2>1
  <2> QED BY <2>1, <2>2 DEF IInv, EmptyInv
<1>6. ASSUME NEW t \in Threads, HasRoom(t)
      PROVE  /\ fragment[t].puddle \in Range(list) /\ fragment[t].puddle \in live /\ fragment[t].puddle \in Puddles
             /\ fragment[t].next \in Nat /\ fragment[t].top \in Nat
             /\ fragment[t].top - 1 <= current[fragment[t].puddle]
             /\ Within(t) \cap Filled = {}
  <2> DEFINE q == fragment[t].puddle
             i == fragment[t].next
             k == fragment[t].top
  <2>1. /\ q \in Range(list) /\ k <= current[q] + 1
        /\ \A j \in Places : i <= j /\ j < k => slots[q][j] = Empty
    BY <1>6 DEF IInv, RoomInv
  <2>2. q \in live /\ q \in Puddles BY <1>2, <2>1, RangeIs
  <2>3. i \in Nat /\ k \in Nat /\ current[q] \in Nat BY <1>1, <2>2, FragmentOf, SlotTypeOf, ConstantsAssumption
  <2>4. Within(t) = {q} \X (i .. k - 1) BY DEF Within
  <2> HIDE DEF q, i, k
  <2>5. k - 1 <= current[q] BY <2>1, <2>3
  <2>6. ASSUME NEW x \in Within(t), x \in Filled PROVE FALSE
    <3>1. x[1] = q /\ x[2] \in i .. k - 1 BY <2>4, <2>6
    <3>2. x[2] \in Places /\ slots[x[1]][x[2]] # Empty BY <2>6 DEF Filled
    <3>3. i <= x[2] /\ x[2] < k BY <2>3, <3>1
    <3> QED BY <2>1, <3>1, <3>2, <3>3
  <2>7. Within(t) \cap Filled = {} BY <2>6
  <2> QED BY <2>1, <2>2, <2>3, <2>5, <2>7 DEF q, i, k
<1>7. ASSUME NEW t \in Threads, NEW u \in Threads, t # u, HasRoom(t), HasRoom(u)
      PROVE  Within(t) \cap Within(u) = {}
  <2>1. /\ fragment[t].next \in Nat /\ fragment[t].top \in Nat /\ fragment[u].next \in Nat /\ fragment[u].top \in Nat
    BY <1>6, <1>7
  <2>2. fragment[t].puddle = fragment[u].puddle =>
          fragment[t].top <= fragment[u].next \/ fragment[u].top <= fragment[t].next
    BY <1>7 DEF IInv, RoomInv
  <2>3. ASSUME NEW x \in Within(t), x \in Within(u) PROVE FALSE
    <3>1. /\ x[1] = fragment[t].puddle /\ x[2] \in fragment[t].next .. fragment[t].top - 1
          /\ x[1] = fragment[u].puddle /\ x[2] \in fragment[u].next .. fragment[u].top - 1
      BY <2>3 DEF Within
    <3>2. fragment[t].top <= fragment[u].next \/ fragment[u].top <= fragment[t].next BY <2>2, <3>1
    <3> QED BY <2>1, <3>1, <3>2
  <2> QED BY <2>3
<1>8. currentSize = 0 => live = {}
  <2> DEFINE n == Cardinality(live)
  <2>1. IsFiniteSet(Puddles) BY ConstantsAssumption, FS_Interval DEF Puddles
  <2>2. IsFiniteSet(live) BY <1>2, <2>1, FS_Subset
  <2>3. n \in Nat /\ (n = 0 => live = {}) BY <2>2, FS_CardinalityType, FS_EmptySet
  <2>4. currentSize >= GrowSize * n BY DEF IInv, SizeInv
  <2> HIDE DEF n
  <2>5. ASSUME n # 0, currentSize = 0 PROVE FALSE
    <3>1. GrowSize \in Nat /\ GrowSize >= 1 /\ n >= 1 BY <2>3, <2>5, ConstantsAssumption
    <3>2. PICK k \in Nat : n = k + 1
      <4>1. n - 1 \in Nat /\ n = (n - 1) + 1 BY <2>3, <2>5
      <4> QED BY <4>1
    <3>3. GrowSize * n = GrowSize * k + GrowSize /\ GrowSize * k \in Nat BY <3>1, <3>2
    <3> DEFINE m == GrowSize * k
    <3> HIDE DEF m
    <3>4. m \in Nat /\ 0 >= m + GrowSize BY <2>4, <2>5, <3>3 DEF m
    <3> QED BY <3>1, <3>4
  <2> QED BY <2>3, <2>5
<1> QED BY <1>3, <1>4, <1>5, <1>6, <1>7, <1>8, LiveCount DEF PoolShape

LEMMA PoolHolds == ASSUME IInv PROVE PoolInv
<1>1. SplitSlotsStay BY DEF IInv, SplitInv, SplitSlotsStay
<1> QED BY <1>1, ShapeHolds DEF IInv, PoolInv

LEMMA ConservedHolds ==
    ASSUME IInv
    PROVE  RememberedConserved
<1> SUFFICES ASSUME ~overflow, NEW o \in Objects
             PROVE  Cardinality(Holding(o)) = IF o \in remembered /\ ~OnItsWay(o) THEN 1 ELSE 0
  BY DEF RememberedConserved
<1>1. SlotTypes /\ PoolTypes BY TypeIs DEF IInv
<1>2. Filled = Full(slots) BY <1>1, FilledIs DEF IInv, PoolTypes
<1>3. \A x : x \in Holding(o) <=> x \in Spots /\ HoldsAt(slots, x, o) BY <1>2 DEF Holding, Full, HoldsAt, At
<1>4. OneSlot(slots) /\ (HasSlot(slots, o) <=> o \in remembered /\ ~OnItsWay(o)) BY DEF IInv, SlotInv
<1>5. CASE o \in remembered /\ ~OnItsWay(o)
  <2>1. PICK x \in Spots : HoldsAt(slots, x, o) BY <1>4, <1>5 DEF HasSlot
  <2>2. \A y \in Spots : HoldsAt(slots, y, o) => y = x BY <1>4, <2>1 DEF OneSlot
  <2>3. Holding(o) = {x} BY <1>3, <2>1, <2>2
  <2> QED BY <1>5, <2>3, FS_Singleton
<1>6. CASE ~(o \in remembered /\ ~OnItsWay(o))
  <2>1. Holding(o) = {} BY <1>3, <1>4, <1>6 DEF HasSlot
  <2> QED BY <1>6, <2>1, FS_EmptySet
<1> QED BY <1>5, <1>6

LEMMA PruneHolds ==
    ASSUME IInv
    PROVE  PruneExact
<1>1. young \subseteq remembered BY DEF IInv, ObjectInv
<1>2. ASSUME All("done") PROVE remembered = young
  <2>1. \A t \in Threads : Stage(t) = "done" BY <1>2 DEF All, Stage, AddPlaces
  <2>2. DonePhase BY <2>1 DEF DonePhase, InStages
  <2> QED BY <2>2 DEF IInv, DoneInv
<1> QED BY <1>1, <1>2 DEF PruneExact

-----------------------------------------------------------------------------
(* The theorems. *)

\* In every behavior of the pool, the parts of the inductive invariant hold together
\* (SublistPool.cpp, SublistPuddle.cpp, SublistSlotIterator.cpp, Scavenger.cpp).
THEOREM InvTheorem == Spec => []IInv
<1>1. Init => IInv BY InitInv
<1>2. IInv /\ [Next]_vars => IInv' BY NextInv
<1> QED BY <1>1, <1>2, PTL DEF Spec

\* The puddles that exist are in one place each, _allocPuddle is the last of the list, no two
\* threads may fill the same slot, what is not reserved is NULL, the count is exact once what
\* is unflushed is taken into account, and a slot that was left with a part of an array is
\* still the array's: for any number of threads, puddles and collections.
THEOREM PoolTheorem == Spec => []PoolInv
  BY InvTheorem, PoolHolds, PTL

\* As long as the set has not overflowed, exactly one slot holds each remembered object that is
\* not being added, and none any other object, through races for puddles, removeSlot's moves,
\* pruning, rebuilding and compact().
THEOREM ConservedTheorem == Spec => []RememberedConserved
  BY InvTheorem, ConservedHolds, PTL

\* A scavenge ends with the objects that refer to the nursery remembered and no others
\* (scavengeRememberedSet, pruneRememberedSetList, pruneRememberedSetOverflow).
THEOREM PruneTheorem == Spec => []PruneExact
  BY InvTheorem, PruneHolds, PTL
=============================================================================

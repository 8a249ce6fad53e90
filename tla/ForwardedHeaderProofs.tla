----------------------- MODULE ForwardedHeaderProofs -----------------------
(***************************************************************************)
(* Proofs about ForwardedHeader, for any finite set of threads, any object *)
(* size and any layout of the word that sizes and a count share: one       *)
(* destination is decided once, no thread sees an incomplete copy, and the *)
(* word accounts for all bytes and all helpers.                            *)
(***************************************************************************)
EXTENDS ForwardedHeader, FiniteSetTheorems, TLAPS

-----------------------------------------------------------------------------
(* The inductive invariant. *)

\* Where the thread is that forwarded an object to be copied in sections.
Winning == {"first", "win", "copy", "commence", "commit", "unhint"}

Forwarded == header.tag = "forwarded"

\* The header: an object is self-forwarded only in a back-out, and the hint stands until
\* the winner is done.
HeaderInv ==
    /\ header.tag = "self" => concurrent /\ backOut
    /\ Forwarded =>
        /\ Sections => pc[header.to] \in Winning \cup {"done"}
        /\ Duplicates => pc[header.to] = "done"
        /\ ~concurrent => pc[header.to] \in {"memcpy", "done"}
        /\ header.hint <=> pc[header.to] \in Winning

\* What a thread knows at its place: who has read a plain header, and not one of a
\* self-forwarded object, may forward the object.
PlaceInv ==
    \A t \in Threads :
        /\ preserved[t].tag = "self" => header = SelfForwarded
        /\ pc[t] \in {"check", "fail"} => preserved[t].tag # "forwarded"
        /\ pc[t] = "fail" => backOut
        /\ pc[t] \in {"reserve", "memcpy", "forward"} => preserved[t] = Plain
        /\ pc[t] \in Winning => Sections /\ Forwarded /\ header.to = t
        /\ pc[t] = "memcpy" => ~Sections /\ (~concurrent => Forwarded /\ header.to = t)
        /\ pc[t] \in {"help", "assist"} => Sections /\ Forwarded /\ header.to # t
        /\ participating[t] => pc[t] \in {"help", "assist"}
        /\ pc[t] = "assist" => participating[t]

\* A thread is done with the original in a back-out, and otherwise with a complete copy.
SlotInv ==
    \A t \in Threads :
        /\ pc[t] # "done" => slot[t] = NoPlace
        /\ pc[t] = "done" =>
            \/ slot[t] = Original /\ IF concurrent THEN header = SelfForwarded ELSE backOut
            \/ /\ Forwarded /\ slot[t] = header.to
               /\ Sections => pc[header.to] \in {"unhint", "done"}

\* The spaces: what was copied to one before the object is forwarded there.
SpaceInv ==
    \A t \in Threads :
        /\ ~Sections => word[t] = Restored
        /\ Duplicates /\ (pc[t] = "forward" \/ (Forwarded /\ header.to = t)) => copied[t] = Bytes
        /\ Sections /\ ~(Forwarded /\ header.to = t) => copied[t] = {}
        /\ Sections /\ pc[t] = "forward" =>
            /\ section[t].from + section[t].length = size /\ section[t].from % Alignment = 0
            /\ word[t] = Progress(section[t].from, 0)

\* The word while the copy is made: what remains lies below all that was given out.
WordInv ==
    Sections /\ Forwarded =>
        LET d == header.to IN
        /\ word[d].beingCopied <=> pc[d] \notin {"unhint", "done"}
        /\ Outstanding(word[d]) <= MaxOutstanding /\ Remaining(word[d]) <= size
        /\ pc[d] \in {"commence", "commit", "unhint", "done"} => word[d].value = 0
        /\ \A b \in copied[d] : b >= Remaining(word[d])
        /\ \A t \in Copiers : section[t].from >= Remaining(word[d])

IInv ==
    /\ TypeOK /\ HeaderInv /\ PlaceInv /\ SlotInv /\ SpaceInv /\ WordInv
    /\ BytesAccounted /\ ParticipantsCounted

-----------------------------------------------------------------------------
(* The word: an aligned size and a count below the alignment. *)

\* The two parts of a word are a multiple of the alignment and a rest below it.
LEMMA WordParts ==
    ASSUME NEW w \in [beingCopied : BOOLEAN, value : Nat]
    PROVE  /\ Remaining(w) \in Nat /\ Outstanding(w) \in 0..(Alignment - 1)
           /\ w.value = Remaining(w) + Outstanding(w)
           /\ Remaining(w) % Alignment = 0
           /\ Remaining(w) = (w.value \div Alignment) * Alignment
<1> DEFINE q == w.value \div Alignment
           o == w.value % Alignment
<1>1. w.value \in Nat /\ q \in Nat /\ o \in 0..(Alignment - 1)
  BY WordAssumption
<1> HIDE DEF q, o
<1>2. q * Alignment \in Nat /\ (q * Alignment) % Alignment = 0
  BY <1>1, WordAssumption
<1>3. \A v \in Nat, k \in Nat, r \in Nat : k = v \div Alignment /\ r = v % Alignment => v = k * Alignment + r
  BY WordAssumption
<1>4. w.value = q * Alignment + o
  BY <1>1, <1>3 DEF q, o
<1> QED BY <1>1, <1>2, <1>4 DEF Remaining, Outstanding, q, o

LEMMA Multiple ==
    ASSUME NEW r \in Nat, r % Alignment = 0
    PROVE  \E q \in Nat : r = q * Alignment
  BY WordAssumption

\* What Progress packs, Remaining and Outstanding unpack.
LEMMA ProgressParts ==
    ASSUME NEW r \in Nat, r % Alignment = 0, NEW o \in 0..(Alignment - 1)
    PROVE  /\ Progress(r, o) \in [beingCopied : BOOLEAN, value : Nat] /\ Progress(r, o).beingCopied
           /\ Remaining(Progress(r, o)) = r /\ Outstanding(Progress(r, o)) = o
<1>1. PICK q \in Nat : r = q * Alignment
  BY Multiple
<1>2. (q * Alignment + o) \div Alignment = q /\ (q * Alignment + o) % Alignment = o
  BY WordAssumption
<1>3. r + o \in Nat /\ Progress(r, o).value = r + o
  BY WordAssumption DEF Progress
<1> QED BY <1>1, <1>2, <1>3 DEF Progress, Remaining, Outstanding

LEMMA RestoredParts ==
    /\ Restored \in [beingCopied : BOOLEAN, value : Nat] /\ ~Restored.beingCopied
    /\ Remaining(Restored) = 0 /\ Outstanding(Restored) = 0
<1>1. 0 \div Alignment = 0 /\ 0 % Alignment = 0
  BY WordAssumption
<1> QED BY <1>1, WordAssumption DEF Restored, Remaining, Outstanding

LEMMA AlignedDifference ==
    ASSUME NEW m \in Nat, NEW n \in Nat, n <= m, m % Alignment = 0, n % Alignment = 0
    PROVE  (m - n) % Alignment = 0
<1>1. PICK p \in Nat : m = p * Alignment
  BY WordAssumption
<1>2. PICK q \in Nat : n = q * Alignment
  BY WordAssumption
<1>3. m - n = (p - q) * Alignment /\ q <= p
  BY <1>1, <1>2, WordAssumption
<1> QED BY <1>3, WordAssumption

\* A section is a part of what remains, and it is not empty unless nothing remains.
LEMMA SectionOfIs ==
    ASSUME NEW r \in Nat, NEW w \in Nat
    PROVE  /\ SectionOf(r, w) \in 0..r /\ (r > 0 => SectionOf(r, w) > 0)
           /\ SectionOf(r, w) \in {r, w, MinIncrement}
<1>1. Max({w, MinIncrement}) \in {w, MinIncrement} /\ Max({w, MinIncrement}) >= MinIncrement
  BY WordAssumption DEF Max
<1>2. \A a \in Nat, b \in Nat : Min({a, b}) = IF a <= b THEN a ELSE b
  BY DEF Min
<1> QED BY <1>1, <1>2, WordAssumption DEF SectionOf

\* copySetup leaves an aligned size to copy.
LEMMA FirstSectionIs ==
    ASSUME NEW n \in Nat
    PROVE  FirstSection(n) \in 0..n /\ (n - FirstSection(n)) % Alignment = 0
<1>1. n \div 128 \in Nat
  OBVIOUS
<1>2. PICK wanted \in 0..n : wanted = SectionOf(n, n \div 128)
  BY <1>1, SectionOfIs
<1>3. FirstSection(n) = wanted + ((n - wanted) % Alignment)
  BY <1>2 DEF FirstSection
<1>4. PICK w \in [beingCopied : BOOLEAN, value : Nat] : w.value = n - wanted
  <2>1. [beingCopied |-> TRUE, value |-> n - wanted] \in [beingCopied : BOOLEAN, value : Nat]
    BY <1>2
  <2> QED BY <2>1
<1>5. FirstSection(n) = wanted + Outstanding(w)
  BY <1>3, <1>4 DEF Outstanding
<1>6. /\ Remaining(w) \in Nat /\ Outstanding(w) \in Nat
      /\ n - wanted = Remaining(w) + Outstanding(w) /\ Remaining(w) % Alignment = 0
  BY <1>4, WordParts, WordAssumption
<1>7. n - FirstSection(n) = Remaining(w) /\ FirstSection(n) \in 0..n
  BY <1>2, <1>5, <1>6
<1> QED BY <1>6, <1>7

\* winObjectSectionToCopy leaves an aligned size, too, and makes progress.
LEMMA WinSectionIs ==
    ASSUME NEW r \in Nat, r % Alignment = 0, r > 0
    PROVE  LET length == SectionOf(r, ((r \div 128) \div Alignment) * Alignment) IN
           length \in 1..r /\ r - length \in Nat /\ (r - length) % Alignment = 0
<1> DEFINE wanted == ((r \div 128) \div Alignment) * Alignment
<1>1. r \div 128 \in Nat
  OBVIOUS
<1>2. (r \div 128) \div Alignment \in Nat
  BY <1>1, WordAssumption
<1>3. wanted \in Nat /\ wanted % Alignment = 0
  BY <1>2, WordAssumption
<1> HIDE DEF wanted
<1>4. SectionOf(r, wanted) \in 1..r /\ SectionOf(r, wanted) % Alignment = 0
  <2>1. /\ SectionOf(r, wanted) \in 0..r /\ SectionOf(r, wanted) > 0
        /\ SectionOf(r, wanted) \in {r, wanted, MinIncrement}
    BY <1>3, SectionOfIs
  <2>2. SectionOf(r, wanted) % Alignment = 0
    BY <2>1, <1>3, WordAssumption
  <2> QED BY <2>1, <2>2
<1>5. (r - SectionOf(r, wanted)) % Alignment = 0
  BY <1>4, AlignedDifference
<1> QED BY <1>4, <1>5 DEF wanted

-----------------------------------------------------------------------------
(* Every step preserves it: what the steps have in common. *)

LEMMA HeaderShape ==
    ASSUME NEW h \in Headers
    PROVE  /\ h = Plain \/ h = SelfForwarded
                \/ (h.tag = "forwarded" /\ h = ForwardedTo(h.to, h.hint))
           /\ h.tag = "plain" => h = Plain
           /\ h.tag = "self" => h = SelfForwarded
           /\ h.tag = "forwarded" => h.to \in Threads /\ h.hint \in BOOLEAN
           /\ h.tag # "forwarded" => ~h.hint
  BY ThreadsAssumption DEF Headers, Plain, SelfForwarded, ForwardedTo

LEMMA HeadersAre ==
    /\ Plain \in Headers /\ SelfForwarded \in Headers
    /\ \A d \in Threads, hint \in BOOLEAN : ForwardedTo(d, hint) \in Headers
  BY DEF Headers

\* The destination of an object that is copied in sections, and its word.
LEMMA Destination ==
    ASSUME TypeOK, Forwarded
    PROVE  /\ header.to \in Threads /\ word[header.to] \in [beingCopied : BOOLEAN, value : Nat]
           /\ Remaining(word[header.to]) \in Nat /\ Remaining(word[header.to]) % Alignment = 0
           /\ Outstanding(word[header.to]) \in 0..(Alignment - 1)
           /\ word[header.to].value = Remaining(word[header.to]) + Outstanding(word[header.to])
<1>1. header.to \in Threads
  BY HeaderShape DEF TypeOK, ObjectType, Forwarded
<1>2. word[header.to] \in [beingCopied : BOOLEAN, value : Nat]
  BY <1>1 DEF TypeOK, SpaceType
<1> QED BY <1>1, <1>2, WordParts

\* A step that leaves the destination, its word and the sections of the copying threads
\* alone leaves all accounts alone.
LEMMA Frame ==
    ASSUME WordInv, BytesAccounted, ParticipantsCounted,
           UNCHANGED <<size, concurrent, participating>>, Copiers' = Copiers,
           Sections /\ Forwarded' => /\ Forwarded /\ header'.to = header.to
                                     /\ word'[header.to] = word[header.to]
                                     /\ copied'[header.to] = copied[header.to]
                                     /\ pc'[header.to] \in {"unhint", "done"} <=> pc[header.to] \in {"unhint", "done"}
                                     /\ pc'[header.to] \in {"commence", "commit"} => pc[header.to] \in {"commence", "commit"},
           Sections => \A u \in Copiers : section'[u] = section[u]
    PROVE  WordInv' /\ BytesAccounted' /\ ParticipantsCounted'
<1>1. CASE ~(Sections /\ Forwarded')
  BY <1>1 DEF WordInv, BytesAccounted, ParticipantsCounted, Sections, Forwarded
<1>2. CASE Sections /\ Forwarded'
  <2> USE <1>2
  <2> DEFINE d == header.to
             w == word[d]
  <2>1. Sections' /\ Forwarded /\ header'.to = d /\ word'[d] = w /\ copied'[d] = copied[d]
    BY DEF Sections
  <2>2. \A u \in Copiers : section'[u] = section[u] /\ BytesOf(section[u])' = BytesOf(section[u])
    BY DEF BytesOf
  <2>3. Remaining(word[header.to])' = Remaining(w) /\ Outstanding(word[header.to])' = Outstanding(w)
    BY <2>1 DEF Remaining, Outstanding
  <2>4. WordInv'
    BY <2>1, <2>2, <2>3 DEF WordInv
  <2>5. ParticipantsCounted'
    BY <2>1, <2>3 DEF ParticipantsCounted, Forwarded
  <2>6. BytesAccounted'
    BY <2>1, <2>2, <2>3 DEF BytesAccounted, Forwarded, Bytes
  <2> QED BY <2>4, <2>5, <2>6
<1> QED BY <1>1, <1>2

\* A part of what remains is given to a thread.
LEMMA GiveOut ==
    ASSUME TypeOK, WordInv, BytesAccounted, Sections, Forwarded,
           NEW t \in Threads, t \notin Copiers,
           UNCHANGED <<size, concurrent, header, copied>>, Copiers' = Copiers \cup {t},
           NEW length \in 1..Remaining(word[header.to]),
           section' = [section EXCEPT ![t] = [from |-> Remaining(word[header.to]) - length, length |-> length]],
           word[header.to].beingCopied, word'[header.to].beingCopied,
           Remaining(word'[header.to]) = Remaining(word[header.to]) - length
    PROVE  /\ BytesAccounted'
           /\ \A b \in copied'[header.to] : b >= Remaining(word'[header.to])
           /\ \A u \in Copiers' : section'[u].from >= Remaining(word'[header.to])
<1> DEFINE d == header.to
           r == Remaining(word[d])
           left == r - length
<1>1. r \in Nat /\ left \in Nat /\ left < r /\ d \in Threads /\ r <= size /\ size \in Nat
  BY Destination, SizesAssumption DEF WordInv, TypeOK, ObjectType
<1>2. /\ section'[t].from = left /\ BytesOf(section'[t]) = left..(r - 1)
      /\ \A u \in Copiers : section'[u] = section[u]
      /\ \A u \in Copiers : section[u].from \in Nat /\ section[u].length \in Nat /\ section[u].from >= r
  BY <1>1 DEF TypeOK, SectionType, Copiers, BytesOf, WordInv
<1>3. /\ copied[d] \subseteq Bytes /\ \A b \in copied[d] : b \in Nat /\ b >= r
  BY <1>1 DEF TypeOK, SpaceType, Bytes, WordInv
<1>4. /\ Bytes = (0..(r - 1)) \cup copied[d] \cup UNION {BytesOf(section[u]) : u \in Copiers}
      /\ (0..(r - 1)) \cap copied[d] = {}
      /\ \A u \in Copiers :
            /\ BytesOf(section[u]) \cap ((0..(r - 1)) \cup copied[d]) = {}
            /\ \A v \in Copiers \ {u} : BytesOf(section[u]) \cap BytesOf(section[v]) = {}
  BY DEF BytesAccounted, Forwarded
<1> DEFINE low == 0..(left - 1)
           part == left..(r - 1)
           rest == UNION {BytesOf(section[u]) : u \in Copiers}
<1>5. 0..(r - 1) = low \cup part /\ low \cap part = {} /\ low \subseteq 0..(r - 1) /\ part \subseteq 0..(r - 1)
  BY <1>1
<1>6. UNION {BytesOf(section'[u]) : u \in Copiers'} = part \cup rest
  BY <1>2
<1>7. Bytes = low \cup copied[d] \cup UNION {BytesOf(section'[u]) : u \in Copiers'}
  BY <1>4, <1>5, <1>6
<1>8. low \cap copied[d] = {}
  BY <1>4, <1>5
<1>9. ASSUME NEW u \in Copiers'
      PROVE  /\ BytesOf(section'[u]) \cap (low \cup copied[d]) = {}
             /\ \A v \in Copiers' \ {u} : BytesOf(section'[u]) \cap BytesOf(section'[v]) = {}
  <2>1. CASE u = t
    BY <2>1, <1>2, <1>4, <1>5
  <2>2. CASE u # t
    <3>1. u \in Copiers /\ BytesOf(section'[u]) = BytesOf(section[u])
      BY <2>2, <1>2
    <3>2. BytesOf(section[u]) \cap (0..(r - 1)) = {} /\ BytesOf(section[u]) \cap copied[d] = {}
      BY <3>1, <1>4
    <3>3. BytesOf(section[u]) \cap part = {} /\ BytesOf(section[u]) \cap low = {}
      BY <3>2, <1>5
    <3>4. ASSUME NEW v \in Copiers' \ {u} PROVE BytesOf(section'[u]) \cap BytesOf(section'[v]) = {}
      BY <3>1, <3>3, <1>2, <1>4
    <3> QED BY <3>1, <3>2, <3>3, <3>4
  <2> QED BY <2>1, <2>2
<1>10. BytesAccounted'
  BY <1>7, <1>8, <1>9 DEF BytesAccounted, Bytes, BytesOf
<1>11. \A b \in copied'[d] : b >= left
  BY <1>1, <1>3
<1>12. \A u \in Copiers' : section'[u].from >= left
  BY <1>1, <1>2
<1> QED BY <1>10, <1>11, <1>12

\* A thread has copied its section.
LEMMA TakeIn ==
    ASSUME TypeOK, WordInv, BytesAccounted, Sections, Forwarded,
           NEW t \in Threads, t \in Copiers,
           UNCHANGED <<size, concurrent, header, word>>, Copiers' = Copiers \ {t},
           CopySection(t, header.to)
    PROVE  /\ BytesAccounted' /\ copied' \in [Threads -> SUBSET Bytes]
           /\ \A b \in copied'[header.to] : b >= Remaining(word[header.to])
           /\ \A u \in Copiers' : section'[u].from >= Remaining(word[header.to])
<1> DEFINE d == header.to
           r == Remaining(word[d])
           remaining == IF word[d].beingCopied THEN 0..(r - 1) ELSE {}
           part == BytesOf(section[t])
<1>1. r \in Nat /\ d \in Threads /\ size \in Nat
  BY Destination, SizesAssumption DEF TypeOK, ObjectType
<1>2. /\ copied'[d] = copied[d] \cup part
      /\ \A u \in Copiers' : section'[u] = section[u]
      /\ \A u \in Copiers : section[u].from \in Nat /\ section[u].length \in Nat /\ section[u].from >= r
  BY <1>1 DEF TypeOK, SectionType, SpaceType, Copiers, BytesOf, WordInv, CopySection
<1>3. \A b \in part : b \in Nat /\ b >= r
  BY <1>1, <1>2 DEF BytesOf
<1>4. /\ Bytes = remaining \cup copied[d] \cup UNION {BytesOf(section[u]) : u \in Copiers}
      /\ remaining \cap copied[d] = {}
      /\ \A u \in Copiers :
            /\ BytesOf(section[u]) \cap (remaining \cup copied[d]) = {}
            /\ \A v \in Copiers \ {u} : BytesOf(section[u]) \cap BytesOf(section[v]) = {}
  BY DEF BytesAccounted, Forwarded
<1> DEFINE rest == UNION {BytesOf(section'[u]) : u \in Copiers'}
<1>5. UNION {BytesOf(section[u]) : u \in Copiers} = part \cup rest
  BY <1>2
<1> HIDE DEF remaining, part, rest
<1>6. Bytes = remaining \cup copied'[d] \cup rest
  BY <1>2, <1>4, <1>5
<1>7. remaining \cap copied'[d] = {}
  BY <1>2, <1>4 DEF part
<1>8. ASSUME NEW u \in Copiers'
      PROVE  /\ BytesOf(section'[u]) \cap (remaining \cup copied'[d]) = {}
             /\ \A v \in Copiers' \ {u} : BytesOf(section'[u]) \cap BytesOf(section'[v]) = {}
  BY <1>2, <1>4 DEF part
<1>9. BytesAccounted'
  BY <1>6, <1>7, <1>8 DEF BytesAccounted, Bytes, BytesOf, remaining, rest, Remaining
<1>10. part \subseteq Bytes
  BY <1>4, <1>5
<1>11. copied' \in [Threads -> SUBSET Bytes]
  BY <1>1, <1>10 DEF TypeOK, SpaceType, CopySection, part, BytesOf
<1>12. \A b \in copied'[d] : b >= r
  BY <1>2, <1>3 DEF WordInv
<1>13. \A u \in Copiers' : section'[u].from >= r
  BY <1>2
<1> QED BY <1>9, <1>11, <1>12, <1>13

\* One helper more, and one less.
LEMMA CountIn ==
    ASSUME TypeOK, NEW t \in Threads, ~participating[t],
           participating' = [participating EXCEPT ![t] = TRUE]
    PROVE  /\ Cardinality({u \in Threads : participating[u]}) \in Nat
           /\ Cardinality({u \in Threads : participating'[u]}) = Cardinality({u \in Threads : participating[u]}) + 1
<1> DEFINE P == {u \in Threads : participating[u]}
<1>1. IsFiniteSet(P) /\ t \notin P
  BY ThreadsAssumption, FS_Subset
<1>2. {u \in Threads : participating'[u]} = P \cup {t}
  BY DEF TypeOK, LocalType
<1> QED BY <1>1, <1>2, FS_AddElement, FS_CardinalityType

LEMMA CountOut ==
    ASSUME TypeOK, NEW t \in Threads, participating[t],
           participating' = [participating EXCEPT ![t] = FALSE]
    PROVE  /\ Cardinality({u \in Threads : participating[u]}) \in Nat \ {0}
           /\ Cardinality({u \in Threads : participating'[u]}) = Cardinality({u \in Threads : participating[u]}) - 1
<1> DEFINE P == {u \in Threads : participating[u]}
<1>1. IsFiniteSet(P) /\ t \in P
  BY ThreadsAssumption, FS_Subset
<1>2. {u \in Threads : participating'[u]} = P \ {t}
  BY DEF TypeOK, LocalType
<1>3. Cardinality(P) \in Nat /\ Cardinality(P) # 0
  BY <1>1, FS_CardinalityType, FS_EmptySet
<1> QED BY <1>1, <1>2, <1>3, FS_RemoveElement

LEMMA CountNone ==
    ASSUME Cardinality({u \in Threads : participating[u]}) = 0
    PROVE  \A u \in Threads : ~participating[u]
<1> DEFINE P == {u \in Threads : participating[u]}
<1>1. IsFiniteSet(P)
  BY ThreadsAssumption, FS_Subset
<1>2. P = {}
  BY <1>1, FS_EmptySet
<1> QED BY <1>2

\* A thread wins a section, the winner or a helper that may have to be counted.
LEMMA WinSectionStep ==
    ASSUME TypeOK, WordInv, BytesAccounted, Sections, Forwarded,
           NEW t \in Threads, t \notin Copiers, NEW joins \in BOOLEAN, WinSection(t, header.to, joins),
           UNCHANGED <<size, concurrent, header, copied>>, Copiers' = Copiers \cup {t},
           word[header.to].beingCopied, Remaining(word[header.to]) > 0,
           joins => Outstanding(word[header.to]) < MaxOutstanding
    PROVE  /\ SpaceType' /\ SectionType' /\ BytesAccounted'
           /\ word'[header.to].beingCopied
           /\ Outstanding(word'[header.to]) = Outstanding(word[header.to]) + IF joins THEN 1 ELSE 0
           /\ Outstanding(word'[header.to]) <= MaxOutstanding /\ Remaining(word'[header.to]) <= size
           /\ \A b \in copied'[header.to] : b >= Remaining(word'[header.to])
           /\ \A u \in Copiers' : section'[u].from >= Remaining(word'[header.to])
           /\ \A u \in Threads \ {header.to} : word'[u] = word[u]
           /\ \A u \in Threads \ {t} : section'[u] = section[u]
<1> DEFINE d == header.to
           r == Remaining(word[d])
           length == SectionOf(r, ((r \div 128) \div Alignment) * Alignment)
           o == Outstanding(word[d]) + IF joins THEN 1 ELSE 0
<1>1. /\ d \in Threads /\ r \in Nat /\ r % Alignment = 0 /\ r <= size /\ size \in Nat
      /\ Outstanding(word[d]) \in 0..(Alignment - 1) /\ o \in 0..(Alignment - 1) /\ o <= MaxOutstanding
  BY Destination, SizesAssumption, WordAssumption DEF WordInv, TypeOK, ObjectType
<1>2. length \in 1..r /\ r - length \in Nat /\ (r - length) % Alignment = 0
  BY <1>1, WinSectionIs
<1>3. /\ word' = [word EXCEPT ![d] = Progress(r - length, o)]
      /\ section' = [section EXCEPT ![t] = [from |-> r - length, length |-> length]]
  BY DEF WinSection
<1> HIDE DEF length, o
<1>4. /\ Progress(r - length, o) \in [beingCopied : BOOLEAN, value : Nat] /\ Progress(r - length, o).beingCopied
      /\ Remaining(Progress(r - length, o)) = r - length /\ Outstanding(Progress(r - length, o)) = o
  BY <1>1, <1>2, ProgressParts
<1>5. /\ word'[d] = Progress(r - length, o) /\ \A u \in Threads \ {d} : word'[u] = word[u]
      /\ \A u \in Threads \ {t} : section'[u] = section[u]
  BY <1>1, <1>3 DEF TypeOK, SpaceType, SectionType
<1>6. SpaceType'
  BY <1>1, <1>3, <1>4 DEF TypeOK, SpaceType, Bytes
<1>7. SectionType'
  BY <1>1, <1>2, <1>3 DEF TypeOK, SectionType
<1>8. /\ BytesAccounted'
      /\ \A b \in copied'[d] : b >= Remaining(word'[d])
      /\ \A u \in Copiers' : section'[u].from >= Remaining(word'[d])
  BY <1>2, <1>3, <1>4, <1>5, GiveOut
<1>9. Remaining(word'[d]) <= size /\ Outstanding(word'[d]) <= MaxOutstanding
  BY <1>1, <1>2, <1>4, <1>5
<1> QED BY <1>4, <1>5, <1>6, <1>7, <1>8, <1>9 DEF o

-----------------------------------------------------------------------------
(* The steps. *)

LEMMA Kinds ==
    ASSUME ObjectType
    PROVE  ~(Sections /\ Duplicates) /\ (concurrent <=> Sections \/ Duplicates)
  BY SizesAssumption DEF ObjectType, Sections, Duplicates

LEMMA InitIInv == Init => IInv
<1> SUFFICES ASSUME Init PROVE IInv
  OBVIOUS
<1> USE DEF Init
<1>1. header.tag = "plain"
  BY DEF Plain
<1>2. ObjectType
  <2>1. backOut \in BOOLEAN
    BY Zenon
  <2> QED BY <2>1, HeadersAre DEF ObjectType
<1>3. SpaceType /\ SectionType
  BY SizesAssumption, RestoredParts DEF SpaceType, SectionType, NoBytes
<1>4. LocalType
  <2>1. participating \in [Threads -> BOOLEAN]
    BY Zenon
  <2> QED BY <2>1, HeadersAre DEF LocalType
<1>5. HeaderInv /\ PlaceInv /\ SlotInv /\ SpaceInv
  BY <1>1 DEF HeaderInv, PlaceInv, SlotInv, SpaceInv, Forwarded, Winning, Plain
<1>6. WordInv /\ BytesAccounted /\ ParticipantsCounted
  BY <1>1 DEF WordInv, Forwarded, BytesAccounted, ParticipantsCounted
<1> QED BY <1>2, <1>3, <1>4, <1>5, <1>6 DEF IInv, TypeOK

LEMMA StartStep ==
    ASSUME IInv, NEW t \in Threads, Start(t)
    PROVE  IInv'
<1> USE ThreadsAssumption DEF IInv, Start, Goto, CopyOrWait, IsBeingCopied, Finish, objectVars, spaceVars
<1> /\ size' = size /\ concurrent' = concurrent /\ (Sections' <=> Sections) /\ (Duplicates' <=> Duplicates)
    /\ ~(Sections /\ Duplicates) /\ (concurrent <=> Sections \/ Duplicates)
  BY Kinds DEF TypeOK, Sections, Duplicates
<1>1. TypeOK'
  <2>1. ObjectType'
    BY DEF TypeOK, ObjectType
  <2>2. SpaceType' /\ SectionType'
    BY DEF TypeOK, ObjectType, SpaceType, SectionType, Bytes, NoBytes
  <2>3. LocalType'
    BY HeaderShape, HeadersAre DEF TypeOK, ObjectType, LocalType, Plain, SelfForwarded
  <2> QED BY <2>1, <2>2, <2>3 DEF TypeOK
<1>2. HeaderInv'
  BY HeaderShape DEF TypeOK, ObjectType, LocalType, HeaderInv, PlaceInv, Forwarded, Winning, Plain,
     SelfForwarded, ForwardedTo
<1>3. PlaceInv'
  <2>1. CASE header.tag = "forwarded" /\ header.hint
    <3>1. header.to \in Threads /\ pc[header.to] \in Winning /\ header.to # t /\ Sections
      BY <2>1, HeaderShape DEF TypeOK, ObjectType, LocalType, PlaceInv, HeaderInv, Forwarded,
         Winning
    <3>2. pc' = [pc EXCEPT ![t] = "help"] /\ preserved' = [preserved EXCEPT ![t] = header]
      BY <2>1
    <3> QED
      BY <2>1, <3>1, <3>2 DEF TypeOK, ObjectType, LocalType, PlaceInv, Forwarded, Winning, Plain,
         SelfForwarded, ForwardedTo
  <2>2. CASE header.tag = "forwarded" /\ ~header.hint
    <3>1. pc' = [pc EXCEPT ![t] = "done"] /\ preserved' = [preserved EXCEPT ![t] = header]
      BY <2>2
    <3> QED
      BY <2>2, <3>1 DEF TypeOK, ObjectType, LocalType, PlaceInv, Forwarded, Winning, Plain,
         SelfForwarded, ForwardedTo
  <2>3. CASE header.tag # "forwarded"
    <3>1. pc' = [pc EXCEPT ![t] = "check"] /\ preserved' = [preserved EXCEPT ![t] = header]
      BY <2>3
    <3> QED
      BY <2>3, <3>1, HeaderShape DEF TypeOK, ObjectType, LocalType, PlaceInv, Forwarded, Winning,
         Plain, SelfForwarded, ForwardedTo
  <2> QED BY <2>1, <2>2, <2>3
<1>4. SlotInv'
  BY HeaderShape DEF TypeOK, ObjectType, LocalType, HeaderInv, PlaceInv, SlotInv, WordInv,
     Forwarded, Winning, Plain, SelfForwarded, ForwardedTo
<1>5. SpaceInv'
  BY HeaderShape DEF TypeOK, ObjectType, SpaceType, SectionType, LocalType, HeaderInv, PlaceInv,
     SpaceInv, Bytes, Forwarded, Winning, Plain, SelfForwarded, ForwardedTo
<1>6. WordInv' /\ BytesAccounted' /\ ParticipantsCounted'
  <2>1. Copiers' = Copiers
    BY DEF TypeOK, LocalType, Copiers, PlaceInv
  <2> QED
    BY <2>1, Frame, HeaderShape DEF TypeOK, ObjectType, SpaceType, SectionType, LocalType, Copiers,
       HeaderInv, PlaceInv, Forwarded, Winning, Plain, SelfForwarded, ForwardedTo
<1> QED BY <1>1, <1>2, <1>3, <1>4, <1>5, <1>6

LEMMA CheckStep ==
    ASSUME IInv, NEW t \in Threads, Check(t)
    PROVE  IInv'
<1> USE ThreadsAssumption DEF IInv, Check, Goto, BackOutSeen, objectVars, spaceVars
<1> /\ size' = size /\ concurrent' = concurrent /\ (Sections' <=> Sections) /\ (Duplicates' <=> Duplicates)
    /\ ~(Sections /\ Duplicates) /\ (concurrent <=> Sections \/ Duplicates)
  BY Kinds DEF TypeOK, Sections, Duplicates
<1>1. TypeOK'
  <2>1. ObjectType'
    BY DEF TypeOK, ObjectType
  <2>2. SpaceType' /\ SectionType'
    BY DEF TypeOK, ObjectType, SpaceType, SectionType, Bytes, NoBytes
  <2>3. LocalType'
    BY HeaderShape, HeadersAre DEF TypeOK, ObjectType, LocalType, Plain, SelfForwarded
  <2> QED BY <2>1, <2>2, <2>3 DEF TypeOK
<1>2. HeaderInv'
  BY HeaderShape DEF TypeOK, ObjectType, LocalType, HeaderInv, PlaceInv, Forwarded, Winning, Plain,
     SelfForwarded, ForwardedTo
<1>3. PlaceInv'
  BY HeaderShape DEF TypeOK, ObjectType, LocalType, HeaderInv, PlaceInv, Forwarded, Winning, Plain,
     SelfForwarded, ForwardedTo
<1>4. SlotInv'
  BY HeaderShape DEF TypeOK, ObjectType, LocalType, HeaderInv, PlaceInv, SlotInv, WordInv,
     Forwarded, Winning, Plain, SelfForwarded, ForwardedTo
<1>5. SpaceInv'
  BY HeaderShape DEF TypeOK, ObjectType, SpaceType, SectionType, LocalType, HeaderInv, PlaceInv,
     SpaceInv, Bytes, Forwarded, Winning, Plain, SelfForwarded, ForwardedTo
<1>6. WordInv' /\ BytesAccounted' /\ ParticipantsCounted'
  <2>1. Copiers' = Copiers
    BY DEF TypeOK, LocalType, Copiers, PlaceInv
  <2> QED
    BY <2>1, Frame, HeaderShape DEF TypeOK, ObjectType, SpaceType, SectionType, LocalType, Copiers,
       HeaderInv, PlaceInv, Forwarded, Winning, Plain, SelfForwarded, ForwardedTo
<1> QED BY <1>1, <1>2, <1>3, <1>4, <1>5, <1>6

LEMMA ReserveStep ==
    ASSUME IInv, NEW t \in Threads, Reserve(t)
    PROVE  IInv'
<1> USE ThreadsAssumption DEF IInv, Reserve, Goto, CopySetup, objectVars, spaceVars
<1> /\ size' = size /\ concurrent' = concurrent /\ (Sections' <=> Sections) /\ (Duplicates' <=> Duplicates)
    /\ ~(Sections /\ Duplicates) /\ (concurrent <=> Sections \/ Duplicates)
  BY Kinds DEF TypeOK, Sections, Duplicates
<1>1. TypeOK'
  <2>1. ObjectType'
    BY DEF TypeOK, ObjectType
  <2>2. SpaceType' /\ SectionType'
    <3>1. FirstSection(size) \in 0..size /\ (size - FirstSection(size)) % Alignment = 0 /\ size \in Nat
      BY FirstSectionIs, SizesAssumption DEF TypeOK, ObjectType
    <3>2. Progress(size - FirstSection(size), 0) \in [beingCopied : BOOLEAN, value : Nat]
      BY <3>1, ProgressParts, WordAssumption
    <3>3. CASE word' = word /\ section' = section
      BY <3>3 DEF TypeOK, SpaceType, SectionType, Bytes
    <3>4. CASE CopySetup(t)
      BY <3>1, <3>2, <3>4 DEF TypeOK, SpaceType, SectionType, Bytes
    <3> QED BY <3>3, <3>4
  <2>3. LocalType'
    BY HeaderShape, HeadersAre DEF TypeOK, ObjectType, LocalType, Plain, SelfForwarded
  <2> QED BY <2>1, <2>2, <2>3 DEF TypeOK
<1>2. HeaderInv'
  BY HeaderShape DEF TypeOK, ObjectType, LocalType, HeaderInv, PlaceInv, Forwarded, Winning, Plain,
     SelfForwarded, ForwardedTo
<1>3. PlaceInv'
  BY HeaderShape DEF TypeOK, ObjectType, LocalType, HeaderInv, PlaceInv, Forwarded, Winning, Plain,
     SelfForwarded, ForwardedTo
<1>4. SlotInv'
  BY HeaderShape DEF TypeOK, ObjectType, LocalType, HeaderInv, PlaceInv, SlotInv, WordInv,
     Forwarded, Winning, Plain, SelfForwarded, ForwardedTo
<1>5. SpaceInv'
  <2>1. FirstSection(size) \in 0..size /\ (size - FirstSection(size)) % Alignment = 0 /\ size \in Nat
    BY FirstSectionIs, SizesAssumption DEF TypeOK, ObjectType
  <2>2. ~Forwarded \/ header.to # t
    BY DEF HeaderInv, Winning
  <2>4. CASE ~Sections
    BY <2>4 DEF TypeOK, ObjectType, SpaceType, SectionType, LocalType, PlaceInv, SpaceInv,
       Forwarded, Bytes
  <2>5. CASE Sections
    BY <2>1, <2>2, <2>5 DEF TypeOK, ObjectType, SpaceType, SectionType, LocalType, PlaceInv,
       SpaceInv, Forwarded, Bytes
  <2> QED BY <2>4, <2>5
<1>6. WordInv' /\ BytesAccounted' /\ ParticipantsCounted'
  <2>1. Copiers' = Copiers
    BY DEF TypeOK, LocalType, Copiers, PlaceInv
  <2> QED
    BY <2>1, Frame, HeaderShape DEF TypeOK, ObjectType, SpaceType, SectionType, LocalType, Copiers,
       HeaderInv, PlaceInv, Forwarded, Winning, Plain, SelfForwarded, ForwardedTo
<1> QED BY <1>1, <1>2, <1>3, <1>4, <1>5, <1>6

LEMMA MemcpyStep ==
    ASSUME IInv, NEW t \in Threads, Memcpy(t)
    PROVE  IInv'
<1> USE ThreadsAssumption DEF IInv, Memcpy, Goto, Finish, objectVars, spaceVars
<1> /\ size' = size /\ concurrent' = concurrent /\ (Sections' <=> Sections) /\ (Duplicates' <=> Duplicates)
    /\ ~(Sections /\ Duplicates) /\ (concurrent <=> Sections \/ Duplicates)
  BY Kinds DEF TypeOK, Sections, Duplicates
<1>1. TypeOK'
  <2>1. ObjectType'
    BY DEF TypeOK, ObjectType
  <2>2. SpaceType' /\ SectionType'
    BY DEF TypeOK, ObjectType, SpaceType, SectionType, Bytes, NoBytes
  <2>3. LocalType'
    BY HeaderShape, HeadersAre DEF TypeOK, ObjectType, LocalType, Plain, SelfForwarded
  <2> QED BY <2>1, <2>2, <2>3 DEF TypeOK
<1>2. HeaderInv'
  BY HeaderShape DEF TypeOK, ObjectType, LocalType, HeaderInv, PlaceInv, Forwarded, Winning, Plain,
     SelfForwarded, ForwardedTo
<1>3. PlaceInv'
  BY HeaderShape DEF TypeOK, ObjectType, LocalType, HeaderInv, PlaceInv, Forwarded, Winning, Plain,
     SelfForwarded, ForwardedTo
<1>4. SlotInv'
  BY HeaderShape DEF TypeOK, ObjectType, LocalType, HeaderInv, PlaceInv, SlotInv, WordInv,
     Forwarded, Winning, Plain, SelfForwarded, ForwardedTo
<1>5. SpaceInv'
  BY HeaderShape DEF TypeOK, ObjectType, SpaceType, SectionType, LocalType, HeaderInv, PlaceInv,
     SpaceInv, Bytes, Forwarded, Winning, Plain, SelfForwarded, ForwardedTo
<1>6. WordInv' /\ BytesAccounted' /\ ParticipantsCounted'
  <2>1. Copiers' = Copiers
    BY DEF TypeOK, LocalType, Copiers, PlaceInv
  <2> QED
    BY <2>1, Frame, HeaderShape DEF TypeOK, ObjectType, SpaceType, SectionType, LocalType, Copiers,
       HeaderInv, PlaceInv, Forwarded, Winning, Plain, SelfForwarded, ForwardedTo
<1> QED BY <1>1, <1>2, <1>3, <1>4, <1>5, <1>6

LEMMA ForwardWinsStep ==
    ASSUME IInv, NEW t \in Threads, ForwardWins(t)
    PROVE  IInv'
<1> USE ThreadsAssumption DEF IInv, ForwardWins, Goto, Finish, objectVars, spaceVars
<1> /\ size' = size /\ concurrent' = concurrent /\ (Sections' <=> Sections) /\ (Duplicates' <=> Duplicates)
    /\ ~(Sections /\ Duplicates) /\ (concurrent <=> Sections \/ Duplicates)
  BY Kinds DEF TypeOK, Sections, Duplicates
<1>1. TypeOK'
  <2>1. ObjectType'
    <3>1. header' \in Headers
      BY HeadersAre DEF Sections
    <3> QED BY <3>1 DEF TypeOK, ObjectType
  <2>2. SpaceType' /\ SectionType'
    BY DEF TypeOK, ObjectType, SpaceType, SectionType, Bytes, NoBytes
  <2>3. LocalType'
    <3>1. CASE Duplicates
      BY <3>1 DEF TypeOK, ObjectType, LocalType
    <3>2. CASE ~Duplicates /\ Sections
      BY <3>2 DEF TypeOK, ObjectType, LocalType
    <3>3. CASE ~Duplicates /\ ~Sections
      BY <3>3 DEF TypeOK, ObjectType, LocalType
    <3> QED BY <3>1, <3>2, <3>3
  <2> QED BY <2>1, <2>2, <2>3 DEF TypeOK
<1>2. HeaderInv'
  BY HeaderShape DEF TypeOK, ObjectType, LocalType, HeaderInv, PlaceInv, Forwarded, Winning, Plain,
     SelfForwarded, ForwardedTo
<1>3. PlaceInv'
  BY HeaderShape DEF TypeOK, ObjectType, LocalType, HeaderInv, PlaceInv, Forwarded, Winning, Plain,
     SelfForwarded, ForwardedTo
<1>4. SlotInv'
  BY HeaderShape DEF TypeOK, ObjectType, LocalType, HeaderInv, PlaceInv, SlotInv, WordInv,
     Forwarded, Winning, Plain, SelfForwarded, ForwardedTo
<1>5. SpaceInv'
  BY HeaderShape DEF TypeOK, ObjectType, SpaceType, SectionType, LocalType, HeaderInv, PlaceInv,
     SpaceInv, Bytes, Forwarded, Winning, Plain, SelfForwarded, ForwardedTo
<1>6. WordInv' /\ BytesAccounted' /\ ParticipantsCounted'
  <2>1. CASE ~Sections
    BY <2>1 DEF WordInv, BytesAccounted, ParticipantsCounted
  <2>2. CASE Sections
    <3>1. ~Forwarded /\ Forwarded' /\ header'.to = t
      BY DEF PlaceInv, Forwarded, Plain, ForwardedTo
    <3>2. pc' = [pc EXCEPT ![t] = "first"] /\ Copiers' = {t}
      BY <2>2, <3>1 DEF TypeOK, LocalType, Copiers, PlaceInv, Winning
    <3>3. /\ word' = word /\ section' = section /\ copied' = copied /\ copied[t] = {}
          /\ section[t].from \in Nat /\ section[t].length \in Nat /\ size \in Nat
          /\ section[t].from + section[t].length = size /\ section[t].from % Alignment = 0
          /\ word[t] = Progress(section[t].from, 0)
      BY <2>2, <3>1, SizesAssumption DEF TypeOK, ObjectType, SpaceType, SectionType, LocalType,
         SpaceInv
    <3>4. /\ Remaining(word[t]) = section[t].from /\ Outstanding(word[t]) = 0 /\ word[t].beingCopied
      BY <3>3, ProgressParts, WordAssumption
    <3>a. /\ Remaining(word[header.to])' = section[t].from /\ Outstanding(word[header.to])' = 0
          /\ word'[header'.to].beingCopied /\ pc'[t] = "first"
      BY <3>1, <3>2, <3>3, <3>4 DEF Remaining, Outstanding, TypeOK, LocalType
    <3>5. WordInv'
      BY <3>1, <3>2, <3>3, <3>a, WordAssumption DEF WordInv
    <3>6. BytesOf(section[t]) = section[t].from..(size - 1) /\ Bytes = 0..(size - 1)
      BY <3>3 DEF BytesOf, Bytes
    <3>7. BytesAccounted'
      <4>1. BytesOf(section[t])' = section[t].from..(size - 1) /\ Bytes' = 0..(size - 1) /\ copied'[t] = {}
        BY <3>3, <3>6 DEF BytesOf, Bytes
      <4>2. 0..(size - 1) = (0..(section[t].from - 1)) \cup (section[t].from..(size - 1))
        BY <3>3
      <4>3. (0..(section[t].from - 1)) \cap (section[t].from..(size - 1)) = {}
        BY <3>3
      <4> QED BY <3>1, <3>2, <3>3, <3>a, <4>1, <4>2, <4>3 DEF BytesAccounted
    <3>8. \A u \in Threads : ~participating[u]
      BY <3>1 DEF PlaceInv
    <3>9. Cardinality({u \in Threads : participating[u]}) = 0
      BY <3>8, FS_EmptySet
    <3>10. ParticipantsCounted'
      BY <3>1, <3>3, <3>4, <3>9 DEF ParticipantsCounted, Outstanding
    <3> QED BY <3>5, <3>7, <3>10
  <2> QED BY <2>1, <2>2
<1> QED BY <1>1, <1>2, <1>3, <1>4, <1>5, <1>6

LEMMA ForwardLosesStep ==
    ASSUME IInv, NEW t \in Threads, ForwardLoses(t)
    PROVE  IInv'
<1> USE ThreadsAssumption DEF IInv, ForwardLoses, Goto, CopyOrWait, IsBeingCopied, Finish, objectVars, spaceVars
<1> /\ size' = size /\ concurrent' = concurrent /\ (Sections' <=> Sections) /\ (Duplicates' <=> Duplicates)
    /\ ~(Sections /\ Duplicates) /\ (concurrent <=> Sections \/ Duplicates)
  BY Kinds DEF TypeOK, Sections, Duplicates
<1>1. TypeOK'
  <2>1. ObjectType'
    BY DEF TypeOK, ObjectType
  <2>2. SpaceType' /\ SectionType'
    BY SizesAssumption DEF TypeOK, ObjectType, SpaceType, SectionType, Bytes, NoBytes
  <2>3. LocalType'
    BY HeaderShape, HeadersAre DEF TypeOK, ObjectType, LocalType, Plain, SelfForwarded
  <2> QED BY <2>1, <2>2, <2>3 DEF TypeOK
<1>2. HeaderInv'
  BY HeaderShape DEF TypeOK, ObjectType, LocalType, HeaderInv, PlaceInv, Forwarded, Winning, Plain,
     SelfForwarded, ForwardedTo
<1>3. PlaceInv'
  BY HeaderShape DEF TypeOK, ObjectType, LocalType, HeaderInv, PlaceInv, Forwarded, Winning, Plain,
     SelfForwarded, ForwardedTo
<1>4. SlotInv'
  BY HeaderShape DEF TypeOK, ObjectType, LocalType, HeaderInv, PlaceInv, SlotInv, WordInv,
     Forwarded, Winning, Plain, SelfForwarded, ForwardedTo
<1>5. SpaceInv'
  BY HeaderShape DEF TypeOK, ObjectType, SpaceType, SectionType, LocalType, HeaderInv, PlaceInv,
     SpaceInv, Bytes, Forwarded, Winning, Plain, SelfForwarded, ForwardedTo
<1>6. WordInv' /\ BytesAccounted' /\ ParticipantsCounted'
  <2>1. Copiers' = Copiers
    BY DEF TypeOK, LocalType, Copiers, PlaceInv
  <2> QED
    BY <2>1, Frame, HeaderShape DEF TypeOK, ObjectType, SpaceType, SectionType, LocalType, Copiers,
       HeaderInv, PlaceInv, Forwarded, Winning, Plain, SelfForwarded, ForwardedTo
<1> QED BY <1>1, <1>2, <1>3, <1>4, <1>5, <1>6

LEMMA FailStep ==
    ASSUME IInv, NEW t \in Threads, Fail(t)
    PROVE  IInv'
<1> USE ThreadsAssumption DEF IInv, Fail, Goto, StillUnforwarded, CopyOrWait, IsBeingCopied, Finish, objectVars, spaceVars
<1> /\ size' = size /\ concurrent' = concurrent /\ (Sections' <=> Sections) /\ (Duplicates' <=> Duplicates)
    /\ ~(Sections /\ Duplicates) /\ (concurrent <=> Sections \/ Duplicates)
  BY Kinds DEF TypeOK, Sections, Duplicates
<1>1. TypeOK'
  <2>1. ObjectType'
    <3>1. header' \in Headers
      BY HeadersAre DEF TypeOK, ObjectType
    <3> QED BY <3>1 DEF TypeOK, ObjectType
  <2>2. SpaceType' /\ SectionType'
    BY DEF TypeOK, ObjectType, SpaceType, SectionType, Bytes, NoBytes
  <2>3. LocalType'
    <3>1. header.to \in Threads \cup {Original, NoPlace}
      BY HeaderShape DEF TypeOK, ObjectType, Plain, SelfForwarded
    <3>2. /\ pc' \in {[pc EXCEPT ![t] = "done"], [pc EXCEPT ![t] = "help"]}
          /\ slot' \in {slot, [slot EXCEPT ![t] = Original], [slot EXCEPT ![t] = header.to]}
      OBVIOUS
    <3> QED BY <3>1, <3>2 DEF TypeOK, ObjectType, LocalType
  <2> QED BY <2>1, <2>2, <2>3 DEF TypeOK
<1>2. HeaderInv'
  BY HeaderShape DEF TypeOK, ObjectType, LocalType, HeaderInv, PlaceInv, Forwarded, Winning, Plain,
     SelfForwarded, ForwardedTo
<1>3. PlaceInv'
  BY HeaderShape DEF TypeOK, ObjectType, LocalType, HeaderInv, PlaceInv, Forwarded, Winning, Plain,
     SelfForwarded, ForwardedTo
<1>4. SlotInv'
  <2>1. CASE ~concurrent
    BY <2>1 DEF TypeOK, ObjectType, LocalType, HeaderInv, PlaceInv, SlotInv, Forwarded, Winning,
       Plain, SelfForwarded, ForwardedTo
  <2>2. CASE concurrent /\ header = preserved[t]
    <3>1. header.tag # "forwarded" /\ header' = SelfForwarded
      BY <2>2 DEF PlaceInv
    <3> QED
      BY <2>2, <3>1, HeaderShape DEF TypeOK, ObjectType, LocalType, SlotInv, Forwarded, Winning,
         Plain, SelfForwarded, ForwardedTo
  <2>3. CASE concurrent /\ header # preserved[t]
    <3>1. header = SelfForwarded \/ Forwarded
      <4>1. header \in Headers /\ preserved[t] \in Headers
        BY DEF TypeOK, ObjectType, LocalType
      <4>2. preserved[t] = Plain \/ preserved[t] = SelfForwarded
        BY <4>1, HeaderShape DEF PlaceInv
      <4>3. preserved[t] = SelfForwarded => header = SelfForwarded
        BY DEF PlaceInv, SelfForwarded
      <4> QED BY <2>3, <4>1, <4>2, <4>3, HeaderShape DEF Forwarded
    <3>2. CASE header = SelfForwarded
      BY <2>3, <3>2 DEF TypeOK, ObjectType, LocalType, SlotInv, Forwarded, Winning, Plain,
         SelfForwarded, ForwardedTo
    <3>3. CASE Forwarded
      BY <2>3, <3>3, HeaderShape DEF TypeOK, ObjectType, LocalType, HeaderInv, PlaceInv, SlotInv,
         Forwarded, Winning, Plain, SelfForwarded, ForwardedTo
    <3> QED BY <3>1, <3>2, <3>3
  <2> QED BY <2>1, <2>2, <2>3
<1>5. SpaceInv'
  BY HeaderShape DEF TypeOK, ObjectType, SpaceType, SectionType, LocalType, HeaderInv, PlaceInv,
     SpaceInv, Bytes, Forwarded, Winning, Plain, SelfForwarded, ForwardedTo
<1>6. WordInv' /\ BytesAccounted' /\ ParticipantsCounted'
  <2>1. Copiers' = Copiers
    BY DEF TypeOK, LocalType, Copiers, PlaceInv
  <2> QED
    BY <2>1, Frame, HeaderShape DEF TypeOK, ObjectType, SpaceType, SectionType, LocalType, Copiers,
       HeaderInv, PlaceInv, Forwarded, Winning, Plain, SelfForwarded, ForwardedTo
<1> QED BY <1>1, <1>2, <1>3, <1>4, <1>5, <1>6

LEMMA WinnerCopiesStep ==
    ASSUME IInv, NEW t \in Threads, WinnerCopies(t)
    PROVE  IInv'
<1> USE ThreadsAssumption DEF IInv, WinnerCopies, Goto, CopySection, objectVars, spaceVars
<1> /\ size' = size /\ concurrent' = concurrent /\ (Sections' <=> Sections) /\ (Duplicates' <=> Duplicates)
    /\ ~(Sections /\ Duplicates) /\ (concurrent <=> Sections \/ Duplicates)
  BY Kinds DEF TypeOK, Sections, Duplicates
<1>0. /\ Sections /\ Forwarded /\ header.to = t /\ header' = header
      /\ Forwarded' /\ header'.to = t /\ size \in Nat
  BY SizesAssumption DEF TypeOK, ObjectType, PlaceInv, Winning, Forwarded
<1>a. t \in Copiers /\ Copiers' = Copiers \ {t}
  BY DEF TypeOK, LocalType, Copiers
<1>b. /\ BytesAccounted' /\ copied' \in [Threads -> SUBSET Bytes]
      /\ \A b \in copied'[t] : b >= Remaining(word[t])
      /\ \A u \in Copiers' : section'[u].from >= Remaining(word[t])
  <2>1. CopySection(t, header.to)
    BY <1>0
  <2>2. UNCHANGED <<size, concurrent, header, word>>
    OBVIOUS
  <2> HIDE DEF CopySection, WinnerCopies
  <2> QED BY <1>0, <1>a, <2>1, <2>2, TakeIn
<1>1. TypeOK'
  <2>1. ObjectType'
    BY DEF TypeOK, ObjectType
  <2>2. SpaceType' /\ SectionType'
    BY <1>0, <1>b DEF TypeOK, SpaceType, SectionType, Bytes, NoBytes
  <2>3. LocalType'
    BY HeaderShape, HeadersAre DEF TypeOK, ObjectType, LocalType, Plain, SelfForwarded
  <2> QED BY <2>1, <2>2, <2>3 DEF TypeOK
<1>2. HeaderInv'
  BY HeaderShape DEF TypeOK, ObjectType, LocalType, HeaderInv, PlaceInv, Forwarded, Winning, Plain,
     SelfForwarded, ForwardedTo
<1>3. PlaceInv'
  BY HeaderShape DEF TypeOK, ObjectType, LocalType, HeaderInv, PlaceInv, Forwarded, Winning, Plain,
     SelfForwarded, ForwardedTo
<1>4. SlotInv'
  BY HeaderShape DEF TypeOK, ObjectType, LocalType, HeaderInv, PlaceInv, SlotInv, WordInv,
     Forwarded, Winning, Plain, SelfForwarded, ForwardedTo
<1>5. SpaceInv'
  BY HeaderShape DEF TypeOK, ObjectType, SpaceType, SectionType, LocalType, HeaderInv, PlaceInv,
     SpaceInv, Bytes, Forwarded, Winning, Plain, SelfForwarded, ForwardedTo
<1>6. WordInv' /\ BytesAccounted' /\ ParticipantsCounted'
  <2>1. WordInv'
    BY <1>0, <1>b DEF TypeOK, LocalType, WordInv, Remaining, Outstanding
  <2>2. ParticipantsCounted'
    BY <1>0 DEF ParticipantsCounted, Outstanding
  <2> QED BY <2>1, <2>2, <1>b
<1> QED BY <1>1, <1>2, <1>3, <1>4, <1>5, <1>6

LEMMA WinnerStep ==
    ASSUME IInv, NEW t \in Threads, Winner(t)
    PROVE  IInv'
<1> USE ThreadsAssumption DEF IInv, Winner, Goto, WinSection, AllCopied, objectVars, spaceVars
<1> /\ size' = size /\ concurrent' = concurrent /\ (Sections' <=> Sections) /\ (Duplicates' <=> Duplicates)
    /\ ~(Sections /\ Duplicates) /\ (concurrent <=> Sections \/ Duplicates)
  BY Kinds DEF TypeOK, Sections, Duplicates
<1>0. /\ Sections /\ Forwarded /\ header.to = t /\ header' = header
      /\ Forwarded' /\ header'.to = t /\ size \in Nat
  BY SizesAssumption DEF TypeOK, ObjectType, PlaceInv, Winning, Forwarded
<1>a. ASSUME WinSection(t, t, FALSE), Remaining(word[t]) > 0, pc' = [pc EXCEPT ![t] = "copy"]
     PROVE
      /\ SpaceType' /\ SectionType' /\ BytesAccounted'
      /\ word'[t].beingCopied /\ Outstanding(word'[t]) = Outstanding(word[t])
      /\ Outstanding(word'[t]) <= MaxOutstanding /\ Remaining(word'[t]) <= size
      /\ \A b \in copied'[t] : b >= Remaining(word'[t])
      /\ \A u \in Copiers' : section'[u].from >= Remaining(word'[t])
      /\ \A u \in Threads \ {t} : word'[u] = word[u] /\ section'[u] = section[u]
  <2>1. t \notin Copiers /\ Copiers' = Copiers \cup {t}
    BY <1>a DEF TypeOK, LocalType, Copiers
  <2>2. word[t].beingCopied
    BY <1>0 DEF WordInv
  <2>3. Outstanding(word[t]) \in Nat /\ UNCHANGED <<size, concurrent, header, copied>>
    BY <1>0, Destination
  <2>4. FALSE \in BOOLEAN /\ WinSection(t, header.to, FALSE)
    BY <1>0, <1>a
  <2> HIDE DEF WinSection, Winner
  <2>5. /\ SpaceType' /\ SectionType' /\ BytesAccounted' /\ word'[t].beingCopied
        /\ Outstanding(word'[t]) = Outstanding(word[t]) + IF FALSE THEN 1 ELSE 0
        /\ Outstanding(word'[t]) <= MaxOutstanding /\ Remaining(word'[t]) <= size
        /\ \A b \in copied'[t] : b >= Remaining(word'[t])
        /\ \A u \in Copiers' : section'[u].from >= Remaining(word'[t])
        /\ \A u \in Threads \ {t} : word'[u] = word[u]
        /\ \A u \in Threads \ {t} : section'[u] = section[u]
    BY <1>0, <1>a, <2>1, <2>2, <2>3, <2>4, WinSectionStep
  <2> QED BY <2>3, <2>5
<1>b. \/ WinSection(t, t, FALSE) /\ Remaining(word[t]) > 0 /\ pc' = [pc EXCEPT ![t] = "copy"]
      \/ /\ Remaining(word[t]) = 0 /\ Outstanding(word[t]) = 0 /\ word' = word /\ section' = section
         /\ pc' = [pc EXCEPT ![t] = "commence"]
  OBVIOUS
<1>c. /\ pc'[t] \in {"copy", "commence"} /\ \A u \in Threads \ {t} : pc'[u] = pc[u]
      /\ UNCHANGED <<header, backOut, preserved, slot, participating, copied>>
  BY <1>b DEF TypeOK, LocalType
<1>d. \A u \in Threads \ {t} : word'[u] = word[u] /\ section'[u] = section[u]
  BY <1>a, <1>b
<1> HIDE DEF WinSection
<1>1. TypeOK'
  <2>1. ObjectType'
    BY DEF TypeOK, ObjectType
  <2>2. SpaceType' /\ SectionType'
    <3>1. CASE word' = word /\ section' = section
      BY <3>1 DEF TypeOK, SpaceType, SectionType, Bytes
    <3> QED BY <1>a, <1>b, <3>1
  <2>3. LocalType'
    BY <1>b DEF TypeOK, ObjectType, LocalType
  <2> QED BY <2>1, <2>2, <2>3 DEF TypeOK
<1>2. HeaderInv'
  BY <1>0, <1>c DEF HeaderInv, Forwarded, Winning
<1>3. PlaceInv'
  BY <1>0, <1>c DEF PlaceInv, Forwarded, Winning
<1>4. SlotInv'
  BY <1>0, <1>c DEF SlotInv, Forwarded
<1>5. SpaceInv'
  BY <1>0, <1>c, <1>d DEF SpaceInv, Forwarded, Bytes
<1>6. WordInv' /\ BytesAccounted' /\ ParticipantsCounted'
  <2>1. CASE WinSection(t, t, FALSE) /\ Remaining(word[t]) > 0 /\ pc' = [pc EXCEPT ![t] = "copy"]
    <3>1. pc'[t] = "copy"
      BY <2>1 DEF TypeOK, LocalType
    <3>2. WordInv'
      BY <1>0, <1>a, <2>1, <3>1 DEF WordInv
    <3>3. ParticipantsCounted'
      BY <1>0, <1>a, <2>1 DEF ParticipantsCounted, Forwarded
    <3> QED BY <1>a, <2>1, <3>2, <3>3
  <2>2. CASE /\ Remaining(word[t]) = 0 /\ Outstanding(word[t]) = 0 /\ word' = word /\ section' = section
             /\ pc' = [pc EXCEPT ![t] = "commence"]
    <3>1. Copiers' = Copiers /\ pc'[t] = "commence" /\ word[t].value = 0
      BY <1>0, <2>2, Destination DEF TypeOK, LocalType, Copiers
    <3>2. WordInv'
      BY <1>0, <2>2, <3>1 DEF WordInv, Remaining, Outstanding
    <3>3. ParticipantsCounted'
      BY <1>0, <2>2 DEF ParticipantsCounted, Outstanding
    <3>4. BytesAccounted'
      BY <1>0, <2>2, <3>1 DEF BytesAccounted, Bytes, BytesOf, Remaining
    <3> QED BY <3>2, <3>3, <3>4
  <2> QED BY <1>b, <2>1, <2>2
<1> QED BY <1>1, <1>2, <1>3, <1>4, <1>5, <1>6

LEMMA CommenceFixupStep ==
    ASSUME IInv, NEW t \in Threads, CommenceFixup(t)
    PROVE  IInv'
<1> USE ThreadsAssumption DEF IInv, CommenceFixup, Goto, objectVars, spaceVars
<1> /\ size' = size /\ concurrent' = concurrent /\ (Sections' <=> Sections) /\ (Duplicates' <=> Duplicates)
    /\ ~(Sections /\ Duplicates) /\ (concurrent <=> Sections \/ Duplicates)
  BY Kinds DEF TypeOK, Sections, Duplicates
<1>0. /\ Sections /\ Forwarded /\ header.to = t /\ header' = header
      /\ Forwarded' /\ header'.to = t /\ size \in Nat
  BY SizesAssumption DEF TypeOK, ObjectType, PlaceInv, Winning, Forwarded
<1>a. word[t] = Progress(0, 0) /\ Progress(0, 0) \in [beingCopied : BOOLEAN, value : Nat]
  <2>1. word[t].value = 0 /\ word[t].beingCopied /\ word[t] \in [beingCopied : BOOLEAN, value : Nat]
    BY <1>0, Destination DEF WordInv
  <2>2. word[t] = [beingCopied |-> word[t].beingCopied, value |-> word[t].value]
    BY <2>1
  <2>3. word[t].beingCopied = TRUE
    BY <2>1, Zenon
  <2>4. 0 + 0 = 0
    OBVIOUS
  <2>5. word[t] = Progress(0, 0)
    BY <2>1, <2>2, <2>3, <2>4, Zenon DEF Progress
  <2> QED BY <2>1, <2>5
<1>b. word' = word
  BY <1>a DEF TypeOK, SpaceType
<1>1. TypeOK'
  <2>1. ObjectType'
    BY DEF TypeOK, ObjectType
  <2>2. SpaceType' /\ SectionType'
    BY <1>b DEF TypeOK, SpaceType, SectionType, Bytes
  <2>3. LocalType'
    BY HeaderShape, HeadersAre DEF TypeOK, ObjectType, LocalType, Plain, SelfForwarded
  <2> QED BY <2>1, <2>2, <2>3 DEF TypeOK
<1>2. HeaderInv'
  BY HeaderShape DEF TypeOK, ObjectType, LocalType, HeaderInv, PlaceInv, Forwarded, Winning, Plain,
     SelfForwarded, ForwardedTo
<1>3. PlaceInv'
  BY HeaderShape DEF TypeOK, ObjectType, LocalType, HeaderInv, PlaceInv, Forwarded, Winning, Plain,
     SelfForwarded, ForwardedTo
<1>4. SlotInv'
  BY HeaderShape DEF TypeOK, ObjectType, LocalType, HeaderInv, PlaceInv, SlotInv, WordInv,
     Forwarded, Winning, Plain, SelfForwarded, ForwardedTo
<1>5. SpaceInv'
  BY HeaderShape DEF TypeOK, ObjectType, SpaceType, SectionType, LocalType, HeaderInv, PlaceInv,
     SpaceInv, Bytes, Forwarded, Winning, Plain, SelfForwarded, ForwardedTo
<1>6. WordInv' /\ BytesAccounted' /\ ParticipantsCounted'
  <2>1. Copiers' = Copiers
    BY DEF TypeOK, LocalType, Copiers
  <2>2. pc'[t] = "commit"
    BY DEF TypeOK, LocalType
  <2> QED BY <1>0, <1>b, <2>1, <2>2, Frame
<1> QED BY <1>1, <1>2, <1>3, <1>4, <1>5, <1>6

LEMMA CommitFixupStep ==
    ASSUME IInv, NEW t \in Threads, CommitFixup(t)
    PROVE  IInv'
<1> USE ThreadsAssumption DEF IInv, CommitFixup, Goto, objectVars, spaceVars
<1> /\ size' = size /\ concurrent' = concurrent /\ (Sections' <=> Sections) /\ (Duplicates' <=> Duplicates)
    /\ ~(Sections /\ Duplicates) /\ (concurrent <=> Sections \/ Duplicates)
  BY Kinds DEF TypeOK, Sections, Duplicates
<1>0. /\ Sections /\ Forwarded /\ header.to = t /\ header' = header
      /\ Forwarded' /\ header'.to = t /\ size \in Nat
  BY SizesAssumption DEF TypeOK, ObjectType, PlaceInv, Winning, Forwarded
<1>a. word[t] = Progress(0, 0) /\ Progress(0, 0) \in [beingCopied : BOOLEAN, value : Nat]
  <2>1. word[t].value = 0 /\ word[t].beingCopied /\ word[t] \in [beingCopied : BOOLEAN, value : Nat]
    BY <1>0, Destination DEF WordInv
  <2>2. word[t] = [beingCopied |-> word[t].beingCopied, value |-> word[t].value]
    BY <2>1
  <2>3. word[t].beingCopied = TRUE
    BY <2>1, Zenon
  <2>4. 0 + 0 = 0
    OBVIOUS
  <2>5. word[t] = Progress(0, 0)
    BY <2>1, <2>2, <2>3, <2>4, Zenon DEF Progress
  <2> QED BY <2>1, <2>5
<1>b. word' \in [Threads -> [beingCopied : BOOLEAN, value : Nat]] /\ word'[t] = Restored
  BY RestoredParts DEF TypeOK, SpaceType
<1>1. TypeOK'
  <2>1. ObjectType'
    BY DEF TypeOK, ObjectType
  <2>2. SpaceType' /\ SectionType'
    BY <1>b DEF TypeOK, SpaceType, SectionType, Bytes
  <2>3. LocalType'
    BY HeaderShape, HeadersAre DEF TypeOK, ObjectType, LocalType, Plain, SelfForwarded
  <2> QED BY <2>1, <2>2, <2>3 DEF TypeOK
<1>2. HeaderInv'
  BY HeaderShape DEF TypeOK, ObjectType, LocalType, HeaderInv, PlaceInv, Forwarded, Winning, Plain,
     SelfForwarded, ForwardedTo
<1>3. PlaceInv'
  BY HeaderShape DEF TypeOK, ObjectType, LocalType, HeaderInv, PlaceInv, Forwarded, Winning, Plain,
     SelfForwarded, ForwardedTo
<1>4. SlotInv'
  BY HeaderShape DEF TypeOK, ObjectType, LocalType, HeaderInv, PlaceInv, SlotInv, WordInv,
     Forwarded, Winning, Plain, SelfForwarded, ForwardedTo
<1>5. SpaceInv'
  BY HeaderShape DEF TypeOK, ObjectType, SpaceType, SectionType, LocalType, HeaderInv, PlaceInv,
     SpaceInv, Bytes, Forwarded, Winning, Plain, SelfForwarded, ForwardedTo
<1>6. WordInv' /\ BytesAccounted' /\ ParticipantsCounted'
  <2>1. Copiers' = Copiers /\ pc'[t] = "unhint"
    BY DEF TypeOK, LocalType, Copiers
  <2>2. /\ Remaining(word[t]) = 0 /\ Outstanding(word[t]) = 0 /\ word[t].beingCopied
        /\ Remaining(word'[t]) = 0 /\ Outstanding(word'[t]) = 0 /\ ~word'[t].beingCopied /\ word'[t].value = 0
    <3>1. 0 \in 0..(Alignment - 1) /\ 0 % Alignment = 0
      BY WordAssumption
    <3> QED BY <1>a, <1>b, <3>1, ProgressParts, RestoredParts DEF Restored
  <2>3. WordInv'
    BY <1>0, <2>1, <2>2, WordAssumption DEF WordInv
  <2>4. ParticipantsCounted'
    BY <1>0, <2>2 DEF ParticipantsCounted, Forwarded
  <2>5. 0..(0 - 1) = {}
    OBVIOUS
  <2>6. BytesAccounted'
    BY <1>0, <2>1, <2>2, <2>5 DEF BytesAccounted, Forwarded, Bytes, BytesOf
  <2> QED BY <2>3, <2>4, <2>6
<1> QED BY <1>1, <1>2, <1>3, <1>4, <1>5, <1>6

LEMMA RemoveHintStep ==
    ASSUME IInv, NEW t \in Threads, RemoveHint(t)
    PROVE  IInv'
<1> USE ThreadsAssumption DEF IInv, RemoveHint, Goto, Finish, objectVars, spaceVars
<1> /\ size' = size /\ concurrent' = concurrent /\ (Sections' <=> Sections) /\ (Duplicates' <=> Duplicates)
    /\ ~(Sections /\ Duplicates) /\ (concurrent <=> Sections \/ Duplicates)
  BY Kinds DEF TypeOK, Sections, Duplicates
<1>0. /\ Sections /\ Forwarded /\ header.to = t
      /\ Forwarded' /\ header'.to = t /\ header'.hint = FALSE /\ header' = ForwardedTo(t, FALSE)
  <2>1. Sections /\ Forwarded /\ header.to = t
    BY DEF PlaceInv, Winning
  <2> QED BY <2>1 DEF Forwarded, ForwardedTo
<1>1. TypeOK'
  <2>1. ObjectType'
    <3>1. header' \in Headers
      BY <1>0, HeadersAre
    <3> QED BY <3>1 DEF TypeOK, ObjectType
  <2>2. SpaceType' /\ SectionType'
    BY DEF TypeOK, ObjectType, SpaceType, SectionType, Bytes, NoBytes
  <2>3. LocalType'
    BY HeaderShape, HeadersAre DEF TypeOK, ObjectType, LocalType, Plain, SelfForwarded
  <2> QED BY <2>1, <2>2, <2>3 DEF TypeOK
<1>2. HeaderInv'
  BY HeaderShape DEF TypeOK, ObjectType, LocalType, HeaderInv, PlaceInv, Forwarded, Winning, Plain,
     SelfForwarded, ForwardedTo
<1>3. PlaceInv'
  BY HeaderShape DEF TypeOK, ObjectType, LocalType, HeaderInv, PlaceInv, Forwarded, Winning, Plain,
     SelfForwarded, ForwardedTo
<1>4. SlotInv'
  BY HeaderShape DEF TypeOK, ObjectType, LocalType, HeaderInv, PlaceInv, SlotInv, WordInv,
     Forwarded, Winning, Plain, SelfForwarded, ForwardedTo
<1>5. SpaceInv'
  BY HeaderShape DEF TypeOK, ObjectType, SpaceType, SectionType, LocalType, HeaderInv, PlaceInv,
     SpaceInv, Bytes, Forwarded, Winning, Plain, SelfForwarded, ForwardedTo
<1>6. WordInv' /\ BytesAccounted' /\ ParticipantsCounted'
  <2>1. Copiers' = Copiers
    BY DEF TypeOK, LocalType, Copiers
  <2>2. pc'[t] = "done"
    BY DEF TypeOK, LocalType
  <2> QED BY <1>0, <2>1, <2>2, Frame
<1> QED BY <1>1, <1>2, <1>3, <1>4, <1>5, <1>6

LEMMA AssistStep ==
    ASSUME IInv, NEW t \in Threads, Assist(t)
    PROVE  IInv'
<1> USE ThreadsAssumption DEF IInv, Assist, Goto, WinSection, Joins, objectVars, spaceVars
<1> /\ size' = size /\ concurrent' = concurrent /\ (Sections' <=> Sections) /\ (Duplicates' <=> Duplicates)
    /\ ~(Sections /\ Duplicates) /\ (concurrent <=> Sections \/ Duplicates)
  BY Kinds DEF TypeOK, Sections, Duplicates
<1>0. /\ Sections /\ Forwarded /\ header.to # t /\ header.to \in Threads
      /\ Forwarded' /\ header' = header /\ size \in Nat
  BY SizesAssumption, HeaderShape DEF TypeOK, ObjectType, PlaceInv, Forwarded
<1>1a. t \notin Copiers /\ Copiers' = Copiers \cup {t} /\ Joins(t) \in BOOLEAN
  BY DEF TypeOK, LocalType, Copiers
<1>a. /\ SpaceType' /\ SectionType' /\ BytesAccounted' /\ word'[header.to].beingCopied
      /\ Outstanding(word'[header.to]) = Outstanding(word[header.to]) + IF Joins(t) THEN 1 ELSE 0
      /\ Outstanding(word'[header.to]) <= MaxOutstanding /\ Remaining(word'[header.to]) <= size
      /\ \A b \in copied'[header.to] : b >= Remaining(word'[header.to])
      /\ \A u \in Copiers' : section'[u].from >= Remaining(word'[header.to])
      /\ \A u \in Threads \ {header.to} : word'[u] = word[u]
      /\ \A u \in Threads \ {t} : section'[u] = section[u]
  <2>1. /\ word[header.to].beingCopied /\ Remaining(word[header.to]) > 0
        /\ Joins(t) => Outstanding(word[header.to]) < MaxOutstanding
        /\ UNCHANGED <<size, concurrent, header, copied>> /\ WinSection(t, header.to, Joins(t))
    OBVIOUS
  <2> HIDE DEF WinSection, Assist, Joins
  <2> QED BY <1>0, <1>1a, <2>1, WinSectionStep
<1> HIDE DEF WinSection
<1>1. TypeOK'
  <2>1. ObjectType'
    BY DEF TypeOK, ObjectType
  <2>2. SpaceType' /\ SectionType'
    BY <1>a
  <2>3. LocalType'
    BY HeaderShape, HeadersAre DEF TypeOK, ObjectType, LocalType, Plain, SelfForwarded
  <2> QED BY <2>1, <2>2, <2>3 DEF TypeOK
<1>2. HeaderInv'
  BY HeaderShape DEF TypeOK, ObjectType, LocalType, HeaderInv, PlaceInv, Forwarded, Winning, Plain,
     SelfForwarded, ForwardedTo
<1>3. PlaceInv'
  BY HeaderShape DEF TypeOK, ObjectType, LocalType, HeaderInv, PlaceInv, Forwarded, Winning, Plain,
     SelfForwarded, ForwardedTo
<1>4. SlotInv'
  BY HeaderShape DEF TypeOK, ObjectType, LocalType, HeaderInv, PlaceInv, SlotInv, WordInv,
     Forwarded, Winning, Plain, SelfForwarded, ForwardedTo
<1>5. SpaceInv'
  <2>1. /\ pc'[header.to] # "forward" /\ pc'[t] # "forward" /\ copied' = copied /\ Bytes' = Bytes
        /\ \A u \in Threads \ {t} : pc'[u] = pc[u]
    BY <1>0 DEF TypeOK, LocalType, HeaderInv, Winning, Bytes
  <2> QED BY <1>0, <1>a, <2>1 DEF SpaceInv, Forwarded
<1>6. WordInv' /\ BytesAccounted' /\ ParticipantsCounted'
  <2>1. pc'[header.to] = pc[header.to] /\ pc[header.to] \notin {"commence", "commit", "unhint", "done"}
    <3>1. word[header.to].value # 0
      BY <1>0, Destination DEF Remaining
    <3> QED BY <1>0, <3>1 DEF TypeOK, LocalType, WordInv
  <2>2. WordInv'
    BY <1>0, <1>a, <2>1 DEF WordInv
  <2>3. CASE ~participating[t]
    <3>1. /\ Cardinality({u \in Threads : participating[u]}) \in Nat
          /\ Cardinality({u \in Threads : participating'[u]}) = Cardinality({u \in Threads : participating[u]}) + 1
      BY <2>3, CountIn
    <3>2. Outstanding(word'[header.to]) = Outstanding(word[header.to]) + 1
      BY <1>a, <2>3
    <3> QED BY <1>0, <1>a, <2>2, <3>1, <3>2 DEF ParticipantsCounted, Forwarded
  <2>4. CASE participating[t]
    <3>1. participating' = participating
      BY <2>4 DEF TypeOK, LocalType
    <3>2. Outstanding(word'[header.to]) = Outstanding(word[header.to])
      BY <1>0, <1>a, <2>4, Destination
    <3> QED BY <1>0, <1>a, <2>2, <3>1, <3>2 DEF ParticipantsCounted, Forwarded
  <2> QED BY <2>3, <2>4
<1> QED BY <1>1, <1>2, <1>3, <1>4, <1>5, <1>6

LEMMA AssistCopiesStep ==
    ASSUME IInv, NEW t \in Threads, AssistCopies(t)
    PROVE  IInv'
<1> USE ThreadsAssumption DEF IInv, AssistCopies, Goto, CopySection, objectVars, spaceVars
<1> /\ size' = size /\ concurrent' = concurrent /\ (Sections' <=> Sections) /\ (Duplicates' <=> Duplicates)
    /\ ~(Sections /\ Duplicates) /\ (concurrent <=> Sections \/ Duplicates)
  BY Kinds DEF TypeOK, Sections, Duplicates
<1>0. /\ Sections /\ Forwarded /\ header.to # t /\ header.to \in Threads
      /\ Forwarded' /\ header' = header /\ size \in Nat
  BY SizesAssumption, HeaderShape DEF TypeOK, ObjectType, PlaceInv, Forwarded
<1>a. t \in Copiers /\ Copiers' = Copiers \ {t}
  BY DEF TypeOK, LocalType, Copiers
<1>b. /\ BytesAccounted' /\ copied' \in [Threads -> SUBSET Bytes]
      /\ \A b \in copied'[header.to] : b >= Remaining(word[header.to])
      /\ \A u \in Copiers' : section'[u].from >= Remaining(word[header.to])
  <2>1. CopySection(t, header.to)
    BY <1>0
  <2>2. UNCHANGED <<size, concurrent, header, word>>
    OBVIOUS
  <2> HIDE DEF CopySection, AssistCopies
  <2> QED BY <1>0, <1>a, <2>1, <2>2, TakeIn
<1>1. TypeOK'
  <2>1. ObjectType'
    BY DEF TypeOK, ObjectType
  <2>2. SpaceType' /\ SectionType'
    BY <1>0, <1>b DEF TypeOK, SpaceType, SectionType, Bytes, NoBytes
  <2>3. LocalType'
    BY HeaderShape, HeadersAre DEF TypeOK, ObjectType, LocalType, Plain, SelfForwarded
  <2> QED BY <2>1, <2>2, <2>3 DEF TypeOK
<1>2. HeaderInv'
  BY HeaderShape DEF TypeOK, ObjectType, LocalType, HeaderInv, PlaceInv, Forwarded, Winning, Plain,
     SelfForwarded, ForwardedTo
<1>3. PlaceInv'
  BY HeaderShape DEF TypeOK, ObjectType, LocalType, HeaderInv, PlaceInv, Forwarded, Winning, Plain,
     SelfForwarded, ForwardedTo
<1>4. SlotInv'
  BY HeaderShape DEF TypeOK, ObjectType, LocalType, HeaderInv, PlaceInv, SlotInv, WordInv,
     Forwarded, Winning, Plain, SelfForwarded, ForwardedTo
<1>5. SpaceInv'
  BY <1>0 DEF TypeOK, ObjectType, SpaceType, SectionType, LocalType, HeaderInv, PlaceInv, SpaceInv,
     Bytes, Forwarded
<1>6. WordInv' /\ BytesAccounted' /\ ParticipantsCounted'
  <2>1. pc'[header.to] = pc[header.to]
    BY <1>0 DEF TypeOK, LocalType
  <2>2. WordInv'
    BY <1>0, <1>b, <2>1 DEF WordInv, Remaining, Outstanding
  <2>3. ParticipantsCounted'
    BY <1>0 DEF ParticipantsCounted, Outstanding
  <2> QED BY <2>2, <2>3, <1>b
<1> QED BY <1>1, <1>2, <1>3, <1>4, <1>5, <1>6

LEMMA RetireStep ==
    ASSUME IInv, NEW t \in Threads, Retire(t)
    PROVE  IInv'
<1> USE ThreadsAssumption DEF IInv, Retire, Goto, objectVars, spaceVars
<1> /\ size' = size /\ concurrent' = concurrent /\ (Sections' <=> Sections) /\ (Duplicates' <=> Duplicates)
    /\ ~(Sections /\ Duplicates) /\ (concurrent <=> Sections \/ Duplicates)
  BY Kinds DEF TypeOK, Sections, Duplicates
<1>0. /\ Sections /\ Forwarded /\ header.to # t /\ header.to \in Threads
      /\ Forwarded' /\ header' = header /\ size \in Nat
  BY SizesAssumption, HeaderShape DEF TypeOK, ObjectType, PlaceInv, Forwarded
<1> DEFINE d == header.to
           o == Outstanding(word[d])
<1>a. /\ Cardinality({u \in Threads : participating[u]}) \in Nat \ {0}
      /\ Cardinality({u \in Threads : participating'[u]}) = Cardinality({u \in Threads : participating[u]}) - 1
  BY CountOut
<1>b. o \in 1..(Alignment - 1) /\ o = Cardinality({u \in Threads : participating[u]})
  <2>1. o = Cardinality({u \in Threads : participating[u]})
    BY <1>0 DEF ParticipantsCounted, Forwarded
  <2> QED BY <1>0, <1>a, <2>1, Destination
<1>c. /\ word' = [word EXCEPT ![d] = Progress(0, o - 1)]
      /\ Progress(0, o - 1) \in [beingCopied : BOOLEAN, value : Nat] /\ Progress(0, o - 1).beingCopied
      /\ Remaining(Progress(0, o - 1)) = 0 /\ Outstanding(Progress(0, o - 1)) = o - 1
  <2>1. o - 1 \in 0..(Alignment - 1) /\ 0 % Alignment = 0
    BY <1>b, WordAssumption
  <2> QED BY <2>1, ProgressParts
<1>d. /\ word' \in [Threads -> [beingCopied : BOOLEAN, value : Nat]]
      /\ word'[d] = Progress(0, o - 1) /\ \A u \in Threads \ {d} : word'[u] = word[u]
  BY <1>0, <1>c DEF TypeOK, SpaceType
<1> HIDE DEF o
<1>1. TypeOK'
  <2>1. ObjectType'
    BY DEF TypeOK, ObjectType
  <2>2. SpaceType' /\ SectionType'
    BY <1>d DEF TypeOK, SpaceType, SectionType, Bytes
  <2>3. LocalType'
    BY HeaderShape, HeadersAre DEF TypeOK, ObjectType, LocalType, Plain, SelfForwarded
  <2> QED BY <2>1, <2>2, <2>3 DEF TypeOK
<1>2. HeaderInv'
  BY HeaderShape DEF TypeOK, ObjectType, LocalType, HeaderInv, PlaceInv, Forwarded, Winning, Plain,
     SelfForwarded, ForwardedTo
<1>3. PlaceInv'
  BY HeaderShape DEF TypeOK, ObjectType, LocalType, HeaderInv, PlaceInv, Forwarded, Winning, Plain,
     SelfForwarded, ForwardedTo
<1>4. SlotInv'
  BY HeaderShape DEF TypeOK, ObjectType, LocalType, HeaderInv, PlaceInv, SlotInv, WordInv,
     Forwarded, Winning, Plain, SelfForwarded, ForwardedTo
<1>5. SpaceInv'
  BY <1>0, <1>d DEF TypeOK, LocalType, HeaderInv, SpaceInv, Bytes, Forwarded, Winning
<1>6. WordInv' /\ BytesAccounted' /\ ParticipantsCounted'
  <2>1. Copiers' = Copiers /\ word[d].value # 0 /\ MaxOutstanding \in Nat
    <3>1. word[d].value # 0
      BY <1>0, <1>b, Destination DEF o
    <3> QED BY <3>1, WordAssumption DEF Copiers
  <2>2. Remaining(word'[d]) = Remaining(word[d]) /\ Outstanding(word'[d]) = o - 1 /\ word'[d].beingCopied
    BY <1>c, <1>d
  <2>a. o - 1 <= MaxOutstanding /\ pc[d] \notin {"commence", "commit", "unhint", "done"}
    BY <1>0, <1>b, <2>1 DEF WordInv, o
  <2>3. WordInv'
    BY <1>0, <2>1, <2>2, <2>a DEF WordInv
  <2>4. ParticipantsCounted'
    BY <1>0, <1>a, <1>b, <2>2 DEF ParticipantsCounted, Forwarded
  <2>5. BytesAccounted'
    BY <1>0, <2>1, <2>2 DEF BytesAccounted, Forwarded, Bytes, BytesOf
  <2> QED BY <2>3, <2>4, <2>5
<1> QED BY <1>1, <1>2, <1>3, <1>4, <1>5, <1>6

LEMMA HelpEndsStep ==
    ASSUME IInv, NEW t \in Threads, HelpEnds(t)
    PROVE  IInv'
<1> USE ThreadsAssumption DEF IInv, HelpEnds, Goto, Finish, objectVars, spaceVars
<1> /\ size' = size /\ concurrent' = concurrent /\ (Sections' <=> Sections) /\ (Duplicates' <=> Duplicates)
    /\ ~(Sections /\ Duplicates) /\ (concurrent <=> Sections \/ Duplicates)
  BY Kinds DEF TypeOK, Sections, Duplicates
<1>0. /\ Sections /\ Forwarded /\ header.to # t /\ header.to \in Threads
      /\ Forwarded' /\ header' = header /\ size \in Nat
  BY SizesAssumption, HeaderShape DEF TypeOK, ObjectType, PlaceInv, Forwarded
<1>a. \A u \in Threads : ~participating[u]
  <2>1. word[header.to].value = 0
    BY <1>0 DEF WordInv
  <2>2. Outstanding(word[header.to]) = 0
    BY <1>0, <2>1, Destination
  <2> QED BY <1>0, <2>2, CountNone DEF ParticipantsCounted, Forwarded
<1>1. TypeOK'
  <2>1. ObjectType'
    BY DEF TypeOK, ObjectType
  <2>2. SpaceType' /\ SectionType'
    BY DEF TypeOK, ObjectType, SpaceType, SectionType, Bytes, NoBytes
  <2>3. LocalType'
    BY HeaderShape, HeadersAre DEF TypeOK, ObjectType, LocalType, Plain, SelfForwarded
  <2> QED BY <2>1, <2>2, <2>3 DEF TypeOK
<1>2. HeaderInv'
  BY HeaderShape DEF TypeOK, ObjectType, LocalType, HeaderInv, PlaceInv, Forwarded, Winning, Plain,
     SelfForwarded, ForwardedTo
<1>3. PlaceInv'
  BY <1>0, <1>a DEF TypeOK, LocalType, PlaceInv, Forwarded, Winning
<1>4. SlotInv'
  BY HeaderShape DEF TypeOK, ObjectType, LocalType, HeaderInv, PlaceInv, SlotInv, WordInv,
     Forwarded, Winning, Plain, SelfForwarded, ForwardedTo
<1>5. SpaceInv'
  BY HeaderShape DEF TypeOK, ObjectType, SpaceType, SectionType, LocalType, HeaderInv, PlaceInv,
     SpaceInv, Bytes, Forwarded, Winning, Plain, SelfForwarded, ForwardedTo
<1>6. WordInv' /\ BytesAccounted' /\ ParticipantsCounted'
  <2>1. Copiers' = Copiers
    BY DEF TypeOK, LocalType, Copiers, PlaceInv
  <2> QED
    BY <2>1, Frame, HeaderShape DEF TypeOK, ObjectType, SpaceType, SectionType, LocalType, Copiers,
       HeaderInv, PlaceInv, Forwarded, Winning, Plain, SelfForwarded, ForwardedTo
<1> QED BY <1>1, <1>2, <1>3, <1>4, <1>5, <1>6

-----------------------------------------------------------------------------
(* The theorems. *)

LEMMA Inductive == IInv /\ [Next]_vars => IInv'
<1> SUFFICES ASSUME IInv, [Next]_vars PROVE IInv'
  OBVIOUS
<1>1. CASE UNCHANGED vars
  <2> USE <1>1 DEF vars, objectVars, spaceVars, localVars
  <2>1. TypeOK'
    BY DEF IInv, TypeOK, ObjectType, SpaceType, SectionType, LocalType, Bytes
  <2>2. HeaderInv' /\ PlaceInv' /\ SlotInv'
    BY DEF IInv, HeaderInv, PlaceInv, SlotInv, Forwarded, Sections, Duplicates
  <2>3. SpaceInv'
    BY DEF IInv, SpaceInv, Forwarded, Sections, Duplicates, Bytes
  <2>4. Copiers' = Copiers
    BY DEF Copiers
  <2>5. WordInv' /\ BytesAccounted' /\ ParticipantsCounted'
    BY <2>4, Frame DEF IInv, Forwarded
  <2> QED BY <2>1, <2>2, <2>3, <2>5 DEF IInv
<1>2. ASSUME NEW t \in Threads, Step(t) PROVE IInv'
  BY <1>2, StartStep, CheckStep, ReserveStep, MemcpyStep, ForwardWinsStep, ForwardLosesStep,
     FailStep,
     WinnerCopiesStep, WinnerStep, CommenceFixupStep, CommitFixupStep, RemoveHintStep,
     AssistStep, AssistCopiesStep, RetireStep, HelpEndsStep DEF Step
<1> QED BY <1>1, <1>2 DEF Next

LEMMA Invariance == Spec => []IInv
  BY InitIInv, Inductive, PTL DEF Spec

\* Whatever the order in which any number of threads forward, fail and self-forward an
\* object, copyAndForward gives all of them the same place for it; without the concurrent
\* scavenger they may differ only in a scavenge that is backed out.
THEOREM SamePlace == Spec => []OneDestination
<1>1. IInv => OneDestination
  BY DEF IInv, SlotInv, OneDestination, Done, Forwarded, SelfForwarded
<1> QED BY <1>1, Invariance, PTL

\* The concurrent scavenger hands out no copy that is incomplete or still written to,
\* for any number of copying threads: copyOrWait holds everybody back until the winner
\* has restored the header, and the winner waits for its helpers.
THEOREM CompleteCopies == Spec => []CopiedBeforeUse
<1>1. IInv => CopiedBeforeUse
  <2> SUFFICES ASSUME IInv, NEW t \in Threads, concurrent, slot[t] \in Threads
               PROVE  /\ copied[slot[t]] = Bytes /\ ~word[slot[t]].beingCopied
                      /\ \A u \in Threads : pc[u] \notin {"first", "copy", "assist", "commence", "commit"}
    BY DEF CopiedBeforeUse
  <2>1. /\ pc[t] = "done" /\ Forwarded /\ slot[t] = header.to
        /\ Sections => pc[header.to] \in {"unhint", "done"}
    BY ThreadsAssumption DEF IInv, SlotInv
  <2>2. CASE Duplicates
    <3>1. ~Sections
      BY <2>2, Kinds DEF IInv, TypeOK
    <3>2. copied[slot[t]] = Bytes /\ ~word[slot[t]].beingCopied
      BY <2>1, <2>2, <3>1, RestoredParts DEF IInv, SpaceInv
    <3> QED BY <3>1, <3>2 DEF IInv, PlaceInv, Winning
  <2>3. CASE Sections
    <3> DEFINE d == header.to
    <3>1. d \in Threads /\ word[d].value = 0 /\ ~word[d].beingCopied /\ Outstanding(word[d]) = 0
      <4>1. word[d].value = 0 /\ ~word[d].beingCopied
        BY <2>1, <2>3 DEF IInv, WordInv
      <4> QED BY <2>1, <4>1, Destination DEF IInv
    <3>2. \A u \in Threads : ~participating[u]
      BY <2>1, <2>3, <3>1, CountNone DEF IInv, ParticipantsCounted, Forwarded
    <3>3. \A u \in Threads : pc[u] \notin {"first", "copy", "assist", "commence", "commit"}
      BY <2>1, <2>3, <3>2 DEF IInv, PlaceInv, Winning
    <3>4. Copiers = {}
      BY <3>3 DEF Copiers
    <3>5. copied[d] = Bytes
      <4>1. Bytes = {} \cup copied[d] \cup UNION {BytesOf(section[u]) : u \in Copiers}
        BY <2>1, <2>3, <3>1 DEF IInv, BytesAccounted, Forwarded
      <4>2. UNION {BytesOf(section[u]) : u \in Copiers} = {}
        BY <3>4
      <4> QED BY <4>1, <4>2
    <3> QED BY <2>1, <3>1, <3>3, <3>5
  <2> QED BY <2>2, <2>3, Kinds DEF IInv, TypeOK
<1> QED BY <1>1, Invariance, PTL

\* For every object size, alignment, minimum increment and limit of helpers, the word in
\* the destination accounts for every byte - none is lost, none copied twice, although
\* sizes and the count share a number - and for every helper, so that the winner does
\* not restore the header too early.
THEOREM WordAccounts == Spec => []CopyInv
<1>1. IInv => CopyInv
  BY DEF IInv, CopyInv
<1> QED BY <1>1, Invariance, PTL

\* The compare-and-exchange of setForwardedObjectInternal and setSelfForwardedObject
\* decides once where an object goes: a header that is not plain keeps its destination.
THEOREM DecidedOnce == Spec => ForwardingIsFinal
<1>1. IInv /\ [Next]_vars => [header.tag # "plain" => header'.tag = header.tag /\ header'.to = header.to]_vars
  <2> SUFFICES ASSUME IInv, Next, header.tag # "plain"
               PROVE  header'.tag = header.tag /\ header'.to = header.to
    OBVIOUS
  <2>1. PICK t \in Threads : Step(t)
    BY DEF Next
  <2>2. CASE header' = header
    BY <2>2
  <2>3. CASE ForwardWins(t)
    BY <2>3 DEF IInv, PlaceInv, ForwardWins, Plain
  <2>4. CASE Fail(t)
    <3>1. header = preserved[t] => header = SelfForwarded
      BY <2>4, HeaderShape DEF IInv, TypeOK, ObjectType, PlaceInv, Fail, Plain
    <3>2. header' = header \/ (header = preserved[t] /\ header' = SelfForwarded)
      BY <2>4 DEF Fail, StillUnforwarded
    <3> QED BY <3>1, <3>2
  <2>5. CASE RemoveHint(t)
    BY <2>5 DEF IInv, PlaceInv, RemoveHint, Winning, Forwarded, ForwardedTo
  <2> QED BY <2>1, <2>2, <2>3, <2>4, <2>5
     DEF Step, Start, Check, Reserve, Memcpy, ForwardLoses, WinnerCopies, Winner, CommenceFixup,
         CommitFixup, Assist, AssistCopies, Retire, HelpEnds
<1> QED BY <1>1, Invariance, PTL DEF Spec, ForwardingIsFinal
=============================================================================

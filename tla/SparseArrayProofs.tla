--------------------------- MODULE SparseArrayProofs ---------------------------
(***************************************************************************)
(* Proofs about SparseArray, for every size of a block and every number of *)
(* blocks: SparseInv, which adds to what a walk finds how the notes of the *)
(* blocks and of the array lead to the least free slot, is inductive.      *)
(***************************************************************************)
EXTENDS SparseArray, FiniteSetTheorems, WellFoundedInduction, TLAPS

(* Indices, blocks and positions.                                          *)

\* An index is a block and a position in it.
LEMMA IndexParts ==
    ASSUME NEW b \in Nat, NEW p \in Positions
    PROVE  /\ Index(b, p) \in Nat
           /\ BlockOf(Index(b, p)) = b /\ PositionOf(Index(b, p)) = p
           /\ b < MaxBlocks <=> Index(b, p) \in Indices
BY SparseArrayAssumption DEF Index, BlockOf, PositionOf, Positions, Indices

LEMMA PartsIndex ==
    ASSUME NEW index \in Nat
    PROVE  /\ BlockOf(index) \in Nat /\ PositionOf(index) \in Positions
           /\ Index(BlockOf(index), PositionOf(index)) = index
           /\ index \in Indices <=> BlockOf(index) < MaxBlocks
BY SparseArrayAssumption DEF Index, BlockOf, PositionOf, Positions, Indices

LEMMA IndicesNat == Indices \subseteq Nat
<1>1. Block * MaxBlocks - 1 \in Int
  BY SparseArrayAssumption
<1> QED
  BY <1>1 DEF Indices

\* Indices are ordered by their blocks and within a block by their positions.
LEMMA IndexOrder ==
    ASSUME NEW b \in Nat, NEW p \in Positions, NEW c \in Nat, NEW q \in Positions
    PROVE  Index(b, p) < Index(c, q) <=> b < c \/ (b = c /\ p < q)
<1> DEFINE x == b * Block  y == c * Block
<1>1. Block \in Nat /\ p \in 0 .. Block - 1 /\ q \in 0 .. Block - 1 /\ x \in Nat /\ y \in Nat
  BY SparseArrayAssumption DEF Positions
<1>2. /\ b < c => x + Block <= y
      /\ c < b => y + Block <= x
      /\ b = c => x = y
  BY SparseArrayAssumption
<1>3. Index(b, p) = x + p /\ Index(c, q) = y + q
  BY DEF Index
<1> HIDE DEF x, y
<1> QED
  BY <1>1, <1>2, <1>3

\* A set of numbers that is not empty has a least one, and a bounded one a greatest one.
LEMMA LeastIs ==
    ASSUME NEW S, S \subseteq Nat, S # {}
    PROVE  Least(S) \in S /\ \A m \in S : Least(S) <= m
<1>1. IsWellFoundedOn(OpToRel(<, Nat), Nat)
  BY NatLessThanWellFounded
<1>2. PICK q \in S : \A r \in S : ~(<<r, q>> \in OpToRel(<, Nat))
  BY <1>1, WFMin
<1>3. \A r \in S : r < q => <<r, q>> \in OpToRel(<, Nat)
  BY <1>2 DEF OpToRel
<1>4. \A r \in S : ~(r < q)
  BY <1>2, <1>3, Zenon
<1>5. \A r \in S : q <= r
  BY <1>4
<1> QED
  BY <1>5 DEF Least

\* Exactly the slots that somebody holds are marked; blocks beyond the array are unused.
Marked ==
    /\ \A b \in 0 .. MaxBlocks - 1, p \in Positions :
          p \in blocks[b].usedMap <=> Index(b, p) \in live
    /\ \A b \in metaCount .. MaxBlocks - 1 : blocks[b].usedMap = {} /\ ~blocks[b].data

NoteRight(info) ==
    info.usedMap # Positions =>
       /\ info.firstFree \notin info.usedMap
       /\ \A q \in 0 .. info.firstFree - 1 : q \in info.usedMap

\* A block that is not full notes its least clear position; the array the least free index.
NotesLeast ==
    /\ \A b \in 0 .. metaCount - 1 : NoteRight(blocks[b])
    /\ firstFree \notin live
    /\ \A index \in Indices : index < firstFree => index \in live

\* A slot has one holder at most, and count is how many are held.
Counted ==
    /\ \A index \in Indices : holders[index] <= 1
    /\ count = Cardinality(live)

\* Until a slot is removed above the note of a full block, all of this holds; the memory of
\* the blocks follows their marks even then.
SparseInv ==
    /\ TypeOK
    /\ \A b \in 0 .. metaCount - 1 : blocks[b].data <=> blocks[b].usedMap # {}
    /\ ~stale => Marked /\ NotesLeast /\ Counted

\* The array starts empty.
LEMMA InitSparseInv == Init => SparseInv
<1> SUFFICES ASSUME Init PROVE SparseInv
  OBVIOUS
<1>1. 0 \in Positions /\ 0 \in 0 .. MaxBlocks /\ 0 \in 0 .. Block * MaxBlocks
  BY SparseArrayAssumption DEF Positions
<1>2. TypeOK
  BY <1>1 DEF Init, TypeOK, EmptyBlock
<1>3. live = {}
  BY DEF Init, live
<1>4. Marked /\ NotesLeast
  BY <1>3, SparseArrayAssumption DEF Init, Marked, NotesLeast, EmptyBlock, Indices
<1>5. Counted
  BY <1>3, FS_EmptySet DEF Init, Counted
<1> QED
  BY <1>2, <1>4, <1>5 DEF Init, SparseInv, EmptyBlock

\* SparseInv says what a walk finds and which index is handed out next.
LEMMA SparseInvAgrees ==
    ASSUME SparseInv PROVE SparseAgrees
<1>1. ASSUME ~stale PROVE WalkComplete
  <2>1. ASSUME NEW index \in Indices
        PROVE  /\ BlockOf(index) \in 0 .. MaxBlocks - 1 /\ PositionOf(index) \in Positions
               /\ Index(BlockOf(index), PositionOf(index)) = index
    BY PartsIndex, SparseArrayAssumption DEF Indices
  <2>2. \A index \in Indices : index \in Visited <=> index \in live
    BY <1>1, <2>1 DEF SparseInv, Marked, Visited, TypeOK
  <2>3. Visited = live
    BY <2>2 DEF Visited, live
  <2> QED
    BY <1>1, <2>3 DEF SparseInv, Counted, WalkComplete
<1>2. ASSUME ~stale PROVE firstFree = Least(0 .. Block * MaxBlocks \ live)
  <2> DEFINE free == 0 .. Block * MaxBlocks \ live
  <2>1. Block * MaxBlocks \in Nat
    BY SparseArrayAssumption
  <2>2. free \subseteq Nat /\ firstFree \in free
    BY <1>2, <2>1 DEF SparseInv, TypeOK, NotesLeast
  <2>3. Least(free) \in free /\ Least(free) <= firstFree
    BY <2>2, LeastIs
  <2>4. ASSUME Least(free) < firstFree PROVE FALSE
    <3>1. Least(free) \in Indices
      BY <2>1, <2>2, <2>3, <2>4 DEF SparseInv, TypeOK, Indices
    <3> QED
      BY <1>2, <2>3, <2>4, <3>1 DEF SparseInv, NotesLeast
  <2> QED
    BY <2>1, <2>2, <2>3, <2>4
<1>3. MemoryFollowsUse
  BY DEF SparseInv, Marked, MemoryFollowsUse
<1> QED
  BY <1>1, <1>2, <1>3 DEF SparseAgrees, WalkCompleteInOrder, HandsOutLeast, SparseInv

-------------------------------------------------------------------------------
(* Acquiring a slot.                                                       *)

BlockInfo == [data : BOOLEAN, usedMap : SUBSET Positions, firstFree : Positions]

\* The search for the next free slot ends at most one slot behind the array.
LEMMA NextFreeRange ==
    ASSUME NEW bs \in [0 .. MaxBlocks - 1 -> BlockInfo], NEW n \in 1 .. MaxBlocks,
           NEW b \in 0 .. n - 1, NEW p \in Positions
    PROVE  /\ ClearAbove(bs, b, p) # {} =>
                 /\ Least(ClearAbove(bs, b, p)) \in ClearAbove(bs, b, p)
                 /\ \A q \in ClearAbove(bs, b, p) : Least(ClearAbove(bs, b, p)) <= q
           /\ NotFullAfter(bs, n, b) # {} =>
                 /\ Least(NotFullAfter(bs, n, b)) \in NotFullAfter(bs, n, b)
                 /\ \A c \in NotFullAfter(bs, n, b) : Least(NotFullAfter(bs, n, b)) <= c
           /\ NextFree(bs, n, b, p) \in 0 .. Block * MaxBlocks
<1> DEFINE above == ClearAbove(bs, b, p)  notFull == NotFullAfter(bs, n, b)
<1>1. above \subseteq Positions /\ above \subseteq Nat /\ notFull \subseteq Nat
      /\ \A c \in notFull : c < n /\ bs[c].firstFree \in Positions
  BY SparseArrayAssumption DEF ClearAbove, NotFullAfter, Positions, BlockInfo
<1>2. /\ above # {} => Least(above) \in above /\ \A q \in above : Least(above) <= q
      /\ notFull # {} => Least(notFull) \in notFull /\ \A c \in notFull : Least(notFull) <= c
  BY <1>1, LeastIs
<1>3. \A c \in Nat, q \in Positions : c < MaxBlocks => Index(c, q) \in 0 .. Block * MaxBlocks
  <2>1. \A c \in Nat, q \in Positions : c < MaxBlocks => Index(c, q) \in Indices
    BY IndexParts
  <2>2. Indices \subseteq 0 .. Block * MaxBlocks
    BY SparseArrayAssumption DEF Indices
  <2> QED
    BY <2>1, <2>2
<1>4. n = MaxBlocks => Index(n, 0) \in 0 .. Block * MaxBlocks
  BY SparseArrayAssumption DEF Index
<1>5. 0 \in Positions /\ MaxBlocks \in Nat
  BY SparseArrayAssumption DEF Positions
<1>6. NextFree(bs, n, b, p) \in 0 .. Block * MaxBlocks
  <2>1. CASE above # {}
    BY <1>1, <1>2, <1>3, <1>5, <2>1 DEF NextFree
  <2>2. CASE above = {} /\ notFull # {}
    <3> DEFINE c == Least(notFull)
    <3>1. c \in Nat /\ c < MaxBlocks /\ bs[c].firstFree \in Positions
      BY <1>1, <1>2, <1>5, <2>2
    <3>2. NextFree(bs, n, b, p) = Index(c, bs[c].firstFree)
      BY <2>2 DEF NextFree
    <3> QED
      BY <1>3, <3>1, <3>2
  <2>3. CASE above = {} /\ notFull = {}
    BY <1>3, <1>4, <1>5, <2>3 DEF NextFree
  <2> QED
    BY <2>1, <2>2, <2>3
<1> QED
  BY <1>2, <1>6

UsedUpTo(bs, b, p) ==
    \A c \in 0 .. b, q \in Positions : c < b \/ q <= p => q \in bs[c].usedMap
LeastClear(bs, n, f, r) ==
    /\ IF f < n THEN r \notin bs[f].usedMap ELSE r = 0
    /\ \A c \in 0 .. n - 1, q \in Positions :
          c < f \/ (c = f /\ q < r) => q \in bs[c].usedMap

\* When all slots up to the taken one are used and the notes of the blocks behind it are
\* right, the search finds the least slot that is not used.
LEMMA NextFreeLeast ==
    ASSUME NEW bs \in [0 .. MaxBlocks - 1 -> BlockInfo], NEW n \in 1 .. MaxBlocks,
           NEW b \in 0 .. n - 1, NEW p \in Positions,
           UsedUpTo(bs, b, p), \A c \in b + 1 .. n - 1 : NoteRight(bs[c])
    PROVE  \E f \in 0 .. n, r \in Positions :
              NextFree(bs, n, b, p) = Index(f, r) /\ LeastClear(bs, n, f, r)
<1> USE DEF UsedUpTo, NoteRight, LeastClear
<1> DEFINE above == ClearAbove(bs, b, p)  notFull == NotFullAfter(bs, n, b)
<1>1. MaxBlocks \in Nat /\ Block \in Nat /\ 0 \in Positions /\ Positions = 0 .. Block - 1
      /\ \A c \in 0 .. MaxBlocks - 1 :
            bs[c].usedMap \subseteq Positions /\ bs[c].firstFree \in Positions
  BY SparseArrayAssumption DEF Positions, BlockInfo
<1>2. CASE above # {}
  <2> DEFINE r == Least(above)
  <2>1. r \in Positions /\ r > p /\ r \notin bs[b].usedMap
        /\ \A q \in Positions : q > p /\ q < r => q \in bs[b].usedMap
    <3>1. r \in above /\ \A q \in above : r <= q
      BY <1>2, NextFreeRange
    <3>2. \A q \in above : q \in Nat
      BY <1>1 DEF ClearAbove
    <3>3. \A q \in Positions : q \in Nat /\ (q \in above <=> q > p /\ q \notin bs[b].usedMap)
      BY <1>1 DEF ClearAbove
    <3>4. r \in Positions
      BY <3>1 DEF ClearAbove
    <3> HIDE DEF r, above
    <3> QED
      BY <3>1, <3>2, <3>3, <3>4
  <2>2. NextFree(bs, n, b, p) = Index(b, r)
    BY <1>2 DEF NextFree
  <2>3. \A c \in 0 .. n - 1, q \in Positions :
           c < b \/ (c = b /\ q < r) => q \in bs[c].usedMap
    BY <1>1, <2>1
  <2> HIDE DEF r
  <2> QED
    BY <1>1, <2>1, <2>2, <2>3
<1>3. ASSUME above = {}
      PROVE  \A q \in Positions : q \in bs[b].usedMap
  BY <1>1, <1>3 DEF ClearAbove
<1>4. CASE above = {} /\ notFull # {}
  <2> DEFINE f == Least(notFull)
  <2>1. f \in b + 1 .. n - 1 /\ bs[f].usedMap # Positions
        /\ \A c \in b + 1 .. n - 1 : c < f => bs[c].usedMap = Positions
    <3>1. f \in notFull /\ \A c \in notFull : f <= c
      BY <1>4, NextFreeRange
    <3>2. \A c \in b + 1 .. n - 1 : c \in notFull <=> bs[c].usedMap # Positions
      BY DEF NotFullAfter
    <3>3. f \in b + 1 .. n - 1
      BY <3>1 DEF NotFullAfter
    <3> HIDE DEF f, notFull
    <3> QED
      BY <3>1, <3>2, <3>3
  <2>2. NextFree(bs, n, b, p) = Index(f, bs[f].firstFree)
    BY <1>4 DEF NextFree
  <2> HIDE DEF f
  <2>3. \A c \in 0 .. n - 1, q \in Positions :
           c < f \/ (c = f /\ q < bs[f].firstFree) => q \in bs[c].usedMap
    BY <1>1, <1>3, <1>4, <2>1
  <2>4. f \in 0 .. n /\ f < n /\ bs[f].firstFree \in Positions
        /\ bs[f].firstFree \notin bs[f].usedMap
    BY <1>1, <2>1
  <2> QED
    BY <2>2, <2>3, <2>4
<1>5. CASE above = {} /\ notFull = {}
  <2>1. \A c \in b + 1 .. n - 1 : bs[c].usedMap = Positions
    BY <1>5 DEF NotFullAfter
  <2>2. NextFree(bs, n, b, p) = Index(n, 0)
    BY <1>5 DEF NextFree
  <2>3. \A c \in 0 .. n - 1, q \in Positions : q \in bs[c].usedMap
    BY <1>1, <1>3, <1>5, <2>1
  <2>4. n \in 0 .. n /\ ~(n < n)
    OBVIOUS
  <2> QED
    BY <1>1, <2>2, <2>3, <2>4
<1> QED
  BY <1>2, <1>4, <1>5

\* What becomes of the blocks when the first free slot is taken.
LEMMA TakeBlocks ==
    ASSUME SparseInv, AcquireFirstFree
    PROVE  \E b \in 0 .. MaxBlocks - 1, p \in Positions, n \in 1 .. MaxBlocks, note \in Positions :
             /\ firstFree = Index(b, p) /\ firstFree \in Indices
             /\ b < n /\ metaCount <= n /\ (metaCount < n => n = b + 1)
             /\ metaCount' = n
             /\ blocks' \in [0 .. MaxBlocks - 1 -> BlockInfo]
             /\ \A c \in 0 .. MaxBlocks - 1 : c # b =>
                   blocks'[c] = IF c \in metaCount .. n - 1 THEN EmptyBlock ELSE blocks[c]
             /\ IF b < metaCount /\ blocks[b].data
                THEN /\ blocks'[b].usedMap = blocks[b].usedMap \union {note}
                     /\ note = blocks[b].firstFree
                ELSE blocks'[b].usedMap = {note} /\ note = 0
             /\ blocks'[b].data
             /\ ClearAbove(blocks', b, p) # {} =>
                   blocks'[b].firstFree = Least(ClearAbove(blocks', b, p))
             /\ firstFree' = NextFree(blocks', n, b, p)
<1> DEFINE b == BlockOf(firstFree)
           p == PositionOf(firstFree)
           n == IF metaCount <= b THEN b + 1 ELSE metaCount
           grown == [c \in DOMAIN blocks |->
                       IF c \in metaCount .. n - 1 THEN EmptyBlock ELSE blocks[c]]
           ready == IF grown[b].data THEN grown[b] ELSE [EmptyBlock EXCEPT !.data = TRUE]
           taken == [grown EXCEPT
                       ![b] = [ready EXCEPT !.usedMap = @ \union {ready.firstFree}]]
           above == ClearAbove(taken, b, p)
<1>1. /\ metaCount' = n
      /\ blocks' = IF above = {} THEN taken ELSE [taken EXCEPT ![b].firstFree = Least(above)]
      /\ firstFree' = NextFree(taken, n, b, p)
      /\ firstFree \in Indices
  BY DEF AcquireFirstFree
<1>2. /\ b \in 0 .. MaxBlocks - 1 /\ p \in Positions /\ firstFree = Index(b, p)
      /\ b \in Nat
  <2>1. firstFree \in Indices
    BY DEF AcquireFirstFree
  <2>2. /\ BlockOf(firstFree) \in Nat /\ PositionOf(firstFree) \in Positions
        /\ Index(BlockOf(firstFree), PositionOf(firstFree)) = firstFree
        /\ BlockOf(firstFree) < MaxBlocks
    BY <2>1, IndicesNat, PartsIndex
  <2> QED
    BY <2>2, SparseArrayAssumption
<1>3. /\ n \in 1 .. MaxBlocks /\ b < n /\ metaCount <= n /\ (metaCount < n => n = b + 1)
      /\ (b \in metaCount .. n - 1 <=> ~(b < metaCount))
  BY <1>2, SparseArrayAssumption DEF SparseInv, TypeOK
<1>4. EmptyBlock \in BlockInfo /\ 0 \in Positions
  BY SparseArrayAssumption DEF EmptyBlock, BlockInfo, Positions
<1>5. blocks \in [0 .. MaxBlocks - 1 -> BlockInfo]
  BY DEF SparseInv, TypeOK, BlockInfo
<1> HIDE DEF n, b, p
<1>6. grown \in [0 .. MaxBlocks - 1 -> BlockInfo]
  BY <1>4, <1>5
<1>7. /\ ready \in BlockInfo /\ ready.data
      /\ IF b < metaCount /\ blocks[b].data THEN ready = blocks[b]
         ELSE ready.usedMap = {} /\ ready.firstFree = 0
  <2>1. grown[b] = IF b < metaCount THEN blocks[b] ELSE EmptyBlock
    BY <1>2, <1>3, <1>5
  <2>2. /\ [EmptyBlock EXCEPT !.data = TRUE] \in BlockInfo
        /\ [EmptyBlock EXCEPT !.data = TRUE].data
        /\ [EmptyBlock EXCEPT !.data = TRUE].usedMap = {}
        /\ [EmptyBlock EXCEPT !.data = TRUE].firstFree = 0
    BY <1>4 DEF EmptyBlock, BlockInfo
  <2>3. grown[b] \in BlockInfo
    BY <1>2, <1>6
  <2> HIDE DEF grown
  <2> QED
    BY <1>4, <2>1, <2>2, <2>3 DEF BlockInfo, EmptyBlock
<1> HIDE DEF grown, ready
<1> DEFINE filled == [ready EXCEPT !.usedMap = @ \union {ready.firstFree}]
<1>8. /\ filled \in BlockInfo /\ filled.data
      /\ filled.usedMap = ready.usedMap \union {ready.firstFree}
      /\ ready.firstFree \in Positions
  BY <1>7 DEF BlockInfo
<1>9. taken \in [0 .. MaxBlocks - 1 -> BlockInfo] /\ taken[b] = filled
      /\ \A c \in 0 .. MaxBlocks - 1 : c # b => taken[c] = grown[c]
  <2>1. taken = [grown EXCEPT ![b] = filled]
    OBVIOUS
  <2> HIDE DEF taken, filled
  <2> QED
    BY <1>2, <1>6, <1>8, <2>1
<1>10. \A c \in 0 .. MaxBlocks - 1 : c # b =>
          grown[c] = IF c \in metaCount .. n - 1 THEN EmptyBlock ELSE blocks[c]
  BY <1>5 DEF grown
<1> HIDE DEF taken, filled
<1>11. above # {} => Least(above) \in Positions
  <2>1. above # {} => Least(above) \in above
    BY <1>2, <1>3, <1>9, NextFreeRange
  <2>2. above \subseteq Positions
    BY DEF ClearAbove
  <2> QED
    BY <2>1, <2>2
<1>12. /\ blocks' \in [0 .. MaxBlocks - 1 -> BlockInfo]
       /\ \A c \in 0 .. MaxBlocks - 1 : c # b => blocks'[c] = taken[c]
       /\ blocks'[b].data /\ \A c \in 0 .. MaxBlocks - 1 : blocks'[c].usedMap = taken[c].usedMap
       /\ above # {} => blocks'[b].firstFree = Least(above)
  <2>1. CASE above = {}
    BY <1>1, <1>2, <1>8, <1>9, <2>1
  <2>2. CASE above # {}
    <3> DEFINE l == Least(above)
    <3>1. l \in Positions /\ blocks' = [taken EXCEPT ![b].firstFree = l]
      BY <1>1, <1>11, <2>2
    <3> HIDE DEF l
    <3>2. [taken[b] EXCEPT !.firstFree = l] \in BlockInfo
          /\ [taken[b] EXCEPT !.firstFree = l].data = taken[b].data
          /\ [taken[b] EXCEPT !.firstFree = l].usedMap = taken[b].usedMap
          /\ [taken[b] EXCEPT !.firstFree = l].firstFree = l
      BY <1>2, <1>9, <3>1 DEF BlockInfo
    <3>3. blocks' = [taken EXCEPT ![b] = [taken[b] EXCEPT !.firstFree = l]]
      BY <3>1
    <3>4. blocks'[b] = [taken[b] EXCEPT !.firstFree = l]
      BY <1>2, <1>9, <3>3
    <3> QED
      BY <1>2, <1>8, <1>9, <2>2, <3>2, <3>3, <3>4 DEF l
  <2> QED
    BY <2>1, <2>2
<1>13. ClearAbove(blocks', b, p) = above
  BY <1>2, <1>12 DEF ClearAbove
<1>14. NextFree(blocks', n, b, p) = NextFree(taken, n, b, p)
  <2>1. NotFullAfter(blocks', n, b) = NotFullAfter(taken, n, b)
    BY <1>2, <1>3, <1>12, SparseArrayAssumption DEF NotFullAfter
  <2>2. above = {} /\ NotFullAfter(taken, n, b) # {} =>
           LET c == Least(NotFullAfter(taken, n, b)) IN blocks'[c] = taken[c]
    <3>1. NotFullAfter(taken, n, b) # {} =>
             Least(NotFullAfter(taken, n, b)) \in NotFullAfter(taken, n, b)
      BY <1>2, <1>3, <1>9, NextFreeRange
    <3>2. \A c \in NotFullAfter(taken, n, b) : c \in 0 .. MaxBlocks - 1 /\ c # b
      BY <1>2, <1>3, SparseArrayAssumption DEF NotFullAfter
    <3> QED
      BY <1>12, <3>1, <3>2
  <2> QED
    BY <1>13, <2>1, <2>2 DEF NextFree
<1> QED
  BY <1>1, <1>2, <1>3, <1>7, <1>8, <1>9, <1>10, <1>12, <1>13, <1>14

LEMMA LiveFinite == IsFiniteSet(live)
<1>1. Block * MaxBlocks - 1 \in Int
  BY SparseArrayAssumption
<1>2. IsFiniteSet(Indices)
  BY <1>1, FS_Interval DEF Indices
<1> QED
  BY <1>2, FS_Subset DEF live

\* A slot that nobody held has its first holder, and one more is counted.
LEMMA HoldOne ==
    ASSUME TypeOK, Counted, NEW index \in Indices, index \notin live,
           holders' = [holders EXCEPT ![index] = @ + 1], count' = count + 1
    PROVE  live' = live \union {index} /\ Counted'
<1>1. holders[index] = 0
  BY DEF TypeOK, live
<1>2. live' = live \union {index}
  BY <1>1 DEF TypeOK, live
<1>3. IsFiniteSet(live)
  BY LiveFinite
<1>4. Cardinality(live \union {index}) = Cardinality(live) + 1
  BY <1>3, FS_AddElement
<1> QED
  BY <1>1, <1>2, <1>4 DEF TypeOK, Counted

\* Taking the first free slot marks it, and leads to the next one.
LEMMA AcquireKeeps ==
    ASSUME SparseInv, AcquireFirstFree PROVE SparseInv'
<1>1. PICK b \in 0 .. MaxBlocks - 1, p \in Positions, n \in 1 .. MaxBlocks, note \in Positions :
         /\ firstFree = Index(b, p) /\ firstFree \in Indices
         /\ b < n /\ metaCount <= n /\ (metaCount < n => n = b + 1)
         /\ metaCount' = n
         /\ blocks' \in [0 .. MaxBlocks - 1 -> BlockInfo]
         /\ \A c \in 0 .. MaxBlocks - 1 : c # b =>
               blocks'[c] = IF c \in metaCount .. n - 1 THEN EmptyBlock ELSE blocks[c]
         /\ IF b < metaCount /\ blocks[b].data
            THEN /\ blocks'[b].usedMap = blocks[b].usedMap \union {note}
                 /\ note = blocks[b].firstFree
            ELSE blocks'[b].usedMap = {note} /\ note = 0
         /\ blocks'[b].data
         /\ ClearAbove(blocks', b, p) # {} =>
               blocks'[b].firstFree = Least(ClearAbove(blocks', b, p))
         /\ firstFree' = NextFree(blocks', n, b, p)
  BY TakeBlocks
<1>2. /\ MaxBlocks \in Nat /\ metaCount \in 0 .. MaxBlocks
      /\ Block \in Nat /\ Positions = 0 .. Block - 1 /\ 0 \in Positions
  BY SparseArrayAssumption DEF SparseInv, TypeOK, Positions
<1>3. /\ blocks \in [0 .. MaxBlocks - 1 -> BlockInfo]
      /\ \A c \in 0 .. MaxBlocks - 1 :
            /\ blocks[c].usedMap \subseteq Positions /\ blocks[c].firstFree \in Positions
            /\ blocks'[c].usedMap \subseteq Positions /\ blocks'[c].firstFree \in Positions
      /\ EmptyBlock.usedMap = {} /\ EmptyBlock.firstFree = 0 /\ ~EmptyBlock.data
  BY <1>1 DEF SparseInv, TypeOK, BlockInfo, EmptyBlock
<1>4. TypeOK'
  <2>1. firstFree' \in 0 .. Block * MaxBlocks
    BY <1>1, NextFreeRange
  <2> QED
    <3>1. (blocks \in [0 .. MaxBlocks - 1 ->
                         [data : BOOLEAN, usedMap : SUBSET Positions, firstFree : Positions]])'
      BY <1>1 DEF BlockInfo
    <3>2. metaCount' \in 0 .. MaxBlocks
      BY <1>1, <1>2
    <3>3. count' \in Nat /\ holders' \in [Indices -> Nat] /\ stale' \in BOOLEAN
      <4>1. count' = count + 1 /\ stale' = stale
            /\ holders' = [holders EXCEPT ![firstFree] = holders[firstFree] + 1]
        BY DEF AcquireFirstFree
      <4>2. firstFree \in Indices
        BY <1>1
      <4> QED
        BY <4>1, <4>2 DEF SparseInv, TypeOK
    <3> QED
      BY <2>1, <3>1, <3>2, <3>3 DEF TypeOK
<1>5. ASSUME NEW c \in 0 .. metaCount' - 1
      PROVE  blocks'[c].data <=> blocks'[c].usedMap # {}
  <2>1. c \in 0 .. n - 1 /\ c \in 0 .. MaxBlocks - 1
    BY <1>1, <1>2
  <2>2. CASE c = b
    <3>1. blocks'[b].usedMap # {}
      BY <1>1
    <3> QED
      BY <1>1, <2>2, <3>1
  <2>3. CASE c # b /\ c \in metaCount .. n - 1
    <3>1. blocks'[c] = EmptyBlock
      BY <1>1, <2>1, <2>3
    <3> QED
      BY <1>3, <3>1
  <2>4. CASE c # b /\ c \notin metaCount .. n - 1
    <3>1. blocks'[c] = blocks[c] /\ c \in 0 .. metaCount - 1
      BY <1>1, <1>2, <2>1, <2>4
    <3> QED
      BY <3>1 DEF SparseInv
  <2> QED
    BY <2>2, <2>3, <2>4
<1>6. ASSUME ~stale'
      PROVE  (Marked /\ NotesLeast /\ Counted)'
  <2>1. TypeOK /\ Marked /\ NotesLeast /\ Counted
    BY <1>6 DEF SparseInv, AcquireFirstFree
  <2>2. live' = live \union {firstFree} /\ Counted'
    BY <1>1, <2>1, HoldOne DEF AcquireFirstFree, NotesLeast
  <2>3. \A c \in 0 .. MaxBlocks - 1, q \in Positions :
           /\ q \in blocks[c].usedMap <=> Index(c, q) \in live
           /\ Index(c, q) = firstFree <=> c = b /\ q = p
           /\ Index(c, q) \in Indices
           /\ Index(c, q) < firstFree <=> c < b \/ (c = b /\ q < p)
    <3> SUFFICES ASSUME NEW c \in 0 .. MaxBlocks - 1, NEW q \in Positions
                 PROVE  /\ q \in blocks[c].usedMap <=> Index(c, q) \in live
                        /\ Index(c, q) = firstFree <=> c = b /\ q = p
                        /\ Index(c, q) \in Indices
                        /\ Index(c, q) < firstFree <=> c < b \/ (c = b /\ q < p)
      OBVIOUS
    <3>1. c \in Nat /\ b \in Nat /\ c < MaxBlocks
      BY <1>2
    <3>2. BlockOf(Index(c, q)) = c /\ PositionOf(Index(c, q)) = q /\ Index(c, q) \in Indices
      BY <3>1, IndexParts
    <3>3. BlockOf(firstFree) = b /\ PositionOf(firstFree) = p
      BY <1>1, <3>1, IndexParts
    <3>4. Index(c, q) < firstFree <=> c < b \/ (c = b /\ q < p)
      BY <1>1, <3>1, IndexOrder
    <3>5. q \in blocks[c].usedMap <=> Index(c, q) \in live
      BY <2>1 DEF Marked
    <3>6. Index(c, q) = firstFree <=> c = b /\ q = p
      BY <1>1, <3>2, <3>3
    <3> QED
      BY <3>2, <3>4, <3>5, <3>6
  <2>4. p \notin blocks[b].usedMap
        /\ \A c \in 0 .. MaxBlocks - 1, q \in Positions :
              c < b \/ (c = b /\ q < p) => q \in blocks[c].usedMap
    BY <1>1, <2>1, <2>3 DEF NotesLeast
  <2>5. note = p /\ blocks'[b].usedMap = blocks[b].usedMap \union {p}
    <3>1. CASE b < metaCount /\ blocks[b].data
      <4>1. /\ blocks[b].firstFree \notin blocks[b].usedMap
            /\ \A q \in 0 .. blocks[b].firstFree - 1 : q \in blocks[b].usedMap
        <5>1. b \in 0 .. metaCount - 1 /\ blocks[b].usedMap # Positions
          BY <1>2, <2>4, <3>1
        <5> QED
          BY <2>1, <5>1 DEF NotesLeast, NoteRight
      <4> QED
        BY <1>1, <1>2, <1>3, <2>4, <3>1, <4>1
    <3>2. CASE ~(b < metaCount /\ blocks[b].data)
      <4>1. blocks[b].usedMap = {}
        BY <1>1, <1>2, <2>1, <3>2 DEF SparseInv, Marked
      <4> QED
        BY <1>1, <1>2, <2>4, <3>2, <4>1
    <3> QED
      BY <3>1, <3>2
  <2>6. \A c \in 0 .. MaxBlocks - 1 : c # b => blocks'[c].usedMap = blocks[c].usedMap
    <3> SUFFICES ASSUME NEW c \in 0 .. MaxBlocks - 1, c # b
                 PROVE  blocks'[c].usedMap = blocks[c].usedMap
      OBVIOUS
    <3>1. CASE c \in metaCount .. n - 1
      <4>1. blocks'[c] = EmptyBlock /\ c \in metaCount .. MaxBlocks - 1
        BY <1>1, <1>2, <3>1
      <4> QED
        BY <1>3, <2>1, <4>1 DEF Marked
    <3>2. CASE c \notin metaCount .. n - 1
      BY <1>1, <3>2
    <3> QED
      BY <3>1, <3>2
  <2>7. Marked'
    <3>1. \A c \in 0 .. MaxBlocks - 1, q \in Positions :
             q \in blocks'[c].usedMap <=> Index(c, q) \in live'
      BY <2>2, <2>3, <2>5, <2>6
    <3>2. \A c \in n .. MaxBlocks - 1 : blocks'[c].usedMap = {} /\ ~blocks'[c].data
      BY <1>1, <1>2, <2>1 DEF Marked
    <3> QED
      BY <1>1, <3>1, <3>2 DEF Marked
  <2>8. \A c \in 0 .. b, q \in Positions : c < b \/ q <= p => q \in blocks'[c].usedMap
    BY <1>1, <1>2, <2>4, <2>5, <2>6
  <2>9. ASSUME NEW c \in 0 .. n - 1 PROVE NoteRight(blocks'[c])
    <3> SUFFICES ASSUME blocks'[c].usedMap # Positions
                 PROVE  /\ blocks'[c].firstFree \notin blocks'[c].usedMap
                        /\ \A q \in 0 .. blocks'[c].firstFree - 1 : q \in blocks'[c].usedMap
      BY DEF NoteRight
    <3>1. CASE c = b
      <4> DEFINE above == ClearAbove(blocks', b, p)
      <4>1. above # {}
        <5>1. \A q \in Positions : q \in above <=> q > p /\ q \notin blocks'[b].usedMap
          BY DEF ClearAbove
        <5>2. \A q \in Positions : q <= p => q \in blocks'[b].usedMap
          BY <1>2, <2>8
        <5>3. PICK q \in Positions : q \notin blocks'[b].usedMap
          BY <1>3, <3>1
        <5>4. q > p
          BY <1>2, <5>2, <5>3
        <5> QED
          BY <5>1, <5>3, <5>4
      <4>2. blocks'[b].firstFree \in above /\ \A q \in above : blocks'[b].firstFree <= q
        BY <1>1, <4>1, NextFreeRange
      <4>3. \A q \in Positions : q \in above <=> q > p /\ q \notin blocks'[b].usedMap
        BY DEF ClearAbove
      <4> HIDE DEF above
      <4> QED
        <5>1. \A q \in Positions : q <= p => q \in blocks'[b].usedMap
          BY <1>2, <2>8
        <5>2. blocks'[b].firstFree \in Positions /\ blocks'[b].firstFree \notin blocks'[b].usedMap
          BY <1>3, <4>2, <4>3
        <5>3. ASSUME NEW q \in 0 .. blocks'[b].firstFree - 1 PROVE q \in blocks'[b].usedMap
          BY <1>2, <4>2, <4>3, <5>1, <5>2
        <5> QED
          BY <3>1, <5>2, <5>3
    <3>2. CASE c # b /\ c \in metaCount .. n - 1
      BY <1>1, <1>2, <1>3, <3>2
    <3>3. CASE c # b /\ c \notin metaCount .. n - 1
      <4>1. blocks'[c] = blocks[c] /\ c \in 0 .. metaCount - 1
        BY <1>1, <1>2, <3>3
      <4> QED
        BY <2>1, <4>1 DEF NotesLeast, NoteRight
    <3> QED
      BY <3>1, <3>2, <3>3
  <2>10. PICK f \in 0 .. n, r \in Positions :
            /\ firstFree' = Index(f, r)
            /\ IF f < n THEN r \notin blocks'[f].usedMap ELSE r = 0
            /\ \A c \in 0 .. n - 1, q \in Positions :
                  c < f \/ (c = f /\ q < r) => q \in blocks'[c].usedMap
    <3>1. b \in 0 .. n - 1
      BY <1>1
    <3>2. \A c \in b + 1 .. n - 1 : NoteRight(blocks'[c])
      BY <2>9
    <3>3. blocks' \in [0 .. MaxBlocks - 1 -> BlockInfo] /\ UsedUpTo(blocks', b, p)
      BY <1>1, <2>8 DEF UsedUpTo
    <3>4. \E f \in 0 .. n, r \in Positions :
             NextFree(blocks', n, b, p) = Index(f, r) /\ LeastClear(blocks', n, f, r)
      BY <3>1, <3>2, <3>3, NextFreeLeast
    <3> QED
      BY <1>1, <3>4 DEF LeastClear
  <2>11. firstFree' \notin live'
    <3>1. f < MaxBlocks => r \notin blocks'[f].usedMap
      BY <1>1, <1>2, <2>7, <2>10 DEF Marked
    <3>2. f < MaxBlocks => Index(f, r) \notin live'
      BY <1>1, <1>2, <2>7, <3>1 DEF Marked
    <3>3. ~(f < MaxBlocks) => Index(f, r) \notin Indices
      BY <1>1, <1>2, IndexParts
    <3> QED
      BY <2>10, <3>2, <3>3 DEF live
  <2>12. ASSUME NEW index \in Indices, index < firstFree'
         PROVE  index \in live'
    <3> DEFINE c == BlockOf(index)  q == PositionOf(index)
    <3>1. /\ c \in Nat /\ q \in Positions /\ c < MaxBlocks /\ Index(c, q) = index
      BY PartsIndex, SparseArrayAssumption DEF Indices
    <3> HIDE DEF c, q
    <3>2. c < f \/ (c = f /\ q < r)
      BY <1>1, <1>2, <2>10, <2>12, <3>1, IndexOrder
    <3>3. c \in 0 .. n - 1
      BY <1>1, <1>2, <2>10, <3>1, <3>2
    <3>4. q \in blocks'[c].usedMap
      BY <2>10, <3>1, <3>2, <3>3
    <3> QED
      BY <1>2, <2>7, <3>1, <3>4 DEF Marked
  <2>13. NotesLeast'
    BY <1>1, <2>9, <2>11, <2>12 DEF NotesLeast
  <2> QED
    BY <2>2, <2>7, <2>13
<1> QED
  BY <1>4, <1>5, <1>6 DEF SparseInv

-------------------------------------------------------------------------------
(* Removing a slot.                                                        *)

\* The array is trimmed to its last block in use.
LEMMA TrimmedIs ==
    ASSUME NEW bs, NEW n \in Nat
    PROVE  /\ TrimmedCount(bs, n) \in 0 .. n
           /\ \A c \in TrimmedCount(bs, n) .. n - 1 : bs[c].usedMap = {}
<1> DEFINE inUse == {c \in 0 .. n - 1 : bs[c].usedMap # {}}
           last == CHOOSE c \in inUse : \A d \in inUse : d <= c
           behind == {n - 1 - c : c \in inUse}
<1>1. CASE inUse = {}
  <2>1. TrimmedCount(bs, n) = 0
    BY <1>1 DEF TrimmedCount
  <2> QED
    BY <1>1, <2>1
<1>2. CASE inUse # {}
  <2>1. behind \subseteq Nat /\ behind # {}
    BY <1>2
  <2>2. PICK m \in behind : \A d \in behind : m <= d
    BY <2>1, LeastIs
  <2>3. PICK c \in inUse : m = n - 1 - c
    BY <2>2
  <2>4. ASSUME NEW d \in inUse PROVE d <= c
    <3>1. n - 1 - d \in behind
      BY <2>4
    <3>2. n - 1 - c <= n - 1 - d
      BY <2>2, <2>3, <3>1
    <3> QED
      BY <3>2
  <2>5. last \in inUse /\ \A d \in inUse : d <= last
    BY <2>4
  <2>6. TrimmedCount(bs, n) = 1 + last
    BY <1>2 DEF TrimmedCount
  <2> HIDE DEF last
  <2> QED
    BY <2>5, <2>6
<1> QED
  BY <1>1, <1>2

\* What becomes of the blocks when a slot is removed.
LEMMA ClearBlocks ==
    ASSUME SparseInv, NEW index \in Indices, Remove(index)
    PROVE  \E b \in 0 .. metaCount - 1, p \in Positions, n \in 0 .. metaCount :
             /\ index = Index(b, p) /\ b = BlockOf(index) /\ p = PositionOf(index)
             /\ blocks' \in [0 .. MaxBlocks - 1 -> BlockInfo]
             /\ \A c \in 0 .. MaxBlocks - 1 : c # b => blocks'[c] = blocks[c]
             /\ blocks'[b].usedMap = blocks[b].usedMap \ {p}
             /\ blocks'[b].data <=> blocks'[b].usedMap # {}
             /\ blocks'[b].firstFree = IF p < blocks[b].firstFree THEN p ELSE blocks[b].firstFree
             /\ metaCount' = n
             /\ n < metaCount =>
                   count = 1 \/ \A c \in n .. metaCount - 1 : blocks'[c].usedMap = {}
<1> DEFINE b == BlockOf(index)
           p == PositionOf(index)
           info == blocks[b]
           used == info.usedMap \ {p}
           cleared == [data |-> info.data /\ used # {}, usedMap |-> used,
                       firstFree |-> IF p < info.firstFree THEN p ELSE info.firstFree]
<1>1. /\ blocks' = [blocks EXCEPT ![b] = cleared]
      /\ metaCount' = IF used # {} THEN metaCount
                      ELSE IF count = 1 THEN 0
                      ELSE IF b + 1 = metaCount THEN TrimmedCount(blocks', metaCount)
                      ELSE metaCount
      /\ b < metaCount
  BY DEF Remove
<1>2. /\ blocks \in [0 .. MaxBlocks - 1 -> BlockInfo] /\ metaCount \in 0 .. MaxBlocks
      /\ MaxBlocks \in Nat
  BY SparseArrayAssumption DEF SparseInv, TypeOK, BlockInfo
<1>3. /\ b \in 0 .. metaCount - 1 /\ b \in 0 .. MaxBlocks - 1 /\ p \in Positions
      /\ index = Index(b, p)
  <2>1. index \in Nat
    BY IndicesNat
  <2>2. /\ BlockOf(index) \in Nat /\ PositionOf(index) \in Positions
        /\ Index(BlockOf(index), PositionOf(index)) = index
    BY <2>1, PartsIndex
  <2> QED
    BY <1>1, <1>2, <2>2
<1>4. info \in BlockInfo /\ (info.data <=> info.usedMap # {})
  BY <1>2, <1>3 DEF SparseInv
<1> HIDE DEF b, p, info
<1>5. /\ cleared \in BlockInfo /\ cleared.usedMap = used
      /\ cleared.firstFree = IF p < info.firstFree THEN p ELSE info.firstFree
  BY <1>3, <1>4 DEF BlockInfo
<1>6. cleared.data <=> cleared.usedMap # {}
  <2>1. cleared.data = (info.data /\ used # {}) /\ cleared.usedMap = used
    BY Zenon
  <2> QED
    BY <1>4, <2>1
<1> HIDE DEF cleared
<1>7. /\ blocks' \in [0 .. MaxBlocks - 1 -> BlockInfo] /\ blocks'[b] = cleared
      /\ \A c \in 0 .. MaxBlocks - 1 : c # b => blocks'[c] = blocks[c]
  BY <1>1, <1>2, <1>3, <1>5
<1>8. metaCount' \in 0 .. metaCount
      /\ (metaCount' < metaCount =>
             count = 1 \/ \A c \in metaCount' .. metaCount - 1 : blocks'[c].usedMap = {})
  <2>1. /\ TrimmedCount(blocks', metaCount) \in 0 .. metaCount
        /\ \A c \in TrimmedCount(blocks', metaCount) .. metaCount - 1 : blocks'[c].usedMap = {}
    BY <1>2, TrimmedIs
  <2>2. metaCount' \in {metaCount, TrimmedCount(blocks', metaCount)}
        \/ (count = 1 /\ metaCount' = 0)
    BY <1>1
  <2> QED
    BY <1>2, <2>1, <2>2
<1>9. blocks'[b].usedMap = blocks[b].usedMap \ {p}
  BY <1>5, <1>7 DEF info
<1> QED
  BY <1>3, <1>5, <1>6, <1>7, <1>8, <1>9 DEF info, b, p

\* A slot that had one holder has none, and one less is counted.
LEMMA DropOne ==
    ASSUME TypeOK, Counted, NEW index \in live,
           holders' = [holders EXCEPT ![index] = @ - 1], count' = count - 1
    PROVE  live' = live \ {index} /\ Counted'
<1>1. holders[index] = 1 /\ index \in Indices
  BY DEF TypeOK, Counted, live
<1>2. live' = live \ {index}
  BY <1>1 DEF TypeOK, live
<1>3. IsFiniteSet(live)
  BY LiveFinite
<1>4. Cardinality(live \ {index}) = Cardinality(live) - 1
  BY <1>3, FS_RemoveElement
<1> QED
  BY <1>1, <1>2, <1>4 DEF TypeOK, Counted

\* Removing a slot unmarks it; its block and the array note it if it is the least free one.
LEMMA RemoveKeeps ==
    ASSUME SparseInv, NEW index \in Indices, Remove(index)
    PROVE  SparseInv'
<1>1. PICK b \in 0 .. metaCount - 1, p \in Positions, n \in 0 .. metaCount :
         /\ index = Index(b, p) /\ b = BlockOf(index) /\ p = PositionOf(index)
         /\ blocks' \in [0 .. MaxBlocks - 1 -> BlockInfo]
         /\ \A c \in 0 .. MaxBlocks - 1 : c # b => blocks'[c] = blocks[c]
         /\ blocks'[b].usedMap = blocks[b].usedMap \ {p}
         /\ blocks'[b].data <=> blocks'[b].usedMap # {}
         /\ blocks'[b].firstFree = IF p < blocks[b].firstFree THEN p ELSE blocks[b].firstFree
         /\ metaCount' = n
         /\ n < metaCount =>
               count = 1 \/ \A c \in n .. metaCount - 1 : blocks'[c].usedMap = {}
  BY ClearBlocks
<1>2. /\ MaxBlocks \in Nat /\ metaCount \in 0 .. MaxBlocks /\ b \in 0 .. MaxBlocks - 1
      /\ Block \in Nat /\ Positions = 0 .. Block - 1
  BY SparseArrayAssumption DEF SparseInv, TypeOK, Positions
<1>3. /\ count # 0 /\ count' = count - 1 /\ index \in live
      /\ firstFree' = IF index < firstFree THEN index ELSE firstFree
      /\ holders' = [holders EXCEPT ![index] = @ - 1]
      /\ stale' = (stale \/ RemoveAboveFirstFree(index))
  BY DEF Remove
<1>4. TypeOK'
  <2>1. (blocks \in [0 .. MaxBlocks - 1 ->
                       [data : BOOLEAN, usedMap : SUBSET Positions, firstFree : Positions]])'
    BY <1>1 DEF BlockInfo
  <2>2. metaCount' \in 0 .. MaxBlocks
    BY <1>1, <1>2
  <2>3. firstFree' \in 0 .. Block * MaxBlocks
    BY <1>3, SparseArrayAssumption DEF Indices, SparseInv, TypeOK
  <2>4. count' \in Nat
    BY <1>3 DEF SparseInv, TypeOK
  <2>5. holders' \in [Indices -> Nat]
    BY <1>3 DEF SparseInv, TypeOK, live
  <2>6. stale' \in BOOLEAN
    BY <1>3
  <2> QED
    BY <2>1, <2>2, <2>3, <2>4, <2>5, <2>6 DEF TypeOK
<1>5. ASSUME NEW c \in 0 .. metaCount - 1
      PROVE  blocks'[c].data <=> blocks'[c].usedMap # {}
  <2>1. CASE c = b
    BY <1>1, <2>1
  <2>2. CASE c # b
    <3>1. blocks'[c] = blocks[c]
      BY <1>1, <1>2, <2>2
    <3> QED
      BY <3>1 DEF SparseInv
  <2> QED
    BY <2>1, <2>2
<1>6. ASSUME ~stale'
      PROVE  (Marked /\ NotesLeast /\ Counted)'
  <2>1. TypeOK /\ Marked /\ NotesLeast /\ Counted /\ ~RemoveAboveFirstFree(index)
    BY <1>3, <1>6 DEF SparseInv
  <2>2. live' = live \ {index} /\ Counted'
    BY <1>3, <2>1, DropOne
  <2>3. \A c \in 0 .. MaxBlocks - 1 :
           blocks[c].usedMap \subseteq Positions /\ blocks'[c].usedMap \subseteq Positions
           /\ blocks[c].firstFree \in Positions
    BY <1>1, <2>1 DEF TypeOK, BlockInfo
  <2>4. \A c \in 0 .. MaxBlocks - 1, q \in Positions :
           q \in blocks'[c].usedMap <=> Index(c, q) \in live'
    <3> SUFFICES ASSUME NEW c \in 0 .. MaxBlocks - 1, NEW q \in Positions
                 PROVE  q \in blocks'[c].usedMap <=> Index(c, q) \in live'
      OBVIOUS
    <3>1. BlockOf(Index(c, q)) = c /\ PositionOf(Index(c, q)) = q
      BY <1>2, IndexParts
    <3>2. q \in blocks[c].usedMap <=> Index(c, q) \in live
      BY <2>1 DEF Marked
    <3>3. q \in blocks'[c].usedMap <=> q \in blocks[c].usedMap /\ ~(c = b /\ q = p)
      BY <1>1
    <3>4. Index(c, q) = index <=> c = b /\ q = p
      BY <1>1, <3>1
    <3> QED
      BY <2>2, <3>2, <3>3, <3>4
  <2>5. ASSUME NEW c \in n .. MaxBlocks - 1
        PROVE  blocks'[c].usedMap = {}
    <3>1. CASE count = 1
      <4>1. live' = {}
        <5>1. IsFiniteSet(live')
          BY <2>2, LiveFinite, FS_Subset
        <5>2. Cardinality(live') = 0
          BY <1>3, <2>2, <3>1 DEF Counted
        <5> QED
          BY <5>1, <5>2, FS_EmptySet
      <4> QED
        BY <1>1, <1>2, <2>3, <2>4, <4>1
    <3>2. CASE count # 1 /\ c < metaCount
      BY <1>1, <1>2, <3>2
    <3>3. CASE ~(c < metaCount)
      <4>1. c \in metaCount .. MaxBlocks - 1 /\ c # b /\ c \in 0 .. MaxBlocks - 1
        BY <1>1, <1>2, <3>3
      <4> QED
        BY <1>1, <2>1, <4>1 DEF Marked
    <3> QED
      BY <3>1, <3>2, <3>3
  <2>6. ASSUME NEW c \in n .. MaxBlocks - 1
        PROVE  ~blocks'[c].data
    <3>1. CASE c < metaCount
      <4>1. c \in 0 .. metaCount - 1
        BY <1>1, <1>2, <3>1
      <4> QED
        BY <1>5, <2>5, <4>1
    <3>2. CASE ~(c < metaCount)
      <4>1. c \in metaCount .. MaxBlocks - 1 /\ c # b /\ c \in 0 .. MaxBlocks - 1
        BY <1>1, <1>2, <3>2
      <4> QED
        BY <1>1, <2>1, <4>1 DEF Marked
    <3> QED
      BY <3>1, <3>2
  <2>7. Marked'
    BY <1>1, <2>4, <2>5, <2>6 DEF Marked
  <2>8. NoteRight(blocks'[b])
    <3> DEFINE info == blocks[b]
    <3>1. NoteRight(info)
      BY <2>1 DEF NotesLeast
    <3>2. info.usedMap = Positions => p <= info.firstFree
      BY <1>1, <1>2, <2>1, <2>3 DEF RemoveAboveFirstFree
    <3>3. /\ info.usedMap \subseteq Positions /\ info.firstFree \in Positions /\ p \in Nat
          /\ p \in info.usedMap
      <4>1. p \in info.usedMap
        BY <1>1, <1>2, <1>3, <2>1 DEF Marked
      <4> QED
        BY <1>2, <2>3, <4>1
    <3>4. \A q \in 0 .. info.firstFree - 1 : q \in info.usedMap
      BY <1>2, <3>1, <3>3 DEF NoteRight
    <3>5. /\ blocks'[b].usedMap = info.usedMap \ {p}
          /\ blocks'[b].firstFree = IF p < info.firstFree THEN p ELSE info.firstFree
      BY <1>1
    <3> HIDE DEF info
    <3>6. CASE p < info.firstFree
      <4>1. \A q \in 0 .. p - 1 : q \in 0 .. info.firstFree - 1 /\ q # p
        BY <1>2, <3>3, <3>6
      <4> QED
        BY <3>4, <3>5, <3>6, <4>1 DEF NoteRight
    <3>7. CASE ~(p < info.firstFree)
      <4>1. info.firstFree \notin blocks'[b].usedMap
        BY <1>2, <3>1, <3>2, <3>3, <3>5, <3>7 DEF NoteRight
      <4>2. \A q \in 0 .. info.firstFree - 1 : q \in blocks'[b].usedMap
        BY <1>2, <3>3, <3>4, <3>5, <3>7
      <4> QED
        BY <3>5, <3>7, <4>1, <4>2 DEF NoteRight
    <3> QED
      BY <3>6, <3>7
  <2>9. ASSUME NEW c \in 0 .. n - 1 PROVE NoteRight(blocks'[c])
    <3>1. c \in 0 .. metaCount - 1 /\ c \in 0 .. MaxBlocks - 1
      BY <1>2
    <3> QED
      BY <1>1, <2>1, <2>8, <3>1 DEF NotesLeast
  <2>10. NotesLeast'
    <3>1. firstFree' \notin live'
      BY <1>3, <2>1, <2>2 DEF NotesLeast
    <3>2. ASSUME NEW i \in Indices, i < firstFree'
          PROVE  i \in live'
      <4>1. i \in Nat /\ index \in Nat /\ firstFree \in Nat
        BY <2>1, SparseArrayAssumption DEF Indices, TypeOK
      <4>2. i < firstFree /\ i # index
        BY <1>3, <3>2, <4>1
      <4> QED
        BY <2>1, <2>2, <4>2 DEF NotesLeast
    <3> QED
      BY <1>1, <2>9, <3>1, <3>2 DEF NotesLeast
  <2> QED
    BY <2>2, <2>7, <2>10
<1>7. (\A c \in 0 .. metaCount - 1 : blocks[c].data <=> blocks[c].usedMap # {})'
  <2>1. \A c \in 0 .. n - 1 : c \in 0 .. metaCount - 1
    BY <1>2
  <2> QED
    BY <1>1, <1>5, <2>1
<1> QED
  BY <1>4, <1>6, <1>7 DEF SparseInv

\* A removal fails only after the order was broken; then only the holder changes.
LEMMA RemoveFailsKeeps ==
    ASSUME SparseInv, NEW index \in Indices, RemoveFails(index)
    PROVE  SparseInv'
<1>1. /\ UNCHANGED <<blocks, metaCount, firstFree, count, stale>> /\ index \in live
      /\ holders' = [holders EXCEPT ![index] = @ - 1]
      /\ count = 0 \/ BlockOf(index) >= metaCount
  BY DEF RemoveFails
<1>2. TypeOK'
  <2>1. holders' \in [Indices -> Nat]
    BY <1>1 DEF SparseInv, TypeOK, live
  <2> QED
    BY <1>1, <2>1 DEF SparseInv, TypeOK
<1>3. stale
  <2> SUFFICES ASSUME ~stale PROVE FALSE
    OBVIOUS
  <2>1. Marked /\ Counted
    BY DEF SparseInv
  <2>2. count # 0
    BY <1>1, <2>1, LiveFinite, FS_EmptySet DEF Counted
  <2>3. /\ BlockOf(index) \in 0 .. MaxBlocks - 1 /\ PositionOf(index) \in Positions
        /\ Index(BlockOf(index), PositionOf(index)) = index
    <3>1. index \in Nat
      BY IndicesNat
    <3> QED
      BY <3>1, PartsIndex, SparseArrayAssumption
  <2>4. BlockOf(index) \in metaCount .. MaxBlocks - 1
    BY <1>1, <2>2, <2>3 DEF SparseInv, TypeOK
  <2> QED
    BY <1>1, <2>1, <2>3, <2>4 DEF Marked
<1> QED
  BY <1>1, <1>2, <1>3 DEF SparseInv

-------------------------------------------------------------------------------
\* Through any order of acquiring and removing, until a slot is removed above the note of a
\* full block: a walk reaches every slot in use and no other and as many as are counted, and
\* swSparseArrayAcquireFirstFree hands out the least free index.  And always: the memory of
\* a block exists exactly while one of its slots is marked.
THEOREM SparseSound == Spec => []SparseAgrees
<1>1. SparseInv /\ [Next]_vars => SparseInv'
  <2> SUFFICES ASSUME SparseInv, [Next]_vars PROVE SparseInv'
    OBVIOUS
  <2>1. CASE AcquireFirstFree
    BY <2>1, AcquireKeeps
  <2>2. ASSUME NEW index \in Indices, Remove(index) PROVE SparseInv'
    BY <2>2, RemoveKeeps
  <2>3. ASSUME NEW index \in Indices, RemoveFails(index) PROVE SparseInv'
    BY <2>3, RemoveFailsKeeps
  <2>4. CASE UNCHANGED vars
    BY <2>4 DEF vars, SparseInv, TypeOK, Marked, NotesLeast, Counted, live
  <2> QED
    BY <2>1, <2>2, <2>3, <2>4 DEF Next
<1>2. SparseInv => SparseAgrees
  BY SparseInvAgrees
<1> QED
  BY <1>1, <1>2, InitSparseInv, PTL DEF Spec
===============================================================================

------------------------------ MODULE SparseArray ------------------------------
(***************************************************************************)
(* collections/sparse-array.c: an array of slots in blocks of a fixed      *)
(* power of two, which hands out the first free index and frees the memory *)
(* of a block when its last slot is removed.  It holds the thread entries  *)
(* of the thread manager, which keeps pointers into the blocks.            *)
(*                                                                         *)
(* Memory is assumed not to run out, and clients remove an index once      *)
(* after they acquired it, as the thread manager does.                     *)
(***************************************************************************)
EXTENDS Integers, FiniteSets

CONSTANTS Block,     \* blockElementsMax
          MaxBlocks  \* bound: blocks the array may grow to; their slots bound count

ASSUME SparseArrayAssumption ==
    /\ Block \in {1, 2, 4, 8, 16, 32, 64}
    /\ MaxBlocks \in Nat \ {0}

VARIABLES
    blocks,    \* metaData: one swSparseArrayBlockInfo per block
    metaCount, \* metaData.count
    firstFree, \* array->firstFree, an index
    count,     \* array->count
    holders,   \* history: how many clients hold an index; more than one is a mistake
    stale      \* history: whether RemoveAboveFirstFree ever happened

vars == <<blocks, metaCount, firstFree, count, holders, stale>>

Positions == 0 .. Block - 1
Indices == 0 .. Block * MaxBlocks - 1
EmptyBlock == [data |-> FALSE, usedMap |-> {}, firstFree |-> 0]

BlockOf(index) == index \div Block
PositionOf(index) == index % Block
Index(b, p) == b * Block + p

live == {index \in Indices : holders[index] > 0}

Least(S) == CHOOSE n \in S : \A m \in S : n <= m

-------------------------------------------------------------------------------
Init ==
    /\ blocks = [b \in 0 .. MaxBlocks - 1 |-> EmptyBlock]
    /\ metaCount = 0 /\ firstFree = 0 /\ count = 0
    /\ holders = [index \in Indices |-> 0] /\ stale = FALSE

\* The next index to hand out, found by swSparseArraySetNextFree after position p of
\* block b was taken: the next clear bit of the block, else what the next block that is
\* not full has noted as its first free position, else the first index of a new block.
ClearAbove(bs, b, p) == {q \in Positions : q > p /\ q \notin bs[b].usedMap}
NotFullAfter(bs, n, b) == {c \in b + 1 .. n - 1 : bs[c].usedMap # Positions}
NextFree(bs, n, b, p) ==
    IF ClearAbove(bs, b, p) # {} THEN Index(b, Least(ClearAbove(bs, b, p)))
    ELSE IF NotFullAfter(bs, n, b) # {}
         THEN LET c == Least(NotFullAfter(bs, n, b)) IN Index(c, bs[c].firstFree)
         ELSE Index(n, 0)

\* Mutant: the free position noted in the block is not advanced.
AcquireFirstFreeKept ==
    /\ firstFree \in Indices /\ count < Block * MaxBlocks
    /\ LET b == BlockOf(firstFree)
           p == PositionOf(firstFree)
           n == IF metaCount <= b THEN b + 1 ELSE metaCount
           grown == [c \in DOMAIN blocks |->
                       IF c \in metaCount .. n - 1 THEN EmptyBlock ELSE blocks[c]]
           ready == IF grown[b].data THEN grown[b] ELSE [EmptyBlock EXCEPT !.data = TRUE]
           taken == [grown EXCEPT
                       ![b] = [ready EXCEPT !.usedMap = @ \union {ready.firstFree}]]
       IN /\ metaCount' = n
          /\ blocks' = taken
          /\ firstFree' = NextFree(taken, n, b, p)
    /\ count' = count + 1
    /\ holders' = [holders EXCEPT ![firstFree] = @ + 1]
    /\ UNCHANGED stale

\* swSparseArrayAcquireFirstFree: the index comes from array->firstFree, but the bit
\* that is set is the one the block has noted as its first free position.  A full block
\* keeps the note it had.
AcquireFirstFree ==
    /\ firstFree \in Indices /\ count < Block * MaxBlocks
    /\ LET b == BlockOf(firstFree)
           p == PositionOf(firstFree)
           n == IF metaCount <= b THEN b + 1 ELSE metaCount
           grown == [c \in DOMAIN blocks |->
                       IF c \in metaCount .. n - 1 THEN EmptyBlock ELSE blocks[c]]
           ready == IF grown[b].data THEN grown[b] ELSE [EmptyBlock EXCEPT !.data = TRUE]
           taken == [grown EXCEPT
                       ![b] = [ready EXCEPT !.usedMap = @ \union {ready.firstFree}]]
           above == ClearAbove(taken, b, p)
       IN /\ metaCount' = n
          /\ blocks' = IF above = {} THEN taken
                       ELSE [taken EXCEPT ![b].firstFree = Least(above)]
          /\ firstFree' = NextFree(taken, n, b, p)
    /\ count' = count + 1
    /\ holders' = [holders EXCEPT ![firstFree] = @ + 1]
    /\ UNCHANGED stale

-------------------------------------------------------------------------------
\* After the block at the end of the array was freed, the freed blocks before it go too.
TrimmedCount(bs, n) ==
    LET inUse == {c \in 0 .. n - 1 : bs[c].usedMap # {}}
    IN IF inUse = {} THEN 0 ELSE 1 + (CHOOSE c \in inUse : \A d \in inUse : d <= c)

\* The block is full and its note is below the position: the note stays on a used slot.
RemoveAboveFirstFree(index) ==
    LET block == blocks[BlockOf(index)]
    IN block.usedMap = Positions /\ PositionOf(index) > block.firstFree

\* swSparseArrayRemove and swSparseArrayExtract of an index the client holds.
Remove(index) ==
    /\ index \in live /\ count # 0 /\ BlockOf(index) < metaCount
    /\ LET b == BlockOf(index)
           p == PositionOf(index)
           used == blocks[b].usedMap \ {p}
           bs == [blocks EXCEPT
                    ![b] = [data |-> @.data /\ used # {}, usedMap |-> used,
                            firstFree |-> IF p < @.firstFree THEN p ELSE @.firstFree]]
       IN /\ blocks' = bs
          /\ metaCount' = IF used # {} THEN metaCount
                          ELSE IF count = 1 THEN 0
                          ELSE IF b + 1 = metaCount THEN TrimmedCount(bs, metaCount)
                          ELSE metaCount
    /\ firstFree' = IF index < firstFree THEN index ELSE firstFree
    /\ count' = count - 1
    /\ holders' = [holders EXCEPT ![index] = @ - 1]
    /\ stale' = (stale \/ RemoveAboveFirstFree(index))

\* The same call when the array no longer reaches that far: it changes nothing and fails.
RemoveFails(index) ==
    /\ index \in live
    /\ count = 0 \/ BlockOf(index) >= metaCount
    /\ holders' = [holders EXCEPT ![index] = @ - 1]
    /\ UNCHANGED <<blocks, metaCount, firstFree, count, stale>>

Next ==
    \/ AcquireFirstFree
    \/ \E index \in Indices : Remove(index) \/ RemoveFails(index)

Spec == Init /\ [][Next]_vars

-------------------------------------------------------------------------------
\* swSparseArrayWalk calls its function on every slot whose bit is set, block by block.
Visited == {index \in Indices :
              /\ BlockOf(index) < metaCount
              /\ PositionOf(index) \in blocks[BlockOf(index)].usedMap}

\* What the variables are.
TypeOK ==
    /\ blocks \in [0 .. MaxBlocks - 1 ->
                     [data : BOOLEAN, usedMap : SUBSET Positions, firstFree : Positions]]
    /\ metaCount \in 0 .. MaxBlocks
    /\ firstFree \in 0 .. Block * MaxBlocks
    /\ count \in Nat
    /\ holders \in [Indices -> Nat]
    /\ stale \in BOOLEAN

\* A walk reaches every slot in use and no other, and then finds as many as the array
\* counts: swSparseArrayWalk returns true when its function does.
WalkComplete == Visited = live /\ count = Cardinality(Visited)

\* The same as long as nothing was removed above the note of a full block.
WalkCompleteInOrder == ~stale => WalkComplete

\* So long, the index that swSparseArrayAcquireFirstFree hands out next is the least one
\* that nobody holds: it is never handed out twice, and the array stays as short as it
\* can, through blocks that were filled, emptied, freed and trimmed in any order.
HandsOutLeast == ~stale => firstFree = Least(0 .. Block * MaxBlocks \ live)

\* The memory of a block exists exactly while one of its slots is marked, whatever the
\* order of removals: no empty block keeps its memory, no marked slot loses it; blocks
\* trimmed from the array own no memory that nobody would free.
MemoryFollowsUse ==
    /\ \A b \in 0 .. metaCount - 1 : blocks[b].data <=> blocks[b].usedMap # {}
    /\ ~stale => \A b \in metaCount .. MaxBlocks - 1 : ~blocks[b].data

\* A walk of the sparse array finds what is in it, the next index it hands out is the
\* least free one, and the memory of its blocks follows their use.
SparseAgrees == TypeOK /\ WalkCompleteInOrder /\ HandsOutLeast /\ MemoryFollowsUse
===============================================================================

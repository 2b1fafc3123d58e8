--------------------------------- MODULE LPMV2 ----------------------------------
(***************************************************************************)
(* collections/lpm-v2.c: longest prefix match in the trie of LPMTrie,      *)
(* which a removal shrinks: nodes without prefixes go, and a prefix that   *)
(* is left alone in a node waits in the slot above instead.  A node has an *)
(* array of prefixes, and a bit map and prefixCount that say which of its  *)
(* places are taken; the search for a lonely prefix goes by these.  It     *)
(* does so word by word and takes the place in a word for that in the      *)
(* array: a prefix in a later word stays where it is and is only no longer *)
(* counted.  nodeCount is what it counts.                                  *)
(***************************************************************************)
EXTENDS LPMTrie

CONSTANTS
    WordSizes,  \* bits in a word of the bit maps: 64 for nodes of 16 to 256 places
    MaxCount    \* bound: countV2, which grows with every prefix that is lost and inserted again

VARIABLES
    lpmV2,       \* the trie of swLPMV2, and the slots with a prefix that is not counted
    wordBits,    \* one of WordSizes
    countV2,     \* its count
    contentV2,   \* history: the prefixes inserted and not removed
    refusedV2,   \* history: whether an insertion failed
    missedV2     \* history: whether a lonely prefix was not found

lpmV2Vars == <<lpmV2, wordBits, countV2, contentV2, refusedV2, missedV2>>

Init ==
    /\ lpmV2 = [nodes |-> {<<>>}, stored |-> <<>>, uncounted |-> {}]
    /\ wordBits \in WordSizes
    /\ countV2 = 0 /\ contentV2 = {} /\ refusedV2 = FALSE /\ missedV2 = FALSE

\* SW_LPM_PREFIX_STORAGE_POSITION: the place of a slot in the arrays of its node.
Seqs == INSTANCE SequencesExt
Position(slot) ==
    LET bits == SubSeq(slot, Len(NodeOf(slot)) + 1, Len(slot))
        value == Seqs!FoldLeft(LAMBDA sum, bit : 2 * sum + bit, 0, bits)
    IN IF Len(bits) = Factor THEN value ELSE 2 ^ Factor - 2 ^ (Len(bits) + 1) + value

\* The slots whose prefix is counted, those of a node, and the nodes right below it.
Counted(t) == DOMAIN t.stored \ t.uncounted
PrefixesOf(t, node) == {slot \in Counted(t) : NodeOf(slot) = node}
ChildrenOf(t, node) == {child \in t.nodes \ {<<>>} : NodeOf(child) = node}

Lonely(t, node) == ChildrenOf(t, node) = {} /\ Cardinality(PrefixesOf(t, node)) = 1

\* The loops of lpm.c, repeated over nodes that count.  They go by the array of prefixes; a
\* slot that is written is counted, and one that is cleared holds none.
NodeInsertV2(t, prefix) ==
    LET new == NodeInsert(t, prefix, 0)
    IN [new EXCEPT !.uncounted = {slot \in @ \intersect DOMAIN new.stored :
                                    new.stored[slot] = t.stored[slot]}]
ClearPrefix(t, slot) == [Release(t, slot) EXCEPT !.uncounted = @ \ {slot}]
FindV2(prefix) == Found(lpmV2, prefix)
MatchV2(value) == Match(lpmV2, value)
ValidateV2 ==
    Valid(lpmV2) /\ lpmV2.uncounted = {} /\ countV2 = Cardinality(DOMAIN lpmV2.stored)

\* swLPMV2Insert
Insert(prefix) ==
    LET new == NodeInsertV2(lpmV2, prefix)
    IN /\ countV2 < MaxCount
       /\ lpmV2' = new
       /\ countV2' = IF Grown(lpmV2, new) THEN countV2 + 1 ELSE countV2
       /\ contentV2' = contentV2 \union {prefix}
       /\ refusedV2' = (refusedV2 \/ ~Grown(lpmV2, new))
       /\ UNCHANGED <<wordBits, missedV2>>

\* swLPMV2NodeDeleteChild: the node goes with all that is in its array.
DeleteChild(t, node) ==
    LET left == {slot \in DOMAIN t.stored : NodeOf(slot) # node}
    IN [nodes |-> t.nodes \ {node},
        stored |-> [slot \in left |-> t.stored[slot]],
        uncounted |-> t.uncounted \intersect left]

\* CleanupLastPrefix: the last prefix of a node moves to the slot above and the node goes,
\* if it is in the first word; else it is no longer counted, and that is all.
LiftLast(t, node) ==
    LET slot == CHOOSE s \in PrefixesOf(t, node) : TRUE
    IN IF Position(slot) < wordBits
       THEN [Store(DeleteChild(t, node), node, t.stored[slot]) EXCEPT !.uncounted = @ \ {node}]
       ELSE [t EXCEPT !.uncounted = @ \union {slot}]

\* Mutant: only a lonely prefix of the same node is lifted; empty nodes stay.
ShrinkOnce(t, node) ==
    IF node # <<>> /\ node \notin Counted(t) /\ Lonely(t, node)
    THEN LiftLast(t, node) ELSE t

\* The loop of Remove, from the node of the removed prefix up to one that stays.
Shrink(t, node) ==
    LET RECURSIVE Up(_, _)
        Up(trie, at) ==
            LET lifted == LiftLast(trie, at)
            IN IF at = <<>> \/ ChildrenOf(trie, at) # {} THEN trie
               ELSE CASE PrefixesOf(trie, at) = {} -> Up(DeleteChild(trie, at), NodeOf(at))
                      [] Lonely(trie, at) /\ at \notin Counted(trie) ->
                           IF at \in lifted.nodes THEN lifted ELSE Up(lifted, NodeOf(at))
                      [] OTHER -> trie
    IN Up(t, node)

\* swLPMV2Remove: the prefix goes, a lonely one below it is lifted, and the trie shrinks.
Remove(prefix) ==
    LET slot == CHOOSE s \in FindV2(prefix) : TRUE
        cleared == ClearPrefix(lpmV2, slot)
        lifted == IF slot \in cleared.nodes /\ Lonely(cleared, slot)
                  THEN LiftLast(cleared, slot) ELSE cleared
    IN /\ countV2 > 0 /\ FindV2(prefix) # {}
       /\ lpmV2' = Shrink(lifted, NodeOf(slot))
       /\ countV2' = countV2 - 1
       /\ contentV2' = contentV2 \ {prefix}
       /\ missedV2' = (missedV2 \/ lpmV2'.uncounted # {})
       /\ UNCHANGED <<wordBits, refusedV2>>

Next == \E prefix \in Prefixes : Insert(prefix) \/ Remove(prefix)

Spec == Init /\ [][Next]_lpmV2Vars

-------------------------------------------------------------------------------
\* No node is empty, and none keeps a single prefix that could wait above it, as
\* swLPMV2Validate expects.
Compact ==
    \A node \in lpmV2.nodes \ {<<>>} :
       /\ PrefixesOf(lpmV2, node) # {} \/ ChildrenOf(lpmV2, node) # {}
       /\ Lonely(lpmV2, node) => node \in DOMAIN lpmV2.stored

\* The trie is valid, holds and counts what was inserted and not removed, and is as small
\* as it should be as long as nothing was inserted twice; that is, until a lonely prefix
\* was missed in a later word.  From then on prefixes may be gone, but none is there twice,
\* out of place or after its removal.
LPMV2Agrees ==
    /\ Valid(lpmV2)
    /\ \A slot \in DOMAIN lpmV2.stored : lpmV2.stored[slot] \in contentV2
    /\ ~missedV2 =>
          /\ ValidateV2 /\ Holds(lpmV2, contentV2, FindV2, MatchV2)
          /\ ~refusedV2 => Compact
===============================================================================

-------------------------------- MODULE LPMTrie ---------------------------------
(***************************************************************************)
(* What collections/lpm.c and collections/lpm-v2.c share: a trie that      *)
(* spends Factor bits of a prefix at each level.  A prefix is a sequence   *)
(* of bits and a node is known by the bits that lead to it, so that a slot *)
(* of a node is the node's bits and one to Factor more.  A prefix is       *)
(* "final" in the slot that it is itself; a longer one may wait in a slot  *)
(* of full length as long as there is no node below.  Memory is assumed    *)
(* not to run out.                                                         *)
(***************************************************************************)
EXTENDS Integers, FiniteSets, Sequences

CONSTANTS
    Factor,    \* bits per level
    Prefixes,  \* the prefixes that are inserted and removed
    Values     \* the values that are looked up

Leading(bits, n) == SubSeq(bits, 1, n)
Covers(prefix, bits) == Len(prefix) <= Len(bits) /\ Leading(bits, Len(prefix)) = prefix
Longest(set) == CHOOSE bits \in set : \A other \in set : Len(other) <= Len(bits)

\* New: a root without prefixes, and no other node.
EmptyTrie == [nodes |-> {<<>>}, stored |-> <<>>]

\* The node that a slot belongs to.
NodeOf(slot) == Leading(slot, ((Len(slot) - 1) \div Factor) * Factor)

\* The slot that holds the bits from offset on: Factor of them or what is left.
SlotAt(prefix, offset) ==
    Leading(prefix, IF offset + Factor >= Len(prefix) THEN Len(prefix) ELSE offset + Factor)

Store(t, slot, prefix) ==
    [t EXCEPT !.stored = [s \in DOMAIN t.stored \union {slot} |->
                             IF s = slot THEN prefix ELSE t.stored[s]]]
Release(t, slot) == [t EXCEPT !.stored = [s \in DOMAIN t.stored \ {slot} |-> t.stored[s]]]

\* Insertion below the node that ends at offset.  A prefix that waits in a slot on the way
\* is pushed down to a node of its own first, also when it is the same one.
NodeInsert(t, prefix, offset) ==
    LET RECURSIVE Into(_, _, _)
        Into(trie, bits, i) ==
            LET slot == SlotAt(bits, i)
                final == i + Factor >= Len(bits)
                taken == slot \in DOMAIN trie.stored
                below == [trie EXCEPT !.nodes = @ \union {slot}]
            IN CASE ~taken /\ (final \/ slot \notin trie.nodes) -> Store(trie, slot, bits)
                 [] ~taken /\ ~final /\ slot \in trie.nodes -> Into(trie, bits, i + Factor)
                 [] taken /\ final /\ trie.stored[slot] = slot -> trie
                 [] taken /\ ~final /\ trie.stored[slot] = slot -> Into(below, bits, i + Factor)
                 [] taken /\ trie.stored[slot] # slot ->
                       LET pushed == Into(below, trie.stored[slot], i + Factor)
                       IN IF final THEN Store(pushed, slot, bits)
                          ELSE Into(Release(pushed, slot), bits, i + Factor)
    IN Into(t, prefix, offset)

\* Whether the insertion that led from one trie to the other succeeded.
Grown(old, new) == Cardinality(DOMAIN new.stored) > Cardinality(DOMAIN old.stored)

\* The slots that a walk along the prefix looks at.
Visited(t, prefix) ==
    {slot \in {SlotAt(prefix, Factor * k) : k \in 0 .. (Len(prefix) - 1) \div Factor} :
        \A n \in 0 .. Len(NodeOf(slot)) : n % Factor = 0 => Leading(slot, n) \in t.nodes}

\* Find: where on that walk the prefix is, final or waiting.
Found(t, prefix) ==
    {slot \in Visited(t, prefix) \intersect DOMAIN t.stored : t.stored[slot] = prefix}

NoPrefix == <<>>

\* Match takes the last prefix in a slot on the way down, without a look at the rest of it.
Match(t, value) ==
    LET met == {slot \in DOMAIN t.stored : Covers(slot, value) /\ NodeOf(slot) \in t.nodes}
    IN IF met = {} THEN NoPrefix ELSE t.stored[Longest(met)]

\* Validate, but for the counts: final prefixes are in slots of nodes that exist; a prefix
\* waits only in a slot of full length with no node below; none is there twice.
Valid(t) ==
    /\ \A node \in t.nodes \ {<<>>} : NodeOf(node) \in t.nodes
    /\ \A slot \in DOMAIN t.stored :
          /\ NodeOf(slot) \in t.nodes
          /\ Covers(slot, t.stored[slot])
          /\ t.stored[slot] # slot => Len(slot) % Factor = 0 /\ slot \notin t.nodes
    /\ \A s1, s2 \in DOMAIN t.stored : t.stored[s1] = t.stored[s2] => s1 = s2

\* The trie holds these prefixes: it finds them and no other, and matches a value with the
\* longest that covers it, unless a waiting one that was not compared is in the way.
Holds(t, content, Find(_), MatchOf(_)) ==
    /\ {t.stored[slot] : slot \in DOMAIN t.stored} = content
    /\ \A prefix \in Prefixes : Find(prefix) # {} <=> prefix \in content
    /\ \A value \in Values :
          LET match == MatchOf(value)
              covering == {prefix \in content : Covers(prefix, value)}
          IN /\ Covers(match, value) => match = IF covering = {} THEN NoPrefix ELSE Longest(covering)
             /\ ~Covers(match, value) => \E slot \in DOMAIN t.stored :
                    t.stored[slot] = match /\ slot # match /\ Covers(slot, value)
===============================================================================

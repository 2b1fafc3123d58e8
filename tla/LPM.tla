---------------------------------- MODULE LPM -----------------------------------
(***************************************************************************)
(* collections/lpm.c: longest prefix match in the trie of LPMTrie, whose   *)
(* nodes stay when their prefixes go.                                      *)
(***************************************************************************)
EXTENDS LPMTrie

VARIABLES
    lpm,      \* the trie of swLPM
    count,    \* lpm->count
    content   \* history: the prefixes inserted and not removed

lpmVars == <<lpm, count, content>>

Init == lpm = EmptyTrie /\ count = 0 /\ content = {}

\* swLPMInsert
Insert(prefix) ==
    LET new == NodeInsert(lpm, prefix, 0)
    IN /\ lpm' = new
       /\ count' = IF Grown(lpm, new) THEN count + 1 ELSE count
       /\ content' = content \union {prefix}

\* swLPMRemove.  It fails where another prefix waits in the slot of this one, and
\* succeeds, counting it, when the prefix is not there.
Remove(prefix) ==
    LET found == Found(lpm, prefix)
        waits == /\ prefix \in Visited(lpm, prefix) \intersect DOMAIN lpm.stored
                 /\ lpm.stored[prefix] # prefix
    IN /\ count > 0
       /\ lpm' = IF found = {} THEN lpm ELSE Release(lpm, CHOOSE slot \in found : TRUE)
       /\ count' = IF waits THEN count ELSE count - 1
       /\ content' = content \ {prefix}

Next == \E prefix \in Prefixes : Insert(prefix) \/ Remove(prefix)

Spec == Init /\ [][Next]_lpmVars

-------------------------------------------------------------------------------
\* Whatever was inserted and removed before, through prefixes pushed down and nodes left
\* empty, the trie is valid and holds what was inserted and not removed.
LPMAgrees ==
    Valid(lpm) /\ Holds(lpm, content, LAMBDA p : Found(lpm, p), LAMBDA v : Match(lpm, v))

\* A prefix that is matched covers the value.
MatchCovers == \A value \in Values : Covers(Match(lpm, value), value)
===============================================================================

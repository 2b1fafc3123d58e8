----------------------------- MODULE HashSetLinear ------------------------------
(***************************************************************************)
(* collections/hash-set-linear.c: a set of keys in the table of            *)
(* HashLinear, whose value field stays empty.                              *)
(***************************************************************************)
EXTENDS HashLinear

VARIABLES
    set,      \* the fields of swHashSetLinear
    held,     \* key objects given to the set and neither deleted nor given back
    members,  \* history: the names of what a set would hold
    repeated  \* history: whether a key was put in a tombstone before its own slot

setVars == <<set, held, members, repeated>>

Init == set = Empty /\ held = {} /\ members = {} /\ repeated = FALSE

\* The loops of the map, written a second time: where an insertion ends, where a key is ...
InsertPositionFind(key, replace) == FindToInsert(set, key, replace)
RemovePositionFind(key) == Find(set, key)

\* ... and the move to a table of the right size.
Resize(t) == MaybeResize(t)

Enter(position, key) ==
    LET fresh == set.slots[position].hash = 0
        new == [set EXCEPT !.slots[position] =
                               [hash |-> HashGet(key), key |-> key, value |-> Null],
                           !.count = @ + 1, !.used = @ + IF fresh THEN 1 ELSE 0]
    IN IF fresh THEN Resize(new) ELSE new

\* swHashSetLinearInsert; it fails when it meets the key.
Insert(key) ==
    LET position == InsertPositionFind(key, FALSE)
    IN /\ key \notin held /\ position # None
       /\ set' = Enter(position, key)
       /\ held' = held \union {key}
       /\ members' = members \union {NameOf[key]}
       /\ repeated' = (repeated \/ Hides(set, position, key))

\* swHashSetLinearUpsert; a key that is there is deleted and replaced.
Upsert(key) ==
    LET position == InsertPositionFind(key, TRUE)
    IN /\ key \notin held /\ position # None
       /\ IF Real(set.slots[position])
          THEN /\ set' = [set EXCEPT !.slots[position].key = key]
               /\ held' = (held \ {set.slots[position].key}) \union {key}
          ELSE /\ set' = Enter(position, key)
               /\ held' = held \union {key}
       /\ members' = members \union {NameOf[key]}
       /\ repeated' = (repeated \/ Hides(set, position, key))

\* A key leaves the set, which erects a tombstone.
Leave(key) ==
    LET position == RemovePositionFind(key)
    IN /\ position # None
       /\ set' = Resize([set EXCEPT !.slots[position] = Tombstone, !.count = @ - 1])
       /\ held' = held \ {set.slots[position].key}
       /\ members' = members \ {NameOf[key]}
       /\ UNCHANGED repeated

\* swHashSetLinearRemove deletes it, swHashSetLinearExtract gives it back.
Remove(key) == Leave(key)
Extract(key) == Leave(key)

\* swHashSetLinearClear
Clear == set' = Empty /\ held' = {} /\ members' = {} /\ repeated' = FALSE

Contains(key) == RemovePositionFind(key) # None

Next ==
    \/ \E key \in Keys : Insert(key) \/ Upsert(key)
    \/ \E key \in Keys \ Kept : Remove(key) \/ Extract(key)
    \/ Clear

Spec == Init /\ [][Next]_setVars

-------------------------------------------------------------------------------
\* The set owns the keys in its slots and no others, and, as long as no key was put in a
\* tombstone before its own slot, answers like a set: it counts, finds and iterates over
\* what was put in, with room for any key that is not there.
SetAgrees ==
    /\ held = {set.slots[i].key : i \in Entries(set)}
    /\ set.used = Cardinality({i \in DOMAIN set.slots : set.slots[i].hash > 0})
    /\ set.used + Size(set) \div 4 <= Size(set)
    /\ ~repeated =>
          /\ set.count = Cardinality(members)
          /\ \A key \in Keys :
                /\ Contains(key) <=> NameOf[key] \in members
                /\ NameOf[key] \notin members => InsertPositionFind(key, FALSE) # None
          /\ LET keys == Iterated(set)
             IN {NameOf[keys[i]] : i \in DOMAIN keys} = members
===============================================================================

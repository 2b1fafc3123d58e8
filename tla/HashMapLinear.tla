----------------------------- MODULE HashMapLinear ------------------------------
(***************************************************************************)
(* collections/hash-map-linear.c: a map from keys to values in the table   *)
(* of HashLinear.  The map owns the key objects it holds; it deletes them  *)
(* when they leave it, except when they are extracted.  Values are deleted *)
(* along with their keys and when they are replaced.                       *)
(***************************************************************************)
EXTENDS HashLinear

CONSTANT Values

VARIABLES
    table,   \* the fields of swHashMapLinear
    owned,   \* key objects given to the map and neither deleted nor given back
    content, \* history: what a map would hold, by name
    doubled  \* history: whether a key was put in a tombstone before its own slot

vars == <<table, owned, content, doubled>>

Init == table = Empty /\ owned = {} /\ content = <<>> /\ doubled = FALSE

Bound(name, value) ==
    [n \in DOMAIN content \union {name} |-> IF n = name THEN value ELSE content[n]]
Unbound(name) == [n \in DOMAIN content \ {name} |-> content[n]]

\* swHashMapLinearInsert; it fails when it meets the key.
Insert(key, value) ==
    LET position == FindToInsert(table, key, FALSE)
    IN /\ key \notin owned /\ position # None
       /\ table' = Put(table, position, key, value)
       /\ owned' = owned \union {key}
       /\ content' = Bound(NameOf[key], value)
       /\ doubled' = (doubled \/ Hides(table, position, key))

\* swHashMapLinearUpsert; a key that is there is deleted and replaced, with its value.
Upsert(key, value) ==
    LET position == FindToInsert(table, key, TRUE)
    IN /\ key \notin owned /\ position # None
       /\ IF Real(table.slots[position])
          THEN /\ table' = [table EXCEPT !.slots[position].key = key,
                                         !.slots[position].value = value]
               /\ owned' = (owned \ {table.slots[position].key}) \union {key}
          ELSE /\ table' = Put(table, position, key, value)
               /\ owned' = owned \union {key}
       /\ content' = Bound(NameOf[key], value)
       /\ doubled' = (doubled \/ Hides(table, position, key))

\* swHashMapLinearRemove deletes the key that it finds ...
Remove(key) ==
    LET position == Find(table, key)
    IN /\ position # None
       /\ table' = Erect(table, position)
       /\ owned' = owned \ {table.slots[position].key}
       /\ content' = Unbound(NameOf[key])
       /\ UNCHANGED doubled

\* ... and swHashMapLinearExtract gives it back.
Extract(key) ==
    LET position == Find(table, key)
    IN /\ position # None
       /\ table' = Erect(table, position)
       /\ owned' = owned \ {table.slots[position].key}
       /\ content' = Unbound(NameOf[key])
       /\ UNCHANGED doubled

\* swHashMapLinearClear
Clear ==
    /\ table' = Empty /\ owned' = {}
    /\ content' = <<>> /\ doubled' = FALSE

ValueGet(key) == LET position == Find(table, key)
                 IN IF position = None THEN Null ELSE table.slots[position].value

Next ==
    \/ \E key \in Keys, value \in Values : Insert(key, value) \/ Upsert(key, value)
    \/ \E key \in Keys \ Kept : Remove(key) \/ Extract(key)
    \/ Clear

Spec == Init /\ [][Next]_vars

-------------------------------------------------------------------------------
\* The counters say what the slots hold, and a free slot is left, so that every search
\* ends; the map owns the key objects in its slots, each once, and no others.
TableInv ==
    /\ table.slots \in [0 .. Size(table) - 1 ->
          [hash : Nat \ {0, 1}, key : Keys, value : Values] \union {Unused, Tombstone}]
    /\ table.count = Cardinality(Entries(table))
    /\ table.used = Cardinality({i \in DOMAIN table.slots : table.slots[i].hash > 0})
    /\ table.used + Size(table) \div 4 <= Size(table)
    /\ Size(table) = Power[MinShift] \/ Size(table) <= 4 * table.count
    /\ owned = {table.slots[i].key : i \in Entries(table)}

\* It answers like a map, through collisions, tombstones and changes of size: it finds
\* what was put in and nothing else, has room for what is not there, and iterates over it.
MapAgrees ==
    /\ table.count = Cardinality(DOMAIN content)
    /\ \A key \in Keys :
          /\ ValueGet(key) = IF NameOf[key] \in DOMAIN content THEN content[NameOf[key]] ELSE Null
          /\ NameOf[key] \notin DOMAIN content => FindToInsert(table, key, FALSE) # None
    /\ LET keys == Iterated(table)
       IN {NameOf[keys[i]] : i \in DOMAIN keys} = DOMAIN content

\* The same as long as no key was put in a tombstone before its own slot.
MapAgreesUndoubled == ~doubled => MapAgrees
===============================================================================

------------------------------- MODULE HashLinear -------------------------------
(***************************************************************************)
(* The open-addressing table that collections/hash-map-linear.c and        *)
(* hash-set-linear.c share, line by line but for the values: sizes are     *)
(* powers of two, the first probe is the hash modulo a prime, further ones *)
(* are one, two, three, ... slots on, and a removed entry leaves a         *)
(* tombstone.  Memory is assumed not to run out.                           *)
(***************************************************************************)
EXTENDS HashCommon, FiniteSets, Sequences

CONSTANTS
    Keys,    \* key objects, the pointers that callers pass
    NameOf,  \* what keyEqual compares: equal keys have equal names
    HashOf,  \* what keyHash returns for a name
    Kept,    \* bound of the model: keys that are taken out by Clear only
    Null

Unused == [hash |-> 0, key |-> Null, value |-> Null]
Tombstone == [hash |-> 1, key |-> Null, value |-> Null]
Real(slot) == slot.hash > 1

\* A table of 2^shift free slots; Empty is the one that New and Init make.
Blank(shift) ==
    [shift |-> shift, size |-> Power[shift],
     slots |-> [i \in 0 .. Power[shift] - 1 |-> Unused], count |-> 0, used |-> 0]
Empty == Blank(MinShift)

Size(t) == t.size
Entries(t) == {i \in DOMAIN t.slots : Real(t.slots[i])}

\* 0 and 1 are kept for free slots and tombstones.
HashGet(key) == IF HashOf[NameOf[key]] > 1 THEN HashOf[NameOf[key]] ELSE 2

Matches(slot, key) == slot.hash = HashGet(key) /\ NameOf[slot.key] = NameOf[key]

None == -1

\* The slot that the probe sequence of a hash visits at a step.
Probe(t, hash, step) ==
    ((hash % PrimeMod[t.shift]) + ((step * (step + 1)) \div 2)) % Size(t)

\* The first slot on it where the search stops; it gives up after Size steps.
FirstStop(t, hash, stops) ==
    LET last == CHOOSE step \in 0 .. Size(t) + 1 :
                   /\ step > Size(t) \/ stops[Probe(t, hash, step)]
                   /\ \A earlier \in 0 .. step - 1 : ~stops[Probe(t, hash, earlier)]
    IN IF last > Size(t) THEN None ELSE Probe(t, hash, last)

\* Where a search ends: at a slot without an entry; to insert a key, also at an entry with
\* an equal one; to find a key, there or at a slot that never had an entry.
Vacant(t) == [i \in DOMAIN t.slots |-> ~Real(t.slots[i])]
VacantOrEqual(t, key) ==
    [i \in DOMAIN t.slots |-> ~Real(t.slots[i]) \/ Matches(t.slots[i], key)]
FreeOrEqual(t, key) ==
    [i \in DOMAIN t.slots |-> t.slots[i].hash = 0 \/ Matches(t.slots[i], key)]

\* Where to insert a key: None when it is there and must not be replaced.
FindToInsert(t, key, replace) ==
    LET found == FirstStop(t, HashGet(key), VacantOrEqual(t, key))
    IN IF found # None /\ Real(t.slots[found]) /\ ~replace THEN None ELSE found

\* Where a key is, and None when the search meets a free slot first.
Find(t, key) ==
    LET found == FirstStop(t, HashGet(key), FreeOrEqual(t, key))
    IN IF found # None /\ Real(t.slots[found]) THEN found ELSE None

\* All entries move to a new table of more than twice their number, slot by slot.
Rehash(t) ==
    LET blank == Blank(IF Bits(2 * t.count) > MinShift THEN Bits(2 * t.count) ELSE MinShift)
        Move(new, slot) ==
            [new EXCEPT !.slots[FirstStop(new, slot.hash, Vacant(new))] = slot]
        moved[n \in 0 .. Size(t)] ==
            IF n = 0 THEN blank
            ELSE IF Real(t.slots[n - 1]) THEN Move(moved[n - 1], t.slots[n - 1])
            ELSE moved[n - 1]
    IN [moved[Size(t)] EXCEPT !.count = t.count, !.used = t.count]

\* When a quarter of the slots at most is in use, or more than three quarters have been.
OffSize(t) ==
    \/ Size(t) > 4 * t.count /\ Size(t) > Power[MinShift]
    \/ Size(t) < t.used + Size(t) \div 4

MaybeResize(t) == IF OffSize(t) THEN Rehash(t) ELSE t

\* A key that is not there is put at a free slot or a tombstone.
Put(t, position, key, value) ==
    LET fresh == t.slots[position].hash = 0
        new == [t EXCEPT !.slots[position] =
                              [hash |-> HashGet(key), key |-> key, value |-> value],
                         !.count = @ + 1, !.used = @ + IF fresh THEN 1 ELSE 0]
    IN IF fresh THEN MaybeResize(new) ELSE new

\* Whether a new entry at that position hides one of the same key.
Hides(t, position, key) == ~Real(t.slots[position]) /\ Find(t, key) # None

\* Mutant: the slot is freed, so that searches for keys behind it end there.
ErectNothing(t, position) ==
    MaybeResize([t EXCEPT !.slots[position] = Unused, !.count = @ - 1])

\* A tombstone is erected.
Erect(t, position) ==
    MaybeResize([t EXCEPT !.slots[position] = Tombstone, !.count = @ - 1])

\* The next position of an iterator, which starts at None and ends there.
Following(t, position) ==
    LET ahead == {i \in Entries(t) : i > position}
    IN IF ahead = {} THEN None ELSE CHOOSE i \in ahead : \A j \in ahead : i <= j

\* The keys that an iterator returns.
Iterated(t) ==
    LET from[i \in Entries(t) \union {None}] ==
            LET next == Following(t, i)
            IN IF next = None THEN <<>> ELSE <<t.slots[next].key>> \o from[next]
    IN from[None]
===============================================================================

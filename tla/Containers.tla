------------------------------- MODULE Containers -------------------------------
(***************************************************************************)
(* The memory that grows with its content (Growable), the bit maps (BitMap) *)
(* and the hash tables, for any items, bytes, sizes and keys: what           *)
(* CollectionsMC checks of them on small instances and ContainersProofs     *)
(* proves.                                                                  *)
(***************************************************************************)
EXTENDS Integers, Sequences, FiniteSets

CONSTANTS
    Items, Junk, Zero, Time, MaxItems,  \* Growable
    BitSizes, Touched,                  \* BitMap
    Keys, NameOf, HashOf, Null,         \* HashMapLinear and HashSetLinear
    Kept, Values,                       \* HashMapLinear
    SetKeys, SetKept                    \* HashSetLinear

VARIABLES
    array, listed, fast, quick, buffer, bytes, overstated, string, text,  \* Growable
    bitSize, bits, bitCount, marked,                                      \* BitMap
    table, owned, content, doubled,                                       \* HashMapLinear
    set, held, members, repeated                                          \* HashSetLinear

Memory == INSTANCE Growable
BitsOf == INSTANCE BitMap
Map == INSTANCE HashMapLinear
Set == INSTANCE HashSetLinear WITH Keys <- SetKeys, Kept <- SetKept

\* What memory may hold.
Bytes == Items \cup {Junk, Zero} \cup {Time[i] : i \in DOMAIN Time}

ASSUME MemoryAssumption == MaxItems \in Nat /\ Time \in Seq(Bytes)

\* swBitMapNew takes any 16-bit size.
ASSUME BitMapAssumption == BitSizes \subseteq Nat

\* There are fewer keys than the sizes of tables, which are ints, can make room for.
ASSUME KeysAssumption ==
    /\ IsFiniteSet(Keys) /\ Cardinality(Keys) < Map!Power[Len(Map!PrimeMod) - 1]
    /\ \A key \in Keys : HashOf[NameOf[key]] \in Nat
    /\ SetKeys \subseteq Keys

\* Arrays, buffers and strings hold what was put in: Growable says which, and until when.
ContentKept == Memory!ContentKept

\* The bit map counts and finds the bits that were set.
BitMapAgrees == BitsOf!BitMapAgrees

\* The map and the set agree with the content that their calls imply, and their tables stay
\* sound: HashMapLinear and HashSetLinear say how, and until when.
TablesAgree == Map!TableInv /\ Map!MapAgreesUndoubled /\ Set!SetAgrees
===============================================================================

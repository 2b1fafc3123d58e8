--------------------------------- MODULE BitMap ---------------------------------
(***************************************************************************)
(* collections/bit-map.h and bit-map.c: bits in whole bytes, a count of    *)
(* those that are set, and searches that read 4, 8, 2 or 1 bytes at once.  *)
(* The bytes are the set of the positions whose bits are 1.                *)
(***************************************************************************)
EXTENDS Integers, FiniteSets

CONSTANTS
    BitSizes,  \* the sizes of the maps
    Touched    \* bound of the model: the positions that are set and cleared one by one

VARIABLES
    bitSize,
    bits,      \* positions of 1 in bytes, those after the last bit included
    bitCount,
    marked     \* history: the positions set and not cleared

bitVars == <<bitSize, bits, bitCount, marked>>

Least(set) == CHOOSE i \in set : \A j \in set : i <= j
None == -1

ByteSize == bitSize \div 8 + IF bitSize % 8 > 0 THEN 1 ELSE 0
AllBits == 0 .. bitSize - 1

\* swBitMapNew
Init == bitSize \in BitSizes /\ bits = {} /\ bitCount = 0 /\ marked = {}

\* How many bytes are read at once from this one on: 4 first if there are, then 8 as long
\* as there are, then what is left in halves.
Width(byte, end) ==
    LET left == end - byte
    IN IF byte = 0 /\ left >= 4 THEN 4
       ELSE IF left >= 8 THEN 8 ELSE IF left >= 4 THEN 4 ELSE IF left >= 2 THEN 2 ELSE 1

\* The bits of the words from a byte on.
WordsFrom[byte \in 0 .. ByteSize] ==
    IF byte = ByteSize THEN {}
    ELSE 8 * byte .. 8 * (byte + Width(byte, ByteSize)) - 1
         \union WordsFrom[byte + Width(byte, ByteSize)]

\* ClearAll and SetAll write every bit of every word.
Written == WordsFrom[0]

WholeBytes == bitSize \div 8

\* The matches in the word of so many bytes that begins at one.
Hits(match, byte, width) == match \intersect 8 * byte .. 8 * (byte + width) - 1

\* Mutant: a search that takes its last whole word to begin where the bytes end.
SearchWordsShort(match) ==
    LET from[byte \in 0 .. WholeBytes] ==
            LET width == Width(byte, WholeBytes)
            IN IF byte + width >= WholeBytes THEN None
               ELSE IF Hits(match, byte, width) # {} THEN Least(Hits(match, byte, width))
               ELSE from[byte + width]
    IN from[0]

\* The first match in the whole bytes, word by word.
SearchWords(match) ==
    LET from[byte \in 0 .. WholeBytes] ==
            LET width == Width(byte, WholeBytes)
            IN IF byte = WholeBytes THEN None
               ELSE IF Hits(match, byte, width) # {} THEN Least(Hits(match, byte, width))
               ELSE from[byte + width]
    IN from[0]

\* The first bit that matches, in the whole bytes or in the rest.
Search(match) ==
    LET rest == match \intersect 8 * WholeBytes .. bitSize - 1
    IN IF SearchWords(match) # None THEN SearchWords(match)
       ELSE IF rest # {} THEN Least(rest) ELSE None

FindFirstSet == IF bitCount > 0 THEN Search(bits) ELSE None
FindFirstClear == IF bitCount < bitSize THEN Search((0 .. 8 * ByteSize - 1) \ bits) ELSE None

Set(position) ==
    /\ bitCount' = bitCount + IF position \in bits THEN 0 ELSE 1
    /\ bits' = bits \union {position} /\ marked' = marked \union {position}
    /\ UNCHANGED bitSize
Clear(position) ==
    /\ bitCount' = bitCount - IF position \in bits THEN 1 ELSE 0
    /\ bits' = bits \ {position} /\ marked' = marked \ {position}
    /\ UNCHANGED bitSize
SetAll ==
    bits' = bits \union Written /\ bitCount' = bitSize /\ marked' = AllBits /\ UNCHANGED bitSize
ClearAll ==
    bits' = bits \ Written /\ bitCount' = 0 /\ marked' = {} /\ UNCHANGED bitSize

Next ==
    \/ SetAll \/ ClearAll
    \/ \E position \in Touched \intersect AllBits : Set(position) \/ Clear(position)

Spec == Init /\ [][Next]_bitVars

-------------------------------------------------------------------------------
\* For every size and any order of calls, the count is right and the searches, with their
\* words of four widths and their tail of bits, find the first bit that is set or clear.
BitMapAgrees ==
    /\ bits \intersect AllBits = marked
    /\ bitCount = Cardinality(marked)
    /\ FindFirstSet = IF marked = {} THEN None ELSE Least(marked)
    /\ FindFirstClear = IF marked = AllBits THEN None ELSE Least(AllBits \ marked)
===============================================================================

-------------------------------- MODULE Checksum --------------------------------
(***************************************************************************)
(* The Internet checksum of a packet that is put together from parts and   *)
(* changed afterwards: src/protocol/checksum.c.  Words have their low byte *)
(* first.                                                                  *)
(***************************************************************************)
LOCAL INSTANCE Naturals
LOCAL INSTANCE SequencesExt

CONSTANTS
    Bytes,      \* what a byte may be
    MaxLength,  \* bound of the model: bytes of a packet
    MaxChanges  \* bound of the model: replacements

VARIABLES
    packet,          \* history: the bytes that the checksum is of
    checksum, final, \* a swChecksum
    changes          \* replacements so far

checksumVars == <<packet, checksum, final, changes>>

Parts == UNION {[1 .. n -> Bytes] : n \in 1 .. 3}

Init == packet = <<>> /\ checksum = 0 /\ final = FALSE /\ changes = 0

\* A last byte alone is a word with nothing above it.
Words(bytes) ==
    [i \in 1 .. (Len(bytes) + 1) \div 2 |->
        bytes[2 * i - 1] + IF 2 * i <= Len(bytes) THEN 256 * bytes[2 * i] ELSE 0]

Complement(word) == 65535 - (word % 65536)

\* swChecksumInternalAdd and swChecksumInternalSubtract
InternalAdd(sum, bytes) == FoldLeft(LAMBDA s, w : s + w, sum, Words(bytes))
InternalSubtract(sum, bytes) == FoldLeft(LAMBDA s, w : s + Complement(w), sum, Words(bytes))

\* Mutant: the carry of adding the carries is lost.
FoldedOnce(sum) == Complement((sum \div 65536) + (sum % 65536))

\* The carries are added to the sum, twice, and it is complemented.
Folded(sum) ==
    LET once == (sum \div 65536) + (sum % 65536)
    IN  Complement((once \div 65536) + (once % 65536))

\* swChecksumCalculate
Calculate(bytes) == Folded(InternalAdd(0, bytes))

\* What a final checksum was made from, and what it is made into again.
Opened == IF final THEN Complement(checksum) ELSE checksum
Sealed(sum) == IF final THEN Folded(sum) ELSE sum

\* swChecksumAdd.  Only the last part that is added has an odd length.
Add ==
    \E part \in Parts :
        /\ Len(packet) % 2 = 0 /\ Len(packet) + Len(part) <= MaxLength
        /\ packet' = packet \o part
        /\ checksum' = Sealed(InternalAdd(Opened, part))
        /\ UNCHANGED <<final, changes>>

\* swChecksumFinalize
Finalize ==
    /\ ~final /\ final' = TRUE
    /\ checksum' = Folded(checksum)
    /\ UNCHANGED <<packet, changes>>

\* swChecksumReplace, of whole words or of the odd end
Replace ==
    \E part \in Parts, offset \in {o \in 0 .. Len(packet) : o % 2 = 0} :
        /\ changes < MaxChanges /\ changes' = changes + 1
        /\ offset + Len(part) <= Len(packet)
        /\ Len(part) % 2 = 1 => offset + Len(part) = Len(packet)
        /\ LET old == SubSeq(packet, offset + 1, offset + Len(part))
           IN  checksum' = Sealed(InternalAdd(InternalSubtract(Opened, old), part))
        /\ packet' = SubSeq(packet, 1, offset) \o part \o SubSeq(packet, offset + Len(part) + 1, Len(packet))
        /\ UNCHANGED final

Next == Add \/ Finalize \/ Replace

-------------------------------------------------------------------------------
\* A checksum that is kept while the packet is built and changed, before it is made final
\* and after, is right for the packet as it is: the words and it add up to the zero of
\* one's complement arithmetic, as they do with the checksum of the whole packet.  The two
\* need not be equal: none has two forms, and replacing all bytes by zeros gives the other.
ChecksumRight ==
    LET kept == IF final THEN checksum ELSE Folded(checksum)
    IN  \A sum \in {kept, Calculate(packet)} :
            sum \in 0 .. 65535 /\ InternalAdd(sum, packet) % 65535 = 0
===============================================================================

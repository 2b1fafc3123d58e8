----------------------------- MODULE CollectionsMC ------------------------------
(***************************************************************************)
(* The containers of collections/ and storage/, and what protocol/ does to *)
(* a packet, each on its own: subject is the one that is used, the others  *)
(* stay as they were made.                                                 *)
(***************************************************************************)
EXTENDS SparseArray, Containers

CONSTANT Subjects

VARIABLES
    subject,
    lpm, prefixCount, stored,                 \* LPM
    lpmV2, wordBits, countV2, storedV2, refusedV2, missedV2,  \* LPMV2
    tree, stack, trace, misaligned,           \* CallTree
    packet, checksum, final, changes,         \* Checksum
    data, parsePosition, bytesLeft, parsed, error, frames, protocol, header, latest
                                              \* ProtocolParser

\* Seven keys of six names: keys 1 and 7 are equal, names 1 and 2 have one hash.  In a table
\* of 8, names 1, 2, 3 and 5 share their first slot and the others start at the next one; in
\* a table of 16, names 4 and 5 share it.
HashKeys == 1 .. 7
HashNameOf == [key \in HashKeys |-> IF key = 7 THEN 1 ELSE key]
HashHashOf == <<0, 2, 9, 3, 16, 17>>

\* Prefixes of every place: in the root, below, deep, of full length and not, and several
\* on one path.  The four places of a node are in one word of 4 bits, as with factors up to
\* 6, or in two of 2 bits, as with factor 7.
LPMPrefixes == {<<0>>, <<0, 0>>, <<0, 0, 1>>, <<0, 0, 1, 1>>, <<0, 0, 1, 1, 0>>,
                <<0, 0, 1, 1, 1, 0>>, <<0, 1, 1, 0>>, <<1, 1, 1>>}
LPMValues == [1 .. 6 -> {0, 1}]

Trie == INSTANCE LPM WITH
           Factor <- 2, Prefixes <- LPMPrefixes, Values <- LPMValues,
           count <- prefixCount, content <- stored
TrieV2 == INSTANCE LPMV2 WITH
             Factor <- 2, Prefixes <- LPMPrefixes, Values <- LPMValues,
             WordSizes <- {2, 4}, MaxCount <- 8, contentV2 <- storedV2

\* What is written when a time is appended.
TimeWritten == <<8, 9>>

Calls == INSTANCE CallTree WITH Functions <- {1, 2}, MaxCalls <- 5, MaxDepth <- 3

Sums == INSTANCE Checksum WITH Bytes <- {0, 1, 255}, MaxLength <- 4, MaxChanges <- 2

\* Chains of headers in and out of order, with and without options, among them options that
\* are longer than what is left, of no length or cut off, and packets that are cut, exact or
\* followed by more.
Lists == INSTANCE SequencesExt
HeaderOf(type, size) == [type |-> type, size |-> size, fixed |-> 0, options |-> <<>>]
WithOptions(type, first) ==
  [HeaderOf(type, 8) EXCEPT
     !.options = <<[pad |-> FALSE, size |-> first], [pad |-> TRUE, size |-> 2]>>]
Solicitation(size, sizes) ==
  [HeaderOf("icmpv6", size) EXCEPT
     !.fixed = 24, !.options = [i \in DOMAIN sizes |-> [pad |-> FALSE, size |-> sizes[i]]]]
Chains ==
  {<<>>, <<WithOptions("hopByHop", 4), WithOptions("hopByHop", 4)>>,
   <<WithOptions("destination", 4), HeaderOf("icmpv6", 8)>>,
   <<WithOptions("destination", 12), Solicitation(24, <<>>)>>,
   <<WithOptions("hopByHop", 4), WithOptions("destination", 4), HeaderOf("routing", 8),
     HeaderOf("fragment", 8), WithOptions("destination", 4), HeaderOf("udp", 16)>>}
  \union {<<Solicitation(32, sizes)>> : sizes \in {<<8>>, <<16>>, <<0>>}}
  \union {<<Solicitation(48, sizes)>> : sizes \in {<<8, 16>>, <<8, 8, 0>>, <<16, 16>>}}
  \union {<<Solicitation(16, <<>>)>>, <<Solicitation(24, <<>>)>>}
  \union {<<HeaderOf(type, size)>> :
            type \in {"udp", "icmpv6", "nothing", "other"}, size \in {8, 24}}
  \union {<<HeaderOf(type, 24)>> : type \in {"tcp", "icmpv4"}}
LengthOf(chain) == Lists!FoldLeft(LAMBDA sum, h : sum + h.size, 0, chain)
PacketOf(type, chain, plen, beyond) ==
  [type |-> type, chain |-> chain, plen |-> plen, len |-> 54 + plen + beyond]
Packets ==
  {PacketOf(type, chain, LengthOf(chain), beyond) :
     type \in {"ipv4", "ipv6", "arp"}, chain \in Chains, beyond \in {-2, 0, 10}}
  \union {PacketOf("ipv6", <<>>, 0, -44), PacketOf("ipv6", <<HeaderOf("udp", 16)>>, 24, 0)}
Parser == INSTANCE ProtocolParser

AllInit ==
    /\ subject \in Subjects
    /\ Init /\ Map!Init /\ Set!Init /\ Trie!Init /\ TrieV2!Init /\ Memory!Init /\ BitsOf!Init
    /\ Calls!Init /\ Sums!Init /\ Parser!Init
    /\ subject # "bits" => bitSize = 5
    /\ subject # "parse" => data.len = 10
    /\ subject # "lpmV2" => wordBits = 4

sparseVars == <<blocks, metaCount, firstFree, count, holders, stale>>
mapVars == <<table, owned, content, doubled>>
setVars == <<set, held, members, repeated>>
lpmV2Vars == <<lpmV2, wordBits, countV2, storedV2, refusedV2, missedV2>>
lpmVars == <<lpm, prefixCount, stored, lpmV2Vars>>
memoryVars == <<array, listed, fast, quick, buffer, bytes, overstated, string, text>>
bitVars == <<bitSize, bits, bitCount, marked>>
callVars == <<tree, stack, trace, misaligned>>
sumVars == <<packet, checksum, final, changes>>
parseVars == <<data, parsePosition, bytesLeft, parsed, error, frames, protocol, header, latest>>
wireVars == <<sumVars, parseVars>>
allVars ==
    <<subject, sparseVars, mapVars, setVars, lpmVars, memoryVars, bitVars, callVars, wireVars>>

AllNext ==
    /\ UNCHANGED subject
    /\ \/ /\ subject = "sparse" /\ Next
          /\ UNCHANGED <<mapVars, setVars, lpmVars, memoryVars, bitVars, callVars, wireVars>>
       \/ /\ subject = "map" /\ Map!Next
          /\ UNCHANGED <<sparseVars, setVars, lpmVars, memoryVars, bitVars, callVars, wireVars>>
       \/ /\ subject = "set" /\ Set!Next
          /\ UNCHANGED <<sparseVars, mapVars, lpmVars, memoryVars, bitVars, callVars, wireVars>>
       \/ /\ subject = "lpm" /\ Trie!Next
          /\ UNCHANGED lpmV2Vars
          /\ UNCHANGED <<sparseVars, mapVars, setVars, memoryVars, bitVars, callVars, wireVars>>
       \/ /\ subject = "lpmV2" /\ TrieV2!Next
          /\ UNCHANGED <<lpm, prefixCount, stored>>
          /\ UNCHANGED <<sparseVars, mapVars, setVars, memoryVars, bitVars, callVars, wireVars>>
       \/ /\ \/ subject = "array" /\ Memory!ArrayNext
             \/ subject = "fast" /\ Memory!FastNext
             \/ subject = "buffer" /\ Memory!BufferNext
             \/ subject = "string" /\ Memory!StringNext
          /\ UNCHANGED <<sparseVars, mapVars, setVars, lpmVars, bitVars, callVars, wireVars>>
       \/ /\ subject = "bits" /\ BitsOf!Next
          /\ UNCHANGED <<sparseVars, mapVars, setVars, lpmVars, memoryVars, callVars, wireVars>>
       \/ /\ subject = "calls" /\ Calls!Next
          /\ UNCHANGED <<sparseVars, mapVars, setVars, lpmVars, memoryVars, bitVars, wireVars>>
       \/ /\ subject = "checksum" /\ Sums!Next
          /\ UNCHANGED <<sparseVars, mapVars, setVars, lpmVars, memoryVars, bitVars, callVars>>
          /\ UNCHANGED parseVars
       \/ /\ subject = "parse" /\ Parser!Next
          /\ UNCHANGED <<sparseVars, mapVars, setVars, lpmVars, memoryVars, bitVars, callVars>>
          /\ UNCHANGED sumVars

AllSpec == AllInit /\ [][AllNext]_allVars

-------------------------------------------------------------------------------
\* swHashMapLinearCount is the number of different keys.  The map breaks this: a key found
\* behind a deleted one is inserted again.
MapAgrees == Map!MapAgrees

\* Both tries find, match and count what was inserted and not removed.
TriesAgree ==
    /\ subject = "lpm" => Trie!LPMAgrees
    /\ subject = "lpmV2" => TrieV2!LPMV2Agrees

\* What swLPMMatch returns is a prefix of the value, as its comment argues.
MatchCovers == Trie!MatchCovers

\* The call tree that is printed tells the trace that was read.
TracePrinted == subject = "calls" => Calls!TracePrinted

\* A checksum is right for the packet as it is, and a parser takes all of a packet apart.
PacketsAgree ==
    /\ subject = "checksum" => Sums!ChecksumRight
    /\ subject = "parse" => Parser!ParsedWhole
===============================================================================

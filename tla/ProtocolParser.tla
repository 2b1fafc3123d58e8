----------------------------- MODULE ProtocolParser -----------------------------
(***************************************************************************)
(* A packet is taken apart into frames, protocol by protocol:              *)
(* src/protocol/protocol-parser.c.  Of a packet the model keeps what the   *)
(* parser looks at: the type and the size of each header, the options in   *)
(* it, the length the IPv6 header states, and the bytes there are.         *)
(***************************************************************************)
EXTENDS Naturals, SequencesExt

CONSTANT Packets

VARIABLES
    data,                        \* the packet
    parsePosition, bytesLeft,    \* swProtocolParser
    parsed, error,               \* its flags done and error
    frames,
    protocol,                    \* the protocolId; "headers" inside the loop over the headers
                                 \* of an IPv6 packet, "none" when the parser has returned,
                                 \* "endless" when it never will
    header,                      \* the place of next in the chain of headers
    latest                       \* the highest bit in flags

parserVars ==
    <<data, parsePosition, bytesLeft, parsed, error, frames, protocol, header, latest>>

EtherSize == 14
IPv6Size == 40
ExtensionSize == 2  \* of a struct ip6_ext, which each header starts with

Frame(is, at, size) == [is |-> is, at |-> at, size |-> size]

\* swProtocolParserInit, and the start of swProtocolParserParse
Init ==
    /\ data \in Packets
    /\ parsePosition = 0 /\ bytesLeft = 0 /\ parsed = FALSE /\ error = FALSE
    /\ frames = <<>> /\ protocol = "ethernet" /\ header = 1 /\ latest = 1

\* A frame that the parser goes on behind of, and what it goes on with.
SetNextFrame(is, size, next) ==
    /\ frames' = Append(frames, Frame(is, parsePosition, size))
    /\ parsePosition' = parsePosition + size /\ protocol' = next

\* A parse function has returned false, which ends swProtocolParserParse.
Fail(wrong) ==
    /\ protocol' = "none" /\ error' = (error \/ wrong)
    /\ UNCHANGED <<parsePosition, bytesLeft, parsed, frames, header, latest>>

ParseEthernetFrame ==
    /\ protocol = "ethernet" /\ UNCHANGED data
    /\ IF data.len < EtherSize \/ data.type \notin {"ipv4", "ipv6"}
       THEN Fail(data.len >= EtherSize)
       ELSE /\ SetNextFrame("ethernet", EtherSize, data.type)
            /\ UNCHANGED <<bytesLeft, parsed, error, header, latest>>

\* A packet with nothing behind its main header is left there, unfinished.
ParseIPv6Frame ==
    /\ protocol = "ipv6" /\ UNCHANGED data
    /\ IF data.len < parsePosition + IPv6Size + data.plen
       THEN Fail(data.len >= parsePosition + IPv6Size)
       ELSE /\ SetNextFrame("ipv6", IPv6Size, IF data.plen = 0 THEN "none" ELSE "headers")
            /\ bytesLeft' = data.plen
            /\ UNCHANGED <<parsed, error, header, latest>>

-------------------------------------------------------------------------------
(* The headers behind the main one                                         *)

next == data.chain[header]

\* What is found by going from option to option as long as end is not reached, each as long
\* as it says; padding gives no frame.  Behind the options of the header any are found.  One
\* that says it has no bytes is found again for ever: it is the last of the list.
RECURSIVE OptionsFrom(_, _, _, _)
OptionsFrom(at, end, options, any) ==
    LET found == IF options = <<>> THEN any ELSE {Head(options)}
        others == IF options = <<>> THEN <<>> ELSE Tail(options)
        frame(o) == IF o.pad THEN <<>> ELSE <<Frame("option", at, o.size)>>
    IN  IF at >= end THEN {<<>>}
        ELSE UNION {IF o.size = 0 THEN {frame(o)}
                    ELSE {frame(o) \o rest : rest \in OptionsFrom(at + o.size, end, others, any)} :
                    o \in found}

\* swParseIPv6Options starts behind the two bytes of the header and goes on for the size
\* of all of it: what follows the header is taken for an option too.
ParseIPv6Options ==
    LET start == parsePosition + ExtensionSize
    IN  OptionsFrom(start, start + next.size, next.options,
                    [pad : BOOLEAN, size : {2, 4}] \union [pad : {TRUE}, size : {1}])

\* The headers come in this order, each at most once; another one for the destination may
\* come at the end.
Rank == [hopByHop |-> {2}, destination |-> {3, 6}, routing |-> {4}, fragment |-> {5}]

\* swParseIPv6ExtensionHeader and swParseIPv6FragmentHeader: bytesLeft is not reduced.
ParseIPv6ExtensionHeader ==
    /\ protocol = "headers" /\ next.type \in DOMAIN Rank /\ UNCHANGED data
    /\ LET ranks == {r \in Rank[next.type] : r > latest}
       IN  IF ranks = {} \/ bytesLeft < next.size
           THEN Fail(TRUE)
           ELSE /\ latest' = CHOOSE r \in ranks : \A q \in ranks : r <= q
                /\ parsePosition' = parsePosition + next.size
                /\ \E options \in IF next.type \in {"hopByHop", "destination"}
                                  THEN ParseIPv6Options ELSE {<<>>} :
                     frames' = Append(frames, Frame("ipv6", parsePosition, next.size)) \o options
                /\ header' = header + 1
                /\ UNCHANGED <<bytesLeft, parsed, error, protocol>>

\* The header is that of another protocol, of none, or not known.
ParseIPv6Next ==
    /\ protocol = "headers" /\ next.type \notin DOMAIN Rank /\ UNCHANGED data
    /\ CASE next.type \in {"icmpv6", "icmpv4", "tcp", "udp"} ->
              /\ protocol' = next.type
              /\ UNCHANGED <<parsePosition, bytesLeft, parsed, error, frames, header, latest>>
         [] next.type = "nothing" ->
              /\ SetNextFrame("ipv6", bytesLeft, "none")
              /\ bytesLeft' = 0 /\ error' = TRUE /\ UNCHANGED <<parsed, header, latest>>
         [] OTHER -> Fail(TRUE)

-------------------------------------------------------------------------------
(* The protocols above                                                     *)

Complete(least) == bytesLeft >= least /\ data.len >= parsePosition + bytesLeft

\* All that is left is one frame, and the last.
TakeRest(is, within) ==
    /\ frames' = Append(frames, Frame(is, parsePosition, bytesLeft)) \o within
    /\ parsePosition' = parsePosition + bytesLeft /\ bytesLeft' = 0
    /\ parsed' = TRUE /\ protocol' = "none"
    /\ UNCHANGED <<error, header, latest>>

\* A message of neighbour discovery has options behind a part of fixed size.  What is left
\* for them is not checked: in a message shorter than that part it wraps around, and the
\* memory behind the packet is taken for options without an end.
ParseICMPv6Options ==
    LET start == parsePosition + next.fixed
    IN  IF next.fixed = 0 THEN {<<>>}
        ELSE IF bytesLeft < next.fixed THEN {<<Frame("option", start, 0)>>}
        ELSE OptionsFrom(start, parsePosition + bytesLeft, next.options,
                         [pad : {FALSE}, size : {0, 8, 16}])

ParseICMPv6Frame ==
    /\ protocol = "icmpv6" /\ UNCHANGED data
    /\ IF ~Complete(8) THEN Fail(FALSE)
       ELSE \E options \in ParseICMPv6Options :
              IF options = <<>> \/ Last(options).size > 0
              THEN TakeRest("icmpv6", options)
              ELSE /\ frames' = Append(frames, Frame("icmpv6", parsePosition, bytesLeft)) \o options
                   /\ protocol' = "endless"
                   /\ UNCHANGED <<parsePosition, bytesLeft, parsed, error, header, latest>>

\* The length in the header must be what is left; an empty datagram ends the parse
\* without being done.
ParseUDPFrame ==
    /\ protocol = "udp" /\ UNCHANGED data
    /\ IF ~Complete(8) THEN Fail(FALSE)
       ELSE /\ IF bytesLeft = next.size
               THEN /\ SetNextFrame("udp", 8, IF bytesLeft > 8 THEN "unknown" ELSE "none")
                    /\ bytesLeft' = bytesLeft - 8
               ELSE SetNextFrame("udp", 8, "none") /\ UNCHANGED bytesLeft
            /\ UNCHANGED <<parsed, error, header, latest>>

ParseUnknownFrame ==
    /\ protocol = "unknown" /\ UNCHANGED data
    /\ IF Complete(0) THEN TakeRest("unknown", <<>>) ELSE Fail(FALSE)

\* There is no function for the protocol: the rest of the buffer is a frame.
NoFunction ==
    /\ protocol \in {"ipv4", "icmpv4", "tcp"} /\ UNCHANGED data
    /\ SetNextFrame("unknown", data.len - parsePosition, "none")
    /\ parsed' = TRUE
    /\ UNCHANGED <<bytesLeft, error, header, latest>>

Next ==
    \/ ParseEthernetFrame \/ ParseIPv6Frame \/ ParseIPv6ExtensionHeader \/ ParseIPv6Next
    \/ ParseICMPv6Frame \/ ParseUDPFrame \/ ParseUnknownFrame \/ NoFunction

-------------------------------------------------------------------------------
Headers == SelectSeq(frames, LAMBDA f : f.is # "option")
Extended == data.type = "ipv6" /\ data.chain # <<>> /\ data.chain[1].type \in DOMAIN Rank

\* The options that a message of neighbour discovery states are there, and are all of it.
SizeOf(options) == FoldLeft(LAMBDA sum, o : sum + o.size, 0, options)
Fits ==
    \A h \in ToSet(data.chain) : h.fixed > 0 =>
        h.size = h.fixed + SizeOf(h.options) /\ \A o \in ToSet(h.options) : o.size > 0

\* The frames of headers lie behind each other from the first byte on, up to where the
\* parser is.  When it says that it took the packet apart, they end where the packet does
\* or, of a protocol that it does not know, where the buffer does, and no byte was left or
\* taken twice; the options are those of the packet, in the last frame, one behind the other
\* up to its end.  That leaves out packets with headers between the main one and that of the
\* protocol and, of the options, messages whose options do not fit; only with one of those
\* does the parser not come to an end.
ParsedWhole ==
    /\ \A i \in DOMAIN Headers :
         Headers[i].at = IF i = 1 THEN 0 ELSE Headers[i - 1].at + Headers[i - 1].size
    /\ Headers # <<>> /\ protocol # "endless" =>
         parsePosition = Last(Headers).at + Last(Headers).size
    /\ protocol = "endless" => Extended \/ ~Fits
    /\ protocol = "none" /\ parsed /\ ~error /\ ~Extended =>
         /\ parsePosition = IF data.type = "ipv4" \/ data.chain[1].type \in {"tcp", "icmpv4"}
                            THEN data.len ELSE EtherSize + IPv6Size + data.plen
         /\ Fits => \A i \in DOMAIN frames : frames[i].is = "option" =>
              /\ frames[i].at >= Last(Headers).at
              /\ frames[i].at + frames[i].size =
                    IF i = Len(frames) THEN parsePosition ELSE frames[i + 1].at
===============================================================================

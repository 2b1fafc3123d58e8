---------------------------- MODULE ReservedStream ----------------------------
(***************************************************************************)
(* What a multiple-producer, single-consumer ring buffer promises its      *)
(* users, with no positions, no lock and no memory: the bytes reserved by  *)
(* the producers form one stream, messages become visible whole and in     *)
(* the order in which their space was reserved, and the consumer is handed *)
(* exactly that stream, each byte once.                                    *)
(***************************************************************************)
EXTENDS Naturals, Sequences

CONSTANTS Messages, \* what producers send
          Capacity  \* a number: bytes that may be reserved and not yet delivered

VARIABLES stream,    \* every byte ever reserved, labelled with its message
          published, \* how many bytes of stream the consumer may read
          output     \* the bytes handed to the consumer so far

vars == <<stream, published, output>>

Init ==
    /\ stream = <<>>
    /\ published = 0
    /\ output = <<>>

\* The bytes of message m are appended to the stream.
Reserve(m, n) ==
    /\ \A i \in DOMAIN stream : stream[i] # m
    /\ Len(stream) + n <= Len(output) + Capacity
    /\ stream' = stream \o [i \in 1 .. n |-> m]
    /\ UNCHANGED <<published, output>>

\* The oldest unpublished message becomes readable, all of it at once.
Publish ==
    /\ published < Len(stream)
    /\ published' \in published + 1 .. Len(stream)
    /\ \A i \in 1 .. Len(stream) :
          (stream[i] = stream[published + 1]) <=> (i \in published + 1 .. published')
    /\ UNCHANGED <<stream, output>>

\* The consumer takes a non-empty run of the published bytes.
Deliver ==
    /\ \E n \in Len(output) + 1 .. published : output' = SubSeq(stream, 1, n)
    /\ UNCHANGED <<stream, published>>

Next ==
    \/ \E m \in Messages, n \in 1 .. Capacity : Reserve(m, n)
    \/ Publish
    \/ Deliver

Spec == Init /\ [][Next]_vars
===============================================================================

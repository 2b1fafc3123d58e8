---------------------------- MODULE MPSCRingBuffer ----------------------------
(***************************************************************************)
(* thread/mpsc-ring-buffer.c: a byte ring filled by several producer       *)
(* threads and drained by one consumer thread of the thread manager.       *)
(*                                                                         *)
(* Pointers into the buffer are offsets 0 .. Size, where Size is           *)
(* bufferEnd: the code wraps a pointer only when it goes beyond bufferEnd, *)
(* so that offsets 0 and Size name the same byte and 0 occurs only before  *)
(* the first wrap.  Memory is sequentially consistent: the code is built   *)
(* without optimisation for x86-64 and publishes with a full-barrier CAS.  *)
(***************************************************************************)
EXTENDS Integers, Sequences

CONSTANTS Producers,   \* threads that call ProduceAcquire and ProduceRelease
          Size,        \* ringBuffer->size, in bytes
          Requests,    \* sizes that producers ask for
          MaxAcquires  \* bound: calls of ProduceAcquire by one producer

ASSUME RingAssumption ==
    /\ Size \in Nat \ {0}
    /\ Requests \subseteq Nat \ {0}
    /\ MaxAcquires \in Nat

VARIABLES
    head, candidateTail, currentTail, \* the fields of swMPSCRingBuffer, as offsets
    tailLock,                         \* the spin lock: TRUE while held
    shutdown, done,
    owner,     \* the thread that releases the ring: open, releasing or unmapped
    pc,        \* where each producer is
    size,      \* the size each producer asked for
    seenHead,  \* the head each producer read inside the lock
    buffer,    \* the region each producer was given
    consumer,  \* where the consumer thread is in swMPSCRingBufferRun
    tail,      \* its local currentTail
    memory,    \* the bytes of the ring, each labelled with the message it belongs to
    acquires,  \* history: acquire calls made by each producer
    stream,    \* history: every byte reserved, in the order of reservation
    output,    \* history: every byte handed to consumeFunc
    stopMark   \* history: bytes published when shutdown was set

ring == <<head, candidateTail, currentTail, tailLock>>
threads == <<pc, size, seenHead, buffer>>
history == <<acquires, stream, output, stopMark>>
vars == <<ring, shutdown, done, owner, threads, consumer, tail, memory, history>>

-------------------------------------------------------------------------------
(* Offsets and messages.                                                   *)

\* Mutant: an offset that passes bufferEnd restarts at the first byte.
WrapToStart(offset) == IF offset <= Size THEN offset ELSE 0

\* An offset past bufferEnd moves back by the size of the ring.
Wrap(offset) == IF offset <= Size THEN offset ELSE offset - Size

\* Mutant: the byte that tells a full ring from an empty one is handed out too.
AvailableAll(from, cand) ==
    IF cand > from THEN (Size - cand) + from
    ELSE IF cand < from THEN from - cand
    ELSE Size - 1

\* sizeAvailable of ProduceAcquire.
Available(from, cand) ==
    IF cand > from THEN (Size - cand) + from - 1
    ELSE IF cand < from THEN from - cand - 1
    ELSE Size - 1

\* The size the consumer hands to consumeFunc.
BatchSize(from, to) == IF from < to THEN to - from ELSE (Size - from) + to

\* The byte of memory that an address of the doubly mapped buffer denotes.
Cell(offset) == IF offset < Size THEN offset ELSE offset - Size

\* The bytes of the region of n bytes that starts at an offset.
Region(from, n) == {Cell(from + i) : i \in 0 .. n - 1}

\* The message a producer is sending, told apart by its acquire number.
Message(p) == <<p, acquires[p]>>

\* Bytes from one offset to another one ahead of it (none when they are equal).
Used(from, to) == IF from <= to THEN to - from ELSE (Size - from) + to

\* Bytes whose space the consumer gave back, and bytes it may read or has read.
Freed == Len(stream) - Used(head, candidateTail)
Published == Freed + Used(head, currentTail)

-------------------------------------------------------------------------------
Init ==
    /\ head = 0 /\ candidateTail = 0 /\ currentTail = 0
    /\ tailLock = FALSE
    /\ shutdown = FALSE /\ done = FALSE
    /\ owner = "open"
    /\ pc = [p \in Producers |-> "idle"]
    /\ size = [p \in Producers |-> 0]
    /\ seenHead = [p \in Producers |-> 0]
    /\ buffer = [p \in Producers |-> 0]
    /\ consumer = "test" /\ tail = 0
    /\ memory = [i \in 0 .. Size - 1 |-> <<>>]
    /\ acquires = [p \in Producers |-> 0]
    /\ stream = <<>> /\ output = <<>>
    /\ stopMark = 0

-------------------------------------------------------------------------------
(* swMPSCRingBufferProduceAcquire and swMPSCRingBufferProduceRelease.      *)

\* A producer enters ProduceAcquire and wins the spin lock.
Lock(p) ==
    /\ pc[p] = "idle" /\ acquires[p] < MaxAcquires /\ owner = "open"
    /\ ~tailLock
    /\ tailLock' = TRUE
    /\ \E n \in Requests : size' = [size EXCEPT ![p] = n]
    /\ acquires' = [acquires EXCEPT ![p] = @ + 1]
    /\ pc' = [pc EXCEPT ![p] = "locked"]
    /\ UNCHANGED <<head, candidateTail, currentTail, shutdown, done, owner, seenHead,
                   buffer, consumer, tail, memory, stream, output, stopMark>>

\* It reads head, which the consumer may move at any time after.
ReadHead(p) ==
    /\ pc[p] = "locked"
    /\ seenHead' = [seenHead EXCEPT ![p] = head]
    /\ pc' = [pc EXCEPT ![p] = "sizing"]
    /\ UNCHANGED <<ring, shutdown, done, owner, size, buffer, consumer, tail, memory,
                   history>>

\* It takes the region when it fits and leaves the lock either way.
Reserve(p) ==
    /\ pc[p] = "sizing"
    /\ IF Available(seenHead[p], candidateTail) >= size[p]
       THEN /\ candidateTail' = Wrap(candidateTail + size[p])
            /\ buffer' = [buffer EXCEPT ![p] = candidateTail]
            /\ stream' = stream \o [i \in 1 .. size[p] |-> Message(p)]
            /\ pc' = [pc EXCEPT ![p] = "reserved"]
       ELSE /\ pc' = [pc EXCEPT ![p] = "idle"]
            /\ UNCHANGED <<candidateTail, buffer, stream>>
    /\ tailLock' = FALSE
    /\ UNCHANGED <<head, currentTail, shutdown, done, owner, size, seenHead, consumer,
                   tail, memory, acquires, output, stopMark>>

\* The caller fills the region it was given.
Write(p) ==
    /\ pc[p] = "reserved"
    /\ memory' = [i \in 0 .. Size - 1 |->
                     IF i \in Region(buffer[p], size[p]) THEN Message(p) ELSE memory[i]]
    /\ pc' = [pc EXCEPT ![p] = "written"]
    /\ UNCHANGED <<ring, shutdown, done, owner, size, seenHead, buffer, consumer, tail,
                   history>>

\* Mutant: a region is published without waiting for the earlier ones.
ReleaseUnordered(p) ==
    /\ pc[p] = "written"
    /\ currentTail' = Wrap(buffer[p] + size[p])
    /\ pc' = [pc EXCEPT ![p] = "idle"]
    /\ UNCHANGED <<head, candidateTail, tailLock, shutdown, done, owner, size, seenHead,
                   buffer, consumer, tail, memory, history>>

\* Mutant: the end of the region is published without wrapping it.
ReleaseUnwrapped(p) ==
    /\ pc[p] = "written"
    /\ currentTail = buffer[p]
    /\ currentTail' = buffer[p] + size[p]
    /\ pc' = [pc EXCEPT ![p] = "idle"]
    /\ UNCHANGED <<head, candidateTail, tailLock, shutdown, done, owner, size, seenHead,
                   buffer, consumer, tail, memory, history>>

\* ProduceRelease: the CAS that succeeds once every earlier region is published.
Release(p) ==
    /\ pc[p] = "written"
    /\ currentTail = buffer[p]
    /\ currentTail' = Wrap(buffer[p] + size[p])
    /\ pc' = [pc EXCEPT ![p] = "idle"]
    /\ UNCHANGED <<head, candidateTail, tailLock, shutdown, done, owner, size, seenHead,
                   buffer, consumer, tail, memory, history>>

-------------------------------------------------------------------------------
(* swMPSCRingBufferRun, the consumer thread.                               *)

\* The loop condition: shutdown is read first ...
TestShutdown ==
    /\ consumer = "test"
    /\ consumer' = IF shutdown THEN "drain" ELSE "load"
    /\ UNCHANGED <<ring, shutdown, done, owner, threads, tail, memory, history>>

\* Mutant: shutdown alone ends the loop.
TestEmptySkipped ==
    /\ consumer = "drain"
    /\ consumer' = "returned"
    /\ UNCHANGED <<ring, shutdown, done, owner, threads, tail, memory, history>>

\* ... and only when it is set, whether anything is left to read.
TestEmpty ==
    /\ consumer = "drain"
    /\ consumer' = IF currentTail # head THEN "load" ELSE "returned"
    /\ UNCHANGED <<ring, shutdown, done, owner, threads, tail, memory, history>>

\* It takes what is published by now, or sleeps and tests again.
LoadTail ==
    /\ consumer = "load"
    /\ tail' = currentTail
    /\ consumer' = IF head # currentTail THEN "consume" ELSE "test"
    /\ UNCHANGED <<ring, shutdown, done, owner, threads, memory, history>>

\* consumeFunc returns: the batch is given back, or the thread leaves its loop.
Consume(accepted) ==
    /\ consumer = "consume"
    /\ output' = output \o [i \in 1 .. BatchSize(head, tail) |-> memory[Cell(head + i - 1)]]
    /\ head' = IF accepted THEN tail ELSE head
    /\ consumer' = IF accepted THEN "test" ELSE "broken"
    /\ UNCHANGED <<candidateTail, currentTail, tailLock, shutdown, done, owner, threads,
                   tail, memory, acquires, stream, stopMark>>

-------------------------------------------------------------------------------
(* Stopping and releasing the ring.                                        *)

\* swMPSCRingBufferStop, called when the thread manager stops its threads.
Stop ==
    /\ ~shutdown /\ ~done
    /\ shutdown' = TRUE
    /\ stopMark' = Published
    /\ UNCHANGED <<ring, done, owner, threads, consumer, tail, memory, acquires, stream,
                   output>>

\* swMPSCRingBufferDone, called on the edge loop when the thread is joined.
Done ==
    /\ consumer \in {"returned", "broken"} /\ ~done
    /\ done' = TRUE
    /\ UNCHANGED <<ring, shutdown, owner, threads, consumer, tail, memory, history>>

\* Mutant: Release waits for the consumer but does not tell it to stop.
ReleaseRingSilently ==
    /\ owner = "open" /\ \A p \in Producers : pc[p] = "idle"
    /\ owner' = "releasing"
    /\ UNCHANGED <<ring, shutdown, done, threads, consumer, tail, memory, history>>

\* swMPSCRingBufferRelease: the owner calls it when its producers have finished.
\* While the consumer is not done it sets shutdown and runs the edge loop.
ReleaseRing ==
    /\ owner = "open" /\ \A p \in Producers : pc[p] = "idle"
    /\ owner' = "releasing"
    /\ shutdown' = (shutdown \/ ~done)
    /\ stopMark' = IF shutdown \/ done THEN stopMark ELSE Published
    /\ UNCHANGED <<ring, done, threads, consumer, tail, memory, acquires, stream, output>>

\* Its loop ends once the consumer is done, and the memory is unmapped.
Unmap ==
    /\ owner = "releasing" /\ done
    /\ owner' = "unmapped"
    /\ UNCHANGED <<ring, shutdown, done, threads, consumer, tail, memory, history>>

-------------------------------------------------------------------------------
Producer(p) == Lock(p) \/ ReadHead(p) \/ Reserve(p) \/ Write(p) \/ Release(p)

Consumer ==
    \/ TestShutdown
    \/ TestEmpty
    \/ LoadTail
    \/ \E accepted \in BOOLEAN : Consume(accepted)

Next ==
    \/ \E p \in Producers : Producer(p)
    \/ Consumer
    \/ Stop
    \/ Done
    \/ ReleaseRing
    \/ Unmap

Spec == Init /\ [][Next]_vars

(* A producer that holds the lock or a region runs on, fills its region    *)
(* and releases it; the consumer thread is scheduled; the edge loop joins  *)
(* it.  Nobody has to call ProduceAcquire, Stop or Release.                *)
Fairness ==
    /\ \A p \in Producers : WF_vars(ReadHead(p) \/ Reserve(p) \/ Write(p) \/ Release(p))
    /\ WF_vars(Consumer)
    /\ WF_vars(Done)
    /\ WF_vars(Unmap)

FairSpec == Spec /\ Fairness

-------------------------------------------------------------------------------
(* Properties.                                                             *)

Offsets == 0 .. Size
Messages == Producers \X (1 .. MaxAcquires)
Ended == {"returned", "broken"}

\* Every field and local of the ring, its producers and its consumer keeps to
\* its range; in particular no offset ever leaves the buffer.
TypeOK ==
    /\ head \in Offsets /\ candidateTail \in Offsets /\ currentTail \in Offsets
    /\ tailLock \in BOOLEAN /\ shutdown \in BOOLEAN /\ done \in BOOLEAN
    /\ owner \in {"open", "releasing", "unmapped"}
    /\ pc \in [Producers -> {"idle", "locked", "sizing", "reserved", "written"}]
    /\ size \in [Producers -> Nat]
    /\ seenHead \in [Producers -> Offsets]
    /\ buffer \in [Producers -> Offsets]
    /\ consumer \in {"test", "drain", "load", "consume"} \union Ended
    /\ tail \in Offsets
    /\ memory \in [0 .. Size - 1 -> Messages \union {<<>>}]
    /\ acquires \in [Producers -> 0 .. MaxAcquires]
    /\ stream \in Seq(Messages)
    /\ output \in Seq(Messages \union {<<>>})
    /\ stopMark \in Nat

Holds(p) == pc[p] \in {"reserved", "written"}
Held(p) == Region(buffer[p], size[p])
Unread == Region(head, Used(head, currentTail))

\* The regions handed out by ProduceAcquire and not yet released are disjoint
\* from each other and from the bytes the consumer is reading or will read,
\* although producers size them with a head that may be stale.
NoOverlap ==
    \A p \in Producers : Holds(p) =>
        /\ Held(p) \intersect Unread = {}
        /\ \A q \in Producers \ {p} : Holds(q) => Held(p) \intersect Held(q) = {}

\* Wrapping neither loses nor invents room: while the consumer runs, the free
\* space ProduceAcquire computes is the capacity, Size - 1, less the bytes that
\* were reserved and not yet handed to consumeFunc.
NoSpaceLost ==
    consumer # "broken" =>
        Available(head, candidateTail) = Size - 1 - (Len(stream) - Len(output))

\* consumeFunc is handed what the producers wrote, in the order in which they
\* acquired the space, every byte once.
InOrder == output = SubSeq(stream, 1, Len(output))

\* A consumer that leaves its loop because of shutdown has handed over all that
\* was released before shutdown was set.
StopDrains == consumer = "returned" => Len(output) >= stopMark

\* swMPSCRingBufferRelease unmaps the buffer only when nobody can touch it.
UnmappedUnused ==
    owner = "unmapped" => consumer \in Ended /\ \A p \in Producers : pc[p] = "idle"

\* Stopping and releasing the ring takes nothing from its users: what was released is
\* consumed, and what they work on stays mapped.
StopsSafely == StopDrains /\ UnmappedUnused

\* A producer that filled its region gets out of ProduceRelease: the earlier
\* regions are released and the CAS on currentTail meets its offset.
RegionsPublished ==
    \A p \in Producers : pc[p] = "written" ~> pc[p] = "idle"

\* A released byte reaches consumeFunc, unless the consumer thread ends first.
PublishedDelivered ==
    \A n \in 1 .. MaxAcquires * Size :
        Published >= n ~> (Len(output) >= n \/ consumer \in Ended)

\* swMPSCRingBufferRelease returns.
ReleaseReturns == owner = "releasing" ~> owner = "unmapped"

-------------------------------------------------------------------------------
(* The inductive invariant behind the safety properties.  Everything is    *)
(* measured as a distance from head, which turns the circular order into   *)
(* an interval: published, then held regions, then free space.             *)

InLock(p) == pc[p] \in {"locked", "sizing"}

\* The distance of an offset from head.  Offset 0 is left behind for good once
\* head moves, so it cannot be confused with its alias Size.
Distance(offset) == Used(head, offset)
InWindow(offset) == offset = 0 => head = 0

\* The spin lock is held exactly while one producer is between its lock and unlock.
LockInv ==
    /\ \A p, q \in Producers : InLock(p) /\ InLock(q) => p = q
    /\ (\E p \in Producers : InLock(p)) => tailLock

\* head, then currentTail, then candidateTail, less than a full turn apart.
TailInv ==
    /\ InWindow(currentTail) /\ InWindow(candidateTail)
    /\ Distance(currentTail) <= Distance(candidateTail)
    /\ Distance(candidateTail) <= Size - 1

\* The batch being consumed is a non-empty part of what is published.
BatchInv ==
    consumer = "consume" =>
        /\ InWindow(tail)
        /\ 0 < Distance(tail) /\ Distance(tail) <= Distance(currentTail)

\* A producer about to reserve saw a head that was right, or has moved on since.
StaleHeadInv ==
    \A p \in Producers : pc[p] = "sizing" =>
        /\ candidateTail = 0 => seenHead[p] = 0
        /\ Used(seenHead[p], candidateTail) <= Size - 1
        /\ Used(seenHead[p], head) + Distance(candidateTail)
              = Used(seenHead[p], candidateTail)

\* Held regions lie between the tails, one after the other.
HeldInv ==
    \A p \in Producers : Holds(p) =>
        /\ InWindow(buffer[p])
        /\ Distance(currentTail) <= Distance(buffer[p])
        /\ Distance(buffer[p]) + size[p] <= Distance(candidateTail)
        /\ \A q \in Producers \ {p} : Holds(q) =>
              \/ Distance(buffer[p]) + size[p] <= Distance(buffer[q])
              \/ Distance(buffer[q]) + size[q] <= Distance(buffer[p])

CallInv == \A p \in Producers : InLock(p) \/ Holds(p) => size[p] > 0 /\ acquires[p] > 0

\* What was handed over is what was freed, until a batch is refused.
CountInv ==
    /\ consumer # "broken" => Len(output) = Freed
    /\ 0 <= Freed /\ Len(output) <= Published /\ stopMark <= Published
    /\ consumer \in {"drain", "returned"} => shutdown
    /\ StopDrains

\* A ring is released after its producers finished, and unmapped after its consumer.
OwnerInv ==
    /\ done => consumer \in Ended
    /\ owner # "open" => \A p \in Producers : pc[p] = "idle"
    /\ owner = "unmapped" => done

\* The bytes between head and candidateTail are the end of the stream, and those
\* of them that are written hold their message.
DataInv ==
    /\ \A i \in 1 .. Len(output) : output[i] = stream[i]
    /\ \A i \in 0 .. Distance(currentTail) - 1 :
          memory[Cell(head + i)] = stream[Freed + i + 1]
    /\ \A p \in Producers : Holds(p) =>
          \A i \in 0 .. size[p] - 1 : stream[Freed + Distance(buffer[p]) + i + 1] = Message(p)
    /\ \A p \in Producers : pc[p] = "written" =>
          \A i \in 0 .. size[p] - 1 : memory[Cell(buffer[p] + i)] = Message(p)

\* How many bytes of the stream come before the region a producer holds.
Position(p) == Freed + Distance(buffer[p])

\* Whether a producer may have reserved space for its k-th message.
Asked(p, k) == k < acquires[p] \/ (k = acquires[p] /\ ~InLock(p))

\* No message is in the stream before it is reserved, and the bytes of a message that
\* is still held are those of its region and no others.
StreamInv ==
    /\ Freed <= Len(output)
    /\ \A p \in Producers, k \in 1 .. MaxAcquires : ~Asked(p, k) =>
          \A i \in 1 .. Len(stream) : stream[i] # <<p, k>>
    /\ \A p \in Producers : Holds(p) => \A i \in 1 .. Len(stream) :
          stream[i] = Message(p) => i \in Position(p) + 1 .. Position(p) + size[p]

IInv ==
    /\ TypeOK /\ LockInv /\ TailInv /\ BatchInv /\ StaleHeadInv /\ HeldInv /\ CallInv
    /\ CountInv /\ OwnerInv
===============================================================================

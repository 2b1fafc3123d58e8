-------------------------- MODULE MPSCFutexRingBuffer --------------------------
(***************************************************************************)
(* thread/mpsc-futex-ring-buffer.c: the ring of MPSCRingBuffer with 32-bit *)
(* offsets 0 .. Size - 1 instead of pointers, whose producers sleep on the *)
(* futex word currentTail instead of spinning, and whose consumer sleeps   *)
(* on it, for at most a millisecond, when there is nothing to read.        *)
(*                                                                         *)
(* The kernel compares the word with the value the caller expects and      *)
(* queues the caller in one step; a sleeper may be woken by a signal.      *)
(***************************************************************************)
EXTENDS Integers, Sequences

CONSTANTS Producers,   \* threads that call ProduceAcquire and ProduceRelease
          Size,        \* ringBuffer->size, in bytes
          Requests,    \* sizes that producers ask for
          MaxAcquires, \* bound: calls of ProduceAcquire by one producer
          Failing      \* threads whose futex system calls may report errors

ASSUME FutexRingAssumption ==
    /\ Size \in Nat \ {0}
    /\ Requests \subseteq Nat \ {0}
    /\ MaxAcquires \in Nat
    /\ Failing \subseteq Producers \union {"consumer"}

VARIABLES
    head, candidateTail, currentTail, \* the offsets of swMPSCFutexRingBuffer
    tailLock,                         \* the spin lock: TRUE while held
    shutdown, done,
    owner,     \* the thread that releases the ring: open, releasing or unmapped
    pc,        \* where each producer is
    size,      \* the size each producer asked for
    seenHead,  \* the head each producer read inside the lock
    buffer,    \* the offset of the region each producer was given
    seenTail,  \* the currentTail each producer read before it waits
    consumer,  \* where the consumer thread is in swMPSCFutexRingBufferRun
    tail,      \* its local currentTail
    memory,    \* the bytes of the ring, each labelled with the message it belongs to
    acquires,  \* history: acquire calls made by each producer
    stream,    \* history: every byte reserved, in the order of reservation
    output,    \* history: every byte handed to consumeFunc
    stopMark   \* history: bytes published when shutdown was set

ring == <<head, candidateTail, currentTail, tailLock>>
life == <<shutdown, done, owner>>
threads == <<pc, size, seenHead, buffer, seenTail>>
reader == <<consumer, tail>>
history == <<acquires, stream, output, stopMark>>
vars == <<ring, life, threads, reader, memory, history>>

-------------------------------------------------------------------------------
\* The last offset before bufferEnd is the greatest.
Wrap(offset) == IF offset < Size THEN offset ELSE offset - Size

\* Mutant: the byte that tells a full ring from an empty one is handed out too.
AvailableAll(from, cand) ==
    IF cand > from THEN (Size - cand) + from
    ELSE IF cand < from THEN from - cand
    ELSE Size - 1

\* sizeAvailable of ProduceAcquire.
Available(from, cand) ==
    IF cand > from THEN (Size - cand) + from - 1
    ELSE IF cand < from THEN from - cand - 1
    ELSE Size - 1

\* The size the consumer hands to consumeFunc.
BatchSize(from, to) == IF from < to THEN to - from ELSE (Size - from) + to

\* The bytes of the doubly mapped buffer that a region of n bytes covers.
Region(from, n) == {Wrap(from + i) : i \in 0 .. n - 1}

\* The message a producer is sending, told apart by its acquire number.
Message(p) == <<p, acquires[p]>>

\* Bytes from one offset to another one ahead of it (none when they are equal).
Used(from, to) == IF from <= to THEN to - from ELSE (Size - from) + to

\* Bytes whose space the consumer gave back, and bytes it may read or has read.
Freed == Len(stream) - Used(head, candidateTail)
Published == Freed + Used(head, currentTail)

-------------------------------------------------------------------------------
Init ==
    /\ head = 0 /\ candidateTail = 0 /\ currentTail = 0
    /\ tailLock = FALSE
    /\ shutdown = FALSE /\ done = FALSE
    /\ owner = "open"
    /\ pc = [p \in Producers |-> "idle"]
    /\ size = [p \in Producers |-> 0]
    /\ seenHead = [p \in Producers |-> 0]
    /\ buffer = [p \in Producers |-> 0]
    /\ seenTail = [p \in Producers |-> 0]
    /\ consumer = "test" /\ tail = 0
    /\ memory = [i \in 0 .. Size - 1 |-> <<>>]
    /\ acquires = [p \in Producers |-> 0]
    /\ stream = <<>> /\ output = <<>>
    /\ stopMark = 0

-------------------------------------------------------------------------------
(* swMPSCFutexRingBufferProduceAcquire.                                    *)

\* A producer enters ProduceAcquire and wins the spin lock.
Lock(p) ==
    /\ pc[p] = "idle" /\ acquires[p] < MaxAcquires /\ owner = "open"
    /\ ~tailLock
    /\ tailLock' = TRUE
    /\ \E n \in Requests : size' = [size EXCEPT ![p] = n]
    /\ acquires' = [acquires EXCEPT ![p] = @ + 1]
    /\ pc' = [pc EXCEPT ![p] = "locked"]
    /\ UNCHANGED <<head, candidateTail, currentTail, life, seenHead, buffer, seenTail,
                   reader, memory, stream, output, stopMark>>

\* It reads head, which the consumer may move at any time after.
ReadHead(p) ==
    /\ pc[p] = "locked"
    /\ seenHead' = [seenHead EXCEPT ![p] = head]
    /\ pc' = [pc EXCEPT ![p] = "sizing"]
    /\ UNCHANGED <<ring, life, size, buffer, seenTail, reader, memory, history>>

\* It takes the region when it fits and leaves the lock either way.  Here and in TestTurn a
\* local that is not read again is set to zero.
Reserve(p) ==
    /\ pc[p] = "sizing"
    /\ IF Available(seenHead[p], candidateTail) >= size[p]
       THEN /\ candidateTail' = Wrap(candidateTail + size[p])
            /\ buffer' = [buffer EXCEPT ![p] = candidateTail]
            /\ stream' = stream \o [i \in 1 .. size[p] |-> Message(p)]
            /\ pc' = [pc EXCEPT ![p] = "reserved"]
       ELSE /\ pc' = [pc EXCEPT ![p] = "idle"]
            /\ UNCHANGED <<candidateTail, buffer, stream>>
    /\ tailLock' = FALSE
    /\ seenHead' = [seenHead EXCEPT ![p] = 0]
    /\ UNCHANGED <<head, currentTail, life, size, seenTail, reader, memory, acquires, output,
                   stopMark>>

\* The caller fills the region it was given.
Write(p) ==
    /\ pc[p] = "reserved"
    /\ memory' = [i \in 0 .. Size - 1 |->
                     IF i \in Region(buffer[p], size[p]) THEN Message(p) ELSE memory[i]]
    /\ pc' = [pc EXCEPT ![p] = "written"]
    /\ UNCHANGED <<ring, life, size, seenHead, buffer, seenTail, reader, history>>

-------------------------------------------------------------------------------
(* swMPSCFutexRingBufferProduceRelease.                                    *)

\* The producer reads currentTail: it waits unless the tail has reached its region.
TestTurn(p) ==
    /\ pc[p] = "written"
    /\ seenTail' = [seenTail EXCEPT ![p] = IF currentTail = buffer[p] THEN 0 ELSE currentTail]
    /\ pc' = [pc EXCEPT ![p] = IF currentTail = buffer[p] THEN "swap" ELSE "wait"]
    /\ UNCHANGED <<ring, life, size, seenHead, buffer, reader, memory, history>>

\* Mutant: the producer sleeps although the tail it saw has moved.
SleepBlindly(p) ==
    /\ pc[p] = "wait"
    /\ pc' = [pc EXCEPT ![p] = "asleep"]
    /\ UNCHANGED <<ring, life, size, seenHead, buffer, seenTail, reader, memory, history>>

\* swFutexWait: sleep if currentTail is still the value seen, else look again.
Sleep(p) ==
    /\ pc[p] = "wait"
    /\ pc' = [pc EXCEPT ![p] = IF currentTail = seenTail[p] THEN "asleep" ELSE "written"]
    /\ UNCHANGED <<ring, life, size, seenHead, buffer, seenTail, reader, memory, history>>

\* swFutexWait fails: ProduceRelease returns false and the region stays unpublished.
SleepFails(p) ==
    /\ p \in Failing /\ pc[p] = "wait"
    /\ pc' = [pc EXCEPT ![p] = "failed"]
    /\ UNCHANGED <<ring, life, size, seenHead, buffer, seenTail, reader, memory, history>>

\* A signal ends the sleep (EINTR), which swFutexWait reports as a success.
Interrupt(p) ==
    /\ pc[p] = "asleep"
    /\ pc' = [pc EXCEPT ![p] = "written"]
    /\ UNCHANGED <<ring, life, size, seenHead, buffer, seenTail, reader, memory, history>>

\* The CAS loop on currentTail.
Swap(p) ==
    /\ pc[p] = "swap" /\ currentTail = buffer[p]
    /\ currentTail' = Wrap(buffer[p] + size[p])
    /\ pc' = [pc EXCEPT ![p] = "wake"]
    /\ UNCHANGED <<head, candidateTail, tailLock, life, size, seenHead, buffer, seenTail,
                   reader, memory, history>>

\* Mutant: only one of the sleeping threads is woken.
WakeOne(p) ==
    /\ pc[p] = "wake"
    /\ \/ /\ consumer = "asleep" /\ consumer' = "test"
          /\ pc' = [pc EXCEPT ![p] = "idle"]
       \/ /\ \E q \in Producers : /\ pc[q] = "asleep"
                                  /\ pc' = [pc EXCEPT ![p] = "idle", ![q] = "written"]
          /\ UNCHANGED consumer
       \/ /\ consumer # "asleep" /\ \A q \in Producers : pc[q] # "asleep"
          /\ pc' = [pc EXCEPT ![p] = "idle"]
          /\ UNCHANGED consumer
    /\ UNCHANGED <<ring, life, size, seenHead, buffer, seenTail, tail, memory, history>>

\* swFutexWakeupAll: every sleeping thread looks at currentTail again.
WakeAll(p) ==
    /\ pc[p] = "wake"
    /\ pc' = [q \in Producers |->
                IF q = p THEN "idle" ELSE IF pc[q] = "asleep" THEN "written" ELSE pc[q]]
    /\ consumer' = IF consumer = "asleep" THEN "test" ELSE consumer
    /\ UNCHANGED <<ring, life, size, seenHead, buffer, seenTail, tail, memory, history>>

\* swFutexWakeupAll fails: ProduceRelease returns false, but the region is published.
WakeFails(p) ==
    /\ p \in Failing /\ pc[p] = "wake"
    /\ pc' = [pc EXCEPT ![p] = "unwoken"]
    /\ UNCHANGED <<ring, life, size, seenHead, buffer, seenTail, reader, memory, history>>

-------------------------------------------------------------------------------
(* swMPSCFutexRingBufferRun, the consumer thread.                          *)

\* The loop condition: shutdown is read first ...
TestShutdown ==
    /\ consumer = "test"
    /\ consumer' = IF shutdown THEN "drain" ELSE "load"
    /\ UNCHANGED <<ring, life, threads, tail, memory, history>>

\* Mutant: shutdown alone ends the loop.
TestEmptySkipped ==
    /\ consumer = "drain"
    /\ consumer' = "returned"
    /\ UNCHANGED <<ring, life, threads, tail, memory, history>>

\* ... and only when it is set, whether anything is left to read.
TestEmpty ==
    /\ consumer = "drain"
    /\ consumer' = IF currentTail # head THEN "load" ELSE "returned"
    /\ UNCHANGED <<ring, life, threads, tail, memory, history>>

\* It takes what is published by now, or goes to sleep.
LoadTail ==
    /\ consumer = "load"
    /\ tail' = currentTail
    /\ consumer' = IF head # currentTail THEN "consume" ELSE "doze"
    /\ UNCHANGED <<ring, life, threads, memory, history>>

\* consumeFunc returns: the batch is given back, or the thread leaves its loop.
Consume(accepted) ==
    /\ consumer = "consume"
    /\ output' = output \o [i \in 1 .. BatchSize(head, tail) |-> memory[Wrap(head + i - 1)]]
    /\ head' = IF accepted THEN tail ELSE head
    /\ consumer' = IF accepted THEN "test" ELSE "broken"
    /\ UNCHANGED <<candidateTail, currentTail, tailLock, life, threads, tail, memory,
                   acquires, stream, stopMark>>

\* swFutexWaitWithTimeout: sleep if currentTail is still the value read.
Doze ==
    /\ consumer = "doze"
    /\ consumer' = IF currentTail = tail THEN "asleep" ELSE "test"
    /\ UNCHANGED <<ring, life, threads, tail, memory, history>>

\* The wait fails and the thread leaves its loop.
DozeFails ==
    /\ "consumer" \in Failing /\ consumer = "doze"
    /\ consumer' = "broken"
    /\ UNCHANGED <<ring, life, threads, tail, memory, history>>

\* The millisecond is over.
DozeTimeout ==
    /\ consumer = "asleep"
    /\ consumer' = "test"
    /\ UNCHANGED <<ring, life, threads, tail, memory, history>>

-------------------------------------------------------------------------------
(* Stopping and releasing the ring.                                        *)

\* swMPSCFutexRingBufferStop, called when the thread manager stops its threads.
Stop ==
    /\ ~shutdown /\ ~done
    /\ shutdown' = TRUE
    /\ stopMark' = Published
    /\ UNCHANGED <<ring, done, owner, threads, reader, memory, acquires, stream, output>>

\* swMPSCFutexRingBufferDone, called on the edge loop when the thread is joined.
Done ==
    /\ consumer \in {"returned", "broken"} /\ ~done
    /\ done' = TRUE
    /\ UNCHANGED <<ring, shutdown, owner, threads, reader, memory, history>>

Quiet == \A p \in Producers : pc[p] \in {"idle", "failed", "unwoken"}

\* swMPSCFutexRingBufferRelease: the owner calls it when its producers have finished.
\* While the consumer is not done it sets shutdown and runs the edge loop.
ReleaseRing ==
    /\ owner = "open" /\ Quiet
    /\ owner' = "releasing"
    /\ shutdown' = (shutdown \/ ~done)
    /\ stopMark' = IF shutdown \/ done THEN stopMark ELSE Published
    /\ UNCHANGED <<ring, done, threads, reader, memory, acquires, stream, output>>

\* Its loop ends once the consumer is done, and the memory is unmapped.
Unmap ==
    /\ owner = "releasing" /\ done
    /\ owner' = "unmapped"
    /\ UNCHANGED <<ring, shutdown, done, threads, reader, memory, history>>

-------------------------------------------------------------------------------
Acquire(p) == Lock(p) \/ ReadHead(p) \/ Reserve(p)

Release(p) ==
    \/ TestTurn(p) \/ Sleep(p) \/ SleepFails(p) \/ Interrupt(p)
    \/ Swap(p) \/ WakeAll(p) \/ WakeFails(p)

Consumer ==
    \/ TestShutdown \/ TestEmpty \/ LoadTail
    \/ \E accepted \in BOOLEAN : Consume(accepted)
    \/ Doze \/ DozeFails \/ DozeTimeout

Next ==
    \/ \E p \in Producers : Acquire(p) \/ Write(p) \/ Release(p)
    \/ Consumer
    \/ Stop
    \/ Done
    \/ ReleaseRing
    \/ Unmap

Spec == Init /\ [][Next]_vars

(* A producer runs on, but nobody promises it a signal while it sleeps; the *)
(* consumer thread is scheduled and its timer expires; the edge loop joins  *)
(* it.  Nobody has to call ProduceAcquire, Stop or Release.                 *)
Fairness ==
    /\ \A p \in Producers :
          WF_vars(ReadHead(p) \/ Reserve(p) \/ Write(p) \/ TestTurn(p) \/ Sleep(p)
                  \/ Swap(p) \/ WakeAll(p))
    /\ WF_vars(Consumer)
    /\ WF_vars(Done)
    /\ WF_vars(Unmap)

FairSpec == Spec /\ Fairness

-------------------------------------------------------------------------------
(* Properties.                                                             *)

Offsets == 0 .. Size - 1
Messages == Producers \X (1 .. MaxAcquires)
Ended == {"returned", "broken"}
Releasing == {"written", "wait", "asleep", "swap", "failed"}

\* Every field and local of the ring, its producers and its consumer keeps to
\* its range; unlike in MPSCRingBuffer no offset is ever equal to Size.
TypeOK ==
    /\ head \in Offsets /\ candidateTail \in Offsets /\ currentTail \in Offsets
    /\ tailLock \in BOOLEAN /\ shutdown \in BOOLEAN /\ done \in BOOLEAN
    /\ owner \in {"open", "releasing", "unmapped"}
    /\ pc \in [Producers ->
                 {"idle", "locked", "sizing", "reserved", "wake", "unwoken"} \union Releasing]
    /\ size \in [Producers -> Nat]
    /\ seenHead \in [Producers -> Offsets]
    /\ buffer \in [Producers -> Offsets]
    /\ seenTail \in [Producers -> Offsets]
    /\ consumer \in {"test", "drain", "load", "consume", "doze", "asleep"} \union Ended
    /\ tail \in Offsets
    /\ memory \in [0 .. Size - 1 -> Messages \union {<<>>}]
    /\ acquires \in [Producers -> 0 .. MaxAcquires]
    /\ stream \in Seq(Messages)
    /\ output \in Seq(Messages \union {<<>>})
    /\ stopMark \in Nat

Holds(p) == pc[p] \in Releasing \union {"reserved"}
Held(p) == Region(buffer[p], size[p])
Unread == Region(head, Used(head, currentTail))

\* The regions handed out by ProduceAcquire and not yet published, including one
\* whose release failed, are disjoint from each other and from the bytes the
\* consumer is reading or will read.
NoOverlap ==
    \A p \in Producers : Holds(p) =>
        /\ Held(p) \intersect Unread = {}
        /\ \A q \in Producers \ {p} : Holds(q) => Held(p) \intersect Held(q) = {}

\* Nobody sleeps on a tail that has moved, unless the wake-up for the last move is on the
\* way or has failed: the futex call compares and sleeps in one step, and every change
\* wakes everybody, also those whom an earlier wake-up failed to wake.
NoLostWakeup ==
    \A p \in Producers : pc[p] = "asleep" /\ currentTail # seenTail[p] =>
        \E q \in Producers :
            pc[q] \in {"wake", "unwoken"} /\ currentTail = Wrap(buffer[q] + size[q])

\* A consumer that returns because of shutdown has handed over all that was
\* published before shutdown was set.
StopDrains == consumer = "returned" => Len(output) >= stopMark

\* A producer that filled its region gets out of ProduceRelease, unless a futex call failed
\* in one: behind a wait that failed nothing is published any more, and a wake-up that failed
\* may have been for the last of those who sleep.
RegionsPublished ==
    \A p \in Producers :
        pc[p] = "written" ~> \/ pc[p] = "idle"
                            \/ \E q \in Producers : pc[q] \in {"failed", "unwoken"}

\* consumeFunc always catches up with what is published, unless the consumer thread ends.
PublishedDelivered == []<>(Len(output) = Published \/ consumer \in Ended)

\* swMPSCFutexRingBufferRelease returns.
ReleaseReturns == owner = "releasing" ~> owner = "unmapped"

-------------------------------------------------------------------------------
(* The inductive invariant behind NoLostWakeup.                            *)

\* The part of TypeOK it needs, which holds without knowing that offsets wrap.
Shape ==
    /\ candidateTail \in Int /\ currentTail \in Int
    /\ pc \in [Producers ->
                 {"idle", "locked", "sizing", "reserved", "wake", "unwoken"} \union Releasing]
    /\ size \in [Producers -> Int]
    /\ buffer \in [Producers -> Int]
    /\ seenTail \in [Producers -> Int]

WakeInv == Shape /\ NoLostWakeup

-------------------------------------------------------------------------------
(* The inductive invariant behind the other safety properties: seen from   *)
(* head the ring is an interval of published bytes, then of held regions,  *)
(* then of free space, as in MPSCRingBuffer.                               *)

InLock(p) == pc[p] \in {"locked", "sizing"}

\* The distance of an offset from head.
Distance(offset) == Used(head, offset)

\* The spin lock is held exactly while one producer is between its lock and unlock.
LockInv ==
    /\ \A p, q \in Producers : InLock(p) /\ InLock(q) => p = q
    /\ (\E p \in Producers : InLock(p)) => tailLock

\* head, then currentTail, then candidateTail.
TailInv == Distance(currentTail) <= Distance(candidateTail)

\* The batch being consumed is a non-empty part of what is published.
BatchInv ==
    consumer = "consume" =>
        0 < Distance(tail) /\ Distance(tail) <= Distance(currentTail)

\* A producer about to reserve saw a head that was right, or has moved on since.
StaleHeadInv ==
    \A p \in Producers : pc[p] = "sizing" =>
        Used(seenHead[p], head) + Distance(candidateTail) = Used(seenHead[p], candidateTail)

\* Held regions lie between the tails, one after the other.
HeldInv ==
    \A p \in Producers : Holds(p) =>
        /\ Distance(currentTail) <= Distance(buffer[p])
        /\ Distance(buffer[p]) + size[p] <= Distance(candidateTail)
        /\ \A q \in Producers \ {p} : Holds(q) =>
              \/ Distance(buffer[p]) + size[p] <= Distance(buffer[q])
              \/ Distance(buffer[q]) + size[q] <= Distance(buffer[p])

CallInv == \A p \in Producers : InLock(p) \/ Holds(p) => size[p] > 0 /\ acquires[p] > 0

\* What was handed over is what was freed, until a batch is refused.
CountInv ==
    /\ consumer # "broken" => Len(output) = Freed
    /\ 0 <= Freed /\ Freed <= Len(output) /\ Len(output) <= Published
    /\ stopMark <= Published
    /\ consumer \in {"drain", "returned"} => shutdown
    /\ StopDrains

RingInv ==
    /\ TypeOK /\ LockInv /\ TailInv /\ BatchInv /\ StaleHeadInv /\ HeldInv /\ CallInv
    /\ CountInv

\* The bytes between head and candidateTail are the end of the stream, and those
\* of them that are written hold their message.
DataInv ==
    /\ \A i \in 1 .. Len(output) : output[i] = stream[i]
    /\ \A i \in 0 .. Distance(currentTail) - 1 :
          memory[Wrap(head + i)] = stream[Freed + i + 1]
    /\ \A p \in Producers : Holds(p) =>
          \A i \in 0 .. size[p] - 1 : stream[Freed + Distance(buffer[p]) + i + 1] = Message(p)
    /\ \A p \in Producers : pc[p] \in Releasing =>
          \A i \in 0 .. size[p] - 1 : memory[Wrap(buffer[p] + i)] = Message(p)

\* How many bytes of the stream come before the region a producer holds.
Position(p) == Freed + Distance(buffer[p])

\* Whether a producer may have reserved space for its k-th message.
Asked(p, k) == k < acquires[p] \/ (k = acquires[p] /\ ~InLock(p))

\* No message is in the stream before it is reserved, and the bytes of a message that
\* is still held are those of its region and no others.
StreamInv ==
    /\ \A p \in Producers, k \in 1 .. MaxAcquires : ~Asked(p, k) =>
          \A i \in 1 .. Len(stream) : stream[i] # <<p, k>>
    /\ \A p \in Producers : Holds(p) => \A i \in 1 .. Len(stream) :
          stream[i] = Message(p) => i \in Position(p) + 1 .. Position(p) + size[p]
===============================================================================

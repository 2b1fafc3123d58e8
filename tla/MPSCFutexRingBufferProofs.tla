----------------------- MODULE MPSCFutexRingBufferProofs -----------------------
(***************************************************************************)
(* Proofs about MPSCFutexRingBuffer, for any number of producers, any size *)
(* of ring, any requested sizes and any number of calls: WakeInv, by which *)
(* no wake-up of a producer is lost, and RingInv, by which their regions   *)
(* stay apart, are inductive.                                              *)
(***************************************************************************)
EXTENDS MPSCFutexRingBufferMC, SequenceTheorems, TLAPS

(* Waiting and waking.                                                     *)

\* The program starts with everybody awake.
LEMMA InitWakeInv == Init => WakeInv
  BY DEF Init, WakeInv, Shape, NoLostWakeup

\* Acquiring and filling a region puts nobody to sleep and moves no tail.
LEMMA AcquireWakeInv ==
    ASSUME WakeInv, NEW p \in Producers, Acquire(p) \/ Write(p) PROVE WakeInv'
<1> USE FutexRingAssumption DEF WakeInv, Shape, Releasing
<1>1. CASE Lock(p)
  <2>1. Shape'
    BY <1>1 DEF Lock
  <2>2. \A q \in Producers : pc'[q] = IF q = p THEN "locked" ELSE pc[q]
    BY <1>1 DEF Lock
  <2>3. /\ pc[p] = "idle" /\ UNCHANGED <<currentTail, seenTail, buffer>>
        /\ \A q \in Producers : q # p => size'[q] = size[q]
    BY <1>1 DEF Lock
  <2> QED
    BY <2>1, <2>2, <2>3 DEF NoLostWakeup
<1>2. CASE ReadHead(p)
  <2>1. Shape'
    BY <1>2 DEF ReadHead, ring
  <2>2. \A q \in Producers : pc'[q] = IF q = p THEN "sizing" ELSE pc[q]
    BY <1>2 DEF ReadHead
  <2>3. pc[p] = "locked" /\ UNCHANGED <<currentTail, seenTail, buffer, size>>
    BY <1>2 DEF ReadHead, ring
  <2> QED
    BY <2>1, <2>2, <2>3 DEF NoLostWakeup
<1>3. CASE Reserve(p)
  <2> DEFINE fits == Available(seenHead[p], candidateTail) >= size[p]
  <2>1. pc[p] = "sizing" /\ UNCHANGED <<currentTail, size, seenTail>>
    BY <1>3 DEF Reserve
  <2>2. CASE fits
    <3>1. /\ candidateTail' = Wrap(candidateTail + size[p])
          /\ buffer' = [buffer EXCEPT ![p] = candidateTail]
          /\ pc' = [pc EXCEPT ![p] = "reserved"]
      BY <1>3, <2>2 DEF Reserve
    <3>2. Shape'
      BY <2>1, <3>1 DEF Wrap
    <3> QED
      BY <2>1, <3>1, <3>2 DEF NoLostWakeup
  <2>3. CASE ~fits
    <3>1. pc' = [pc EXCEPT ![p] = "idle"] /\ UNCHANGED <<candidateTail, buffer>>
      BY <1>3, <2>3 DEF Reserve
    <3> QED
      BY <2>1, <3>1 DEF NoLostWakeup
  <2> QED
    BY <2>2, <2>3
<1>4. CASE Write(p)
  <2>1. Shape'
    BY <1>4 DEF Write, ring
  <2>2. \A q \in Producers : pc'[q] = IF q = p THEN "written" ELSE pc[q]
    BY <1>4 DEF Write
  <2>3. pc[p] = "reserved" /\ UNCHANGED <<currentTail, seenTail, buffer, size>>
    BY <1>4 DEF Write, ring
  <2> QED
    BY <2>1, <2>2, <2>3 DEF NoLostWakeup
<1> QED
  BY <1>1, <1>2, <1>3, <1>4 DEF Acquire

\* A releasing producer sleeps only on the tail it saw; when it moves the tail it
\* owes a wake-up, and it pays it to everybody.
LEMMA ReleaseWakeInv ==
    ASSUME WakeInv, NEW p \in Producers, Release(p) PROVE WakeInv'
<1> USE FutexRingAssumption DEF WakeInv, Shape, Releasing
<1>1. CASE TestTurn(p)
  <2>1. Shape'
    BY <1>1 DEF TestTurn, ring
  <2>2. \A q \in Producers : q # p => pc'[q] = pc[q] /\ seenTail'[q] = seenTail[q]
    BY <1>1 DEF TestTurn
  <2>3. /\ pc[p] = "written" /\ UNCHANGED <<currentTail, buffer, size>>
        /\ pc'[p] \in {"swap", "wait"}
    BY <1>1 DEF TestTurn, ring
  <2> QED
    BY <2>1, <2>2, <2>3 DEF NoLostWakeup
<1>2. CASE Sleep(p)
  <2>1. Shape'
    BY <1>2 DEF Sleep, ring
  <2>2. \A q \in Producers : q # p => pc'[q] = pc[q]
    BY <1>2 DEF Sleep
  <2>3. /\ pc[p] = "wait" /\ UNCHANGED <<currentTail, seenTail, buffer, size>>
        /\ pc'[p] = IF currentTail = seenTail[p] THEN "asleep" ELSE "written"
    BY <1>2 DEF Sleep, ring
  <2> QED
    BY <2>1, <2>2, <2>3 DEF NoLostWakeup
<1>3. CASE SleepFails(p) \/ Interrupt(p) \/ WakeFails(p)
  <2>1. Shape'
    BY <1>3 DEF SleepFails, Interrupt, WakeFails, ring
  <2>2. \A q \in Producers : q # p => pc'[q] = pc[q]
    BY <1>3 DEF SleepFails, Interrupt, WakeFails
  <2>3. /\ \/ pc[p] \in {"wait", "asleep"} /\ pc'[p] \in {"failed", "written"}
           \/ pc[p] = "wake" /\ pc'[p] = "unwoken"
        /\ UNCHANGED <<currentTail, seenTail, buffer, size>>
    BY <1>3 DEF SleepFails, Interrupt, WakeFails, ring
  <2> QED
    BY <2>1, <2>2, <2>3 DEF NoLostWakeup
<1>4. CASE Swap(p)
  <2>1. Shape'
    BY <1>4 DEF Swap, Wrap
  <2>2. \A q \in Producers : pc'[q] = IF q = p THEN "wake" ELSE pc[q]
    BY <1>4 DEF Swap
  <2>3. UNCHANGED <<seenTail, buffer, size>> /\ currentTail' = Wrap(buffer[p] + size[p])
    BY <1>4 DEF Swap
  <2> QED
    BY <2>1, <2>2, <2>3 DEF NoLostWakeup, Wrap
<1>5. CASE WakeAll(p)
  <2>1. Shape'
    BY <1>5 DEF WakeAll, ring
  <2>2. \A q \in Producers : pc'[q] # "asleep"
    BY <1>5 DEF WakeAll
  <2> QED
    BY <2>1, <2>2 DEF NoLostWakeup
<1> QED
  BY <1>1, <1>2, <1>3, <1>4, <1>5 DEF Release

\* No other step concerns the producers or the futex word.
LEMMA OtherWakeInv ==
    ASSUME WakeInv,
           Consumer \/ Stop \/ Done \/ ReleaseRing \/ Unmap \/ UNCHANGED vars
    PROVE  WakeInv'
<1>1. UNCHANGED <<candidateTail, currentTail, threads>>
  BY DEF Consumer, TestShutdown, TestEmpty, LoadTail, Consume, Doze, DozeFails, DozeTimeout,
         Stop, Done, ReleaseRing, Unmap, vars, ring
<1> QED
  BY <1>1 DEF threads, WakeInv, Shape, NoLostWakeup

\* WakeInv holds in every reachable state, however many producers there are.
THEOREM WakeInvariance == Spec => []WakeInv
<1>1. WakeInv /\ [Next]_vars => WakeInv'
  BY AcquireWakeInv, ReleaseWakeInv, OtherWakeInv DEF Next
<1> QED
  BY InitWakeInv, <1>1, PTL DEF Spec

\* Nobody sleeps in the futex on a currentTail that has moved, unless the thread that
\* moved it last is about to wake everybody, or has failed to.
THEOREM WakeupsKept == Spec => []NoLostWakeup
<1>1. WakeInv => NoLostWakeup
  BY DEF WakeInv
<1> QED
  BY WakeInvariance, <1>1, PTL

-------------------------------------------------------------------------------
(* Arithmetic of offsets.                                                  *)

\* A distance is less than a turn, and zero for equal offsets only.
LEMMA UsedRange ==
    ASSUME NEW h \in Offsets, NEW x \in Offsets
    PROVE  /\ Used(h, x) \in Nat /\ Used(h, x) <= Size - 1
           /\ Used(h, x) = 0 <=> h = x
BY FutexRingAssumption DEF Used, Offsets

\* Distances to offsets ahead of another one shrink by the distance to it.
LEMMA UsedShift ==
    ASSUME NEW h \in Offsets, NEW t \in Offsets, NEW x \in Offsets,
           Used(h, t) <= Used(h, x)
    PROVE  Used(t, x) = Used(h, x) - Used(h, t)
BY FutexRingAssumption DEF Used, Offsets

\* Distances one after the other add up while they stay below a turn.
LEMMA UsedChain ==
    ASSUME NEW s \in Offsets, NEW h \in Offsets, NEW t \in Offsets,
           Used(s, h) + Used(h, t) <= Size - 1
    PROVE  Used(s, t) = Used(s, h) + Used(h, t)
BY FutexRingAssumption DEF Used, Offsets

\* Moving an offset ahead by n bytes and wrapping it adds n to its distance.
LEMMA UsedAdvance ==
    ASSUME NEW h \in Offsets, NEW x \in Offsets, NEW n \in Nat,
           Used(h, x) + n <= Size - 1
    PROVE  /\ Wrap(x + n) \in Offsets
           /\ Used(h, Wrap(x + n)) = Used(h, x) + n
BY FutexRingAssumption DEF Used, Wrap, Offsets

\* The code's free space and the used space add up to the capacity.
LEMMA AvailableUsed ==
    ASSUME NEW h \in Offsets, NEW c \in Offsets
    PROVE  Available(h, c) = Size - 1 - Used(h, c)
BY FutexRingAssumption DEF Used, Available, Offsets

\* The batch size of the consumer is the distance to its tail.
LEMMA BatchSizeUsed ==
    ASSUME NEW h \in Offsets, NEW t \in Offsets, h # t
    PROVE  BatchSize(h, t) = Used(h, t)
BY FutexRingAssumption DEF Used, BatchSize, Offsets

\* A byte of a region is the byte at the same distance from head.
LEMMA CellFromHead ==
    ASSUME NEW h \in Offsets, NEW x \in Offsets, NEW i \in Nat,
           Used(h, x) + i <= Size - 1
    PROVE  Wrap(x + i) = Wrap(h + (Used(h, x) + i))
BY FutexRingAssumption DEF Used, Wrap, Offsets

LEMMA CellInRing ==
    ASSUME NEW h \in Offsets, NEW i \in 0 .. Size - 1
    PROVE  Wrap(h + i) \in Offsets
BY FutexRingAssumption DEF Wrap, Offsets

\* Bytes at different distances from head are different bytes.
LEMMA CellInjective ==
    ASSUME NEW h \in Offsets, NEW a \in 0 .. Size - 1, NEW b \in 0 .. Size - 1,
           Wrap(h + a) = Wrap(h + b)
    PROVE  a = b
BY FutexRingAssumption DEF Wrap, Offsets

\* Appending n elements to a sequence.
LEMMA AppendRun ==
    ASSUME NEW S, NEW s \in Seq(S), NEW n \in Nat, NEW f \in [1 .. n -> S]
    PROVE  /\ s \o f \in Seq(S)
           /\ Len(s) \in Nat /\ Len(s \o f) = Len(s) + n
           /\ \A i \in 1 .. Len(s) : (s \o f)[i] = s[i]
           /\ \A i \in 1 .. n : (s \o f)[Len(s) + i] = f[i]
<1>1. f \in Seq(S) /\ Len(f) = n /\ Len(s) \in Nat
  BY LenProperties
<1>2. /\ s \o f \in Seq(S) /\ Len(s \o f) = Len(s) + n
      /\ \A i \in 1 .. Len(s) + n : (s \o f)[i] = IF i <= Len(s) THEN s[i] ELSE f[i - Len(s)]
  BY <1>1, ConcatProperties
<1>3. ASSUME NEW i \in 1 .. n PROVE (s \o f)[Len(s) + i] = f[i]
  <2>1. Len(s) + i \in 1 .. Len(s) + n /\ ~(Len(s) + i <= Len(s)) /\ Len(s) + i - Len(s) = i
    BY <1>1
  <2> QED BY <1>2, <2>1
<1> QED BY <1>1, <1>2, <1>3

-------------------------------------------------------------------------------
(* RingInv is inductive.                                                   *)

LEMMA InitRingInv == Init => RingInv
<1> SUFFICES ASSUME Init PROVE RingInv
  OBVIOUS
<1>1. /\ stream = <<>> /\ output = <<>> /\ Len(stream) = 0 /\ Len(output) = 0
      /\ stream \in Seq(Messages) /\ output \in Seq(Messages \union {<<>>})
      /\ Used(0, 0) = 0
  BY EmptySeq DEF Init, Used
<1>2. /\ pc \in [Producers ->
                    {"idle", "locked", "sizing", "reserved", "wake", "unwoken"} \union Releasing]
      /\ size \in [Producers -> Nat] /\ acquires \in [Producers -> 0 .. MaxAcquires]
      /\ seenHead \in [Producers -> Offsets] /\ buffer \in [Producers -> Offsets]
      /\ seenTail \in [Producers -> Offsets]
      /\ memory \in [0 .. Size - 1 -> Messages \union {<<>>}]
  BY FutexRingAssumption DEF Init, Offsets
<1>3. TypeOK
  <2>1. 0 \in Offsets /\ 0 \in Nat
    BY FutexRingAssumption DEF Offsets
  <2> QED BY <1>1, <1>2, <2>1 DEF Init, TypeOK
<1>4. \A p \in Producers : ~InLock(p) /\ ~Holds(p) /\ pc[p] # "sizing"
  BY DEF Init, InLock, Holds, Releasing
<1> QED
  BY <1>1, <1>3, <1>4
  DEF Init, RingInv, LockInv, TailInv, BatchInv, StaleHeadInv, HeldInv, CallInv, CountInv,
      StopDrains, Distance, Freed, Published

\* Distances are numbers below Size.
LEMMA DistanceInts ==
    ASSUME RingInv
    PROVE  /\ Distance(currentTail) \in Nat /\ Distance(candidateTail) \in Nat
           /\ Distance(currentTail) <= Distance(candidateTail)
           /\ Distance(candidateTail) <= Size - 1
           /\ Distance(tail) \in Nat
BY UsedRange DEF RingInv, TypeOK, TailInv, Distance

\* The stream ends with the bytes that the distances measure.
LEMMA CountInts ==
    ASSUME RingInv
    PROVE  /\ Len(stream) \in Nat /\ Len(output) \in Nat /\ stopMark \in Nat
           /\ Freed \in Nat /\ Freed + Distance(candidateTail) = Len(stream)
           /\ Published = Freed + Distance(currentTail)
<1>1. Len(stream) \in Nat /\ Len(output) \in Nat /\ stopMark \in Nat
  BY LenProperties DEF RingInv, TypeOK
<1>2. Freed = Len(stream) - Distance(candidateTail) /\ Published = Freed + Distance(currentTail)
  BY DEF Freed, Published, Distance
<1> QED BY <1>1, <1>2, DistanceInts DEF RingInv, CountInv

LEMMA RegionInts ==
    ASSUME RingInv, NEW p \in Producers
    PROVE  Distance(buffer[p]) \in Nat /\ size[p] \in Nat
BY UsedRange DEF RingInv, TypeOK, Distance

\* A step that moves no offset of the ring, reads no head and hands nothing over.
LEMMA OffsetsKept ==
    ASSUME RingInv,
           UNCHANGED <<head, candidateTail, currentTail, buffer, stream, output, tail>>,
           TypeOK', LockInv', CallInv', CountInv',
           consumer' = "consume" => consumer = "consume",
           \A q \in Producers : Holds(q)' => Holds(q) /\ size'[q] = size[q],
           \A q \in Producers : pc'[q] = "sizing" =>
                                    pc[q] = "sizing" /\ seenHead'[q] = seenHead[q]
    PROVE  RingInv'
<1>1. TailInv' /\ BatchInv'
  BY DEF RingInv, TailInv, BatchInv, Distance
<1>2. StaleHeadInv'
  BY DEF RingInv, StaleHeadInv, Distance
<1>3. HeldInv'
  BY DEF RingInv, HeldInv, Distance
<1> QED BY <1>1, <1>2, <1>3 DEF RingInv

\* What was counted stays as it was while the consumer neither ends nor starts to stop.
LEMMA CountsKept ==
    ASSUME RingInv,
           UNCHANGED <<head, candidateTail, currentTail, stream, output, stopMark, shutdown>>,
           consumer = "broken" => consumer' = "broken",
           consumer' \in {"drain", "returned"} => consumer' = consumer
    PROVE  CountInv'
<1>1. Freed' = Freed /\ Published' = Published
  BY DEF Freed, Published
<1> QED BY <1>1 DEF RingInv, CountInv, StopDrains

\* Entering the lock, filling a region, waiting for a turn and waking the others.
LEMMA ThreadStep ==
    ASSUME RingInv, NEW p \in Producers,
           \/ Lock(p) \/ Write(p) \/ TestTurn(p) \/ Sleep(p) \/ SleepFails(p) \/ Interrupt(p)
           \/ WakeAll(p) \/ WakeFails(p)
    PROVE  RingInv'
<1>1. /\ UNCHANGED <<head, candidateTail, currentTail, buffer, stream, output, tail, stopMark,
                     shutdown, seenHead>>
      /\ consumer' = IF consumer = "asleep" /\ consumer' # "asleep" THEN "test" ELSE consumer
  BY DEF Lock, Write, TestTurn, Sleep, SleepFails, Interrupt, WakeAll, WakeFails, ring, life,
         reader, history
<1>2. \A q \in Producers : q # p =>
          /\ acquires'[q] = acquires[q] /\ size'[q] = size[q]
          /\ pc'[q] = IF pc[q] = "asleep" /\ pc'[q] # "asleep" THEN "written" ELSE pc[q]
  BY DEF Lock, Write, TestTurn, Sleep, SleepFails, Interrupt, WakeAll, WakeFails, history,
         RingInv, TypeOK
<1>3. CASE Lock(p)
  <2>1. /\ pc[p] = "idle" /\ pc'[p] = "locked" /\ ~tailLock /\ tailLock' = TRUE
        /\ size'[p] \in Nat /\ size'[p] > 0 /\ acquires'[p] > 0
        /\ UNCHANGED <<done, owner, seenTail, memory>>
    BY <1>3, FutexRingAssumption DEF Lock, life, reader, RingInv, TypeOK
  <2>2. TypeOK'
    <3>1. /\ pc' \in [Producers ->
                 {"idle", "locked", "sizing", "reserved", "wake", "unwoken"} \union Releasing]
          /\ size' \in [Producers -> Nat] /\ acquires' \in [Producers -> 0 .. MaxAcquires]
      BY <1>3, FutexRingAssumption DEF Lock, RingInv, TypeOK
    <3> QED BY <1>1, <1>3, <2>1, <3>1 DEF Lock, reader, RingInv, TypeOK
  <2>3. LockInv'
    BY <1>2, <2>1 DEF RingInv, LockInv, InLock
  <2>4. CallInv' /\ \A q \in Producers : Holds(q)' => Holds(q) /\ size'[q] = size[q]
    BY <1>2, <2>1 DEF RingInv, CallInv, InLock, Holds, Releasing
  <2>5. CountInv'
    BY <1>1, CountsKept
  <2> QED BY <1>1, <1>2, <2>1, <2>2, <2>3, <2>4, <2>5, OffsetsKept
<1>4. CASE \/ Write(p) \/ TestTurn(p) \/ Sleep(p) \/ SleepFails(p) \/ Interrupt(p)
           \/ WakeAll(p) \/ WakeFails(p)
  <2>1. UNCHANGED <<tailLock, done, owner, size, acquires>>
    BY <1>4 DEF Write, TestTurn, Sleep, SleepFails, Interrupt, WakeAll, WakeFails, ring, life,
                history
  <2>2. /\ ~InLock(p) /\ ~InLock(p)'
        /\ Holds(p)' => Holds(p)
    BY <1>4 DEF Write, TestTurn, Sleep, SleepFails, Interrupt, WakeAll, WakeFails, RingInv,
                TypeOK, Holds,
                InLock, Releasing
  <2>3. \A q \in Producers : /\ Holds(q)' => Holds(q)
                             /\ InLock(q)' => InLock(q)
                             /\ pc'[q] = "sizing" => pc[q] = "sizing"
    BY <1>2, <2>2 DEF Holds, InLock, Releasing
  <2>4. TypeOK'
    <3>1. pc' \in [Producers ->
                 {"idle", "locked", "sizing", "reserved", "wake", "unwoken"} \union Releasing]
      BY <1>4 DEF Write, TestTurn, Sleep, SleepFails, Interrupt, WakeAll, WakeFails, RingInv,
                  TypeOK, Releasing
    <3>2. seenTail' \in [Producers -> Offsets]
      <4>1. 0 \in Offsets /\ currentTail \in Offsets /\ seenTail \in [Producers -> Offsets]
        BY FutexRingAssumption DEF RingInv, TypeOK, Offsets
      <4>2. CASE TestTurn(p)
        BY <4>1, <4>2 DEF TestTurn
      <4>3. CASE ~TestTurn(p)
        BY <1>4, <4>1, <4>3
        DEF Write, Sleep, SleepFails, Interrupt, WakeAll, WakeFails
      <4> QED BY <4>2, <4>3
    <3>3. memory' \in [0 .. Size - 1 -> Messages \union {<<>>}]
      <4>1. CASE Write(p)
        <5>1. Message(p) \in Messages
          BY <4>1, FutexRingAssumption
          DEF Write, RingInv, CallInv, Holds, Message, Messages, TypeOK
        <5> QED BY <4>1, <5>1 DEF Write, RingInv, TypeOK
      <4> QED
        BY <1>4, <4>1 DEF TestTurn, Sleep, SleepFails, Interrupt, WakeAll, WakeFails, RingInv,
                          TypeOK
    <3> QED BY <1>1, <2>1, <3>1, <3>2, <3>3 DEF RingInv, TypeOK
  <2>5. LockInv' /\ CallInv'
    BY <2>1, <2>3 DEF RingInv, LockInv, CallInv
  <2>6. CountInv'
    BY <1>1, CountsKept
  <2> QED BY <1>1, <2>1, <2>3, <2>4, <2>5, <2>6, OffsetsKept
<1> QED BY <1>3, <1>4

LEMMA ReadHeadStep == ASSUME RingInv, NEW p \in Producers, ReadHead(p) PROVE RingInv'
<1>1. /\ UNCHANGED <<head, candidateTail, currentTail, tailLock, shutdown, done, owner, size,
                     buffer, seenTail, consumer, tail, memory, acquires, stream, output,
                     stopMark>>
      /\ pc[p] = "locked" /\ pc' = [pc EXCEPT ![p] = "sizing"]
      /\ seenHead' = [seenHead EXCEPT ![p] = head]
  BY DEF ReadHead, ring, life, reader, history
<1>2. TypeOK'
  BY <1>1 DEF RingInv, TypeOK
<1>3. \A q \in Producers : (Holds(q)' <=> Holds(q)) /\ (InLock(q)' <=> InLock(q))
  BY <1>1 DEF Holds, InLock, Releasing, RingInv, TypeOK
<1>4. LockInv' /\ CallInv' /\ TailInv' /\ BatchInv' /\ HeldInv'
  BY <1>1, <1>3 DEF RingInv, LockInv, CallInv, TailInv, BatchInv, HeldInv, Distance
<1>5. CountInv'
  BY <1>1, CountsKept
<1>6. StaleHeadInv'
  <2> SUFFICES ASSUME NEW q \in Producers, pc'[q] = "sizing"
               PROVE  Used(seenHead'[q], head) + Distance(candidateTail)
                         = Used(seenHead'[q], candidateTail)
    BY <1>1 DEF StaleHeadInv, Distance
  <2>1. CASE q = p
    <3>1. seenHead'[q] = head /\ Used(head, head) = 0 /\ Distance(candidateTail) \in Nat
      BY <1>1, <2>1, UsedRange DEF RingInv, TypeOK, Distance
    <3> QED BY <3>1 DEF Distance
  <2>2. CASE q # p
    BY <1>1, <2>2 DEF RingInv, StaleHeadInv, TypeOK
  <2> QED BY <2>1, <2>2
<1> QED BY <1>2, <1>4, <1>5, <1>6 DEF RingInv

\* The free space was computed with a head that may be stale; it was not too large.
LEMMA ReserveDistance ==
    ASSUME RingInv, NEW p \in Producers, Reserve(p),
           Available(seenHead[p], candidateTail) >= size[p]
    PROVE  /\ size[p] \in Nat /\ size[p] > 0 /\ Message(p) \in Messages
           /\ Distance(candidateTail) + size[p] <= Size - 1
           /\ candidateTail' \in Offsets
           /\ Used(head, candidateTail') = Distance(candidateTail) + size[p]
           /\ stream' \in Seq(Messages) /\ Len(stream') = Len(stream) + size[p]
           /\ \A i \in 1 .. Len(stream) : stream'[i] = stream[i]
           /\ \A i \in 1 .. size[p] : stream'[Len(stream) + i] = Message(p)
<1> DEFINE n == size[p]
           c == candidateTail
           run == [i \in 1 .. n |-> Message(p)]
<1>1. candidateTail' = Wrap(c + n) /\ stream' = stream \o run /\ pc[p] = "sizing" /\ InLock(p)
  BY DEF Reserve, InLock
<1>2. /\ n \in Nat /\ n > 0 /\ Message(p) \in Messages
      /\ head \in Offsets /\ c \in Offsets /\ seenHead[p] \in Offsets
  BY <1>1, FutexRingAssumption DEF RingInv, TypeOK, CallInv, Message, Messages
<1>3. Distance(c) + n <= Size - 1
  <2>1. n <= Size - 1 - Used(seenHead[p], c)
    BY <1>2, AvailableUsed
  <2>2. Used(seenHead[p], head) + Distance(c) = Used(seenHead[p], c)
    BY <1>1 DEF RingInv, StaleHeadInv
  <2>3. /\ Used(seenHead[p], head) \in Nat /\ Used(seenHead[p], c) \in Nat
        /\ Distance(c) \in Nat
    BY <1>2, UsedRange DEF Distance
  <2> QED BY <2>1, <2>2, <2>3, <1>2, FutexRingAssumption
<1>4. candidateTail' \in Offsets /\ Used(head, candidateTail') = Distance(c) + n
  BY <1>1, <1>2, <1>3, UsedAdvance DEF Distance
<1>5. run \in [1 .. n -> Messages] /\ stream \in Seq(Messages)
  BY <1>2 DEF RingInv, TypeOK
<1>6. /\ stream \o run \in Seq(Messages) /\ Len(stream \o run) = Len(stream) + n
      /\ \A i \in 1 .. Len(stream) : (stream \o run)[i] = stream[i]
      /\ \A i \in 1 .. n : (stream \o run)[Len(stream) + i] = run[i]
  <2> HIDE DEF run, n
  <2> QED BY <1>2, <1>5, AppendRun
<1> QED BY <1>1, <1>2, <1>3, <1>4, <1>6

LEMMA ReserveStep == ASSUME RingInv, NEW p \in Producers, Reserve(p) PROVE RingInv'
<1>1. /\ pc[p] = "sizing" /\ tailLock' = FALSE
      /\ pc' = [pc EXCEPT ![p] = "reserved"] \/ pc' = [pc EXCEPT ![p] = "idle"]
      /\ seenHead' = [seenHead EXCEPT ![p] = 0]
      /\ UNCHANGED <<head, currentTail, shutdown, done, owner, size, seenTail, consumer, tail,
                     memory, acquires, output, stopMark>>
  BY DEF Reserve, life, reader
<1>2. \A q \in Producers : q # p => pc'[q] = pc[q] /\ seenHead'[q] = seenHead[q]
  BY <1>1 DEF RingInv, TypeOK
<1>3. LockInv' /\ CallInv'
  <2>1. InLock(p) /\ pc'[p] \in {"reserved", "idle"}
    BY <1>1 DEF InLock, RingInv, TypeOK
  <2>2. \A q \in Producers : InLock(q)' => InLock(q) /\ q # p
    BY <1>2, <2>1 DEF InLock
  <2>3. \A q \in Producers : Holds(q)' => Holds(q) \/ InLock(q)
    BY <1>2, <2>1 DEF Holds
  <2> QED BY <1>1, <2>1, <2>2, <2>3 DEF RingInv, LockInv, CallInv
<1>4. seenHead' \in [Producers -> Offsets]
  BY <1>1, FutexRingAssumption DEF RingInv, TypeOK, Offsets
<1>5. CASE ~(Available(seenHead[p], candidateTail) >= size[p])
  <2>1. UNCHANGED <<candidateTail, buffer, stream>> /\ pc' = [pc EXCEPT ![p] = "idle"]
    BY <1>5 DEF Reserve
  <2>2. TypeOK'
    BY <1>1, <1>4, <2>1 DEF RingInv, TypeOK
  <2>3. \A q \in Producers : /\ Holds(q)' => Holds(q)
                             /\ pc'[q] = "sizing" => pc[q] = "sizing"
    BY <2>1 DEF Holds, Releasing, RingInv, TypeOK
  <2>4. CountInv'
    BY <1>1, <2>1, CountsKept
  <2>5. \A q \in Producers : pc'[q] = "sizing" => q # p
    BY <2>1 DEF RingInv, TypeOK
  <2> QED BY <1>1, <1>2, <1>3, <2>1, <2>2, <2>3, <2>4, <2>5, OffsetsKept
<1>6. CASE Available(seenHead[p], candidateTail) >= size[p]
  <2> DEFINE n == size[p]
             d == Distance(candidateTail)
  <2>1. buffer' = [buffer EXCEPT ![p] = candidateTail] /\ pc' = [pc EXCEPT ![p] = "reserved"]
    BY <1>6 DEF Reserve
  <2>2. /\ n \in Nat /\ n > 0 /\ d \in Nat /\ d + n <= Size - 1
        /\ candidateTail' \in Offsets /\ Distance(candidateTail)' = d + n
        /\ stream' \in Seq(Messages) /\ Len(stream') = Len(stream) + n
    BY <1>1, <1>6, ReserveDistance, DistanceInts DEF Distance
  <2>3. TypeOK'
    BY <1>1, <1>4, <2>1, <2>2 DEF RingInv, TypeOK
  <2>4. Distance(currentTail)' = Distance(currentTail) /\ Distance(tail)' = Distance(tail)
    BY <1>1 DEF Distance
  <2>5. TailInv' /\ BatchInv'
    <3>1. d <= Distance(candidateTail)' /\ Distance(currentTail)' <= d
      BY <2>2, <2>4, DistanceInts
    <3>2. TailInv'
      BY <2>2, <2>4, <3>1, DistanceInts DEF TailInv
    <3> QED BY <1>1, <2>4, <3>2 DEF RingInv, BatchInv
  <2>6. CountInv'
    <3>1. Freed' = Freed
      <4>1. Freed = Len(stream) - d /\ Freed' = Len(stream') - Distance(candidateTail)'
        BY DEF Freed, Distance
      <4>2. Len(stream) \in Nat
        BY CountInts
      <4> QED BY <2>2, <4>1, <4>2
    <3>2. Published' = Published
      BY <2>4, <3>1 DEF Published, Distance
    <3> QED BY <1>1, <3>1, <3>2 DEF RingInv, CountInv, StopDrains
  <2>7. StaleHeadInv'
    <3>1. \A q \in Producers : pc'[q] # "sizing"
      BY <1>1, <2>1 DEF RingInv, LockInv, InLock, TypeOK
    <3> QED BY <3>1 DEF StaleHeadInv
  <2>8. HeldInv'
    <3>1. Distance(buffer[p])' = d
      BY <1>1, <2>1 DEF Distance, RingInv, TypeOK
    <3>2. ASSUME NEW q \in Producers, q # p, Holds(q)'
          PROVE  /\ Holds(q) /\ Distance(buffer[q])' = Distance(buffer[q])
                 /\ Distance(currentTail) <= Distance(buffer[q])
                 /\ Distance(buffer[q]) + size[q] <= d
      <4>1. Holds(q)
        BY <1>2, <3>2 DEF Holds
      <4>2. Distance(buffer[q])' = Distance(buffer[q])
        BY <1>1, <2>1, <3>2 DEF Distance, RingInv, TypeOK
      <4> QED BY <4>1, <4>2 DEF RingInv, HeldInv
    <3>3. ASSUME NEW q \in Producers, Holds(q)'
          PROVE  /\ Distance(currentTail)' <= Distance(buffer[q])'
                 /\ Distance(buffer[q])' + size'[q] <= Distance(candidateTail)'
      <4>1. CASE q = p
        BY <1>1, <2>2, <2>4, <3>1, <4>1 DEF RingInv, TailInv
      <4>2. CASE q # p
        <5>1. /\ size'[q] = size[q] /\ Distance(candidateTail)' = d + n /\ d \in Nat /\ n \in Nat
              /\ Distance(buffer[q]) \in Nat /\ size[q] \in Nat
          BY <1>1, <2>2, RegionInts
        <5> HIDE DEF d, n
        <5> QED BY <5>1, <2>4, <3>2, <3>3, <4>2
      <4> QED BY <4>1, <4>2
    <3>4. ASSUME NEW q \in Producers, Holds(q)', NEW r \in Producers \ {q}, Holds(r)'
          PROVE  \/ Distance(buffer[q])' + size'[q] <= Distance(buffer[r])'
                 \/ Distance(buffer[r])' + size'[r] <= Distance(buffer[q])'
      <4>1. CASE q = p
        BY <1>1, <3>1, <3>2, <3>4, <4>1
      <4>2. CASE r = p
        BY <1>1, <3>1, <3>2, <3>4, <4>2
      <4>3. CASE q # p /\ r # p
        <5>1. /\ Holds(q) /\ Distance(buffer[q])' = Distance(buffer[q])
              /\ Holds(r) /\ Distance(buffer[r])' = Distance(buffer[r])
          BY <3>2, <3>4, <4>3
        <5> QED BY <1>1, <5>1 DEF RingInv, HeldInv
      <4> QED BY <4>1, <4>2, <4>3
    <3> QED BY <3>3, <3>4 DEF HeldInv
  <2> QED BY <1>3, <2>3, <2>5, <2>6, <2>7, <2>8 DEF RingInv
<1> QED BY <1>5, <1>6

\* The CAS succeeds for the region that starts at currentTail and moves it to its end.
LEMMA SwapDistance ==
    ASSUME RingInv, NEW p \in Producers, Swap(p)
    PROVE  /\ Holds(p) /\ size[p] \in Nat /\ size[p] > 0 /\ currentTail = buffer[p]
           /\ Distance(currentTail) + size[p] <= Distance(candidateTail)
           /\ currentTail' \in Offsets
           /\ Used(head, currentTail') = Distance(currentTail) + size[p]
<1>1. /\ Holds(p) /\ currentTail = buffer[p] /\ currentTail' = Wrap(currentTail + size[p])
  BY DEF Swap, Holds, Releasing
<1>2. /\ size[p] \in Nat /\ size[p] > 0 /\ head \in Offsets /\ currentTail \in Offsets
      /\ Distance(currentTail) + size[p] <= Distance(candidateTail)
  BY <1>1 DEF RingInv, TypeOK, CallInv, HeldInv
<1>3. Distance(currentTail) + size[p] <= Size - 1
  BY <1>2, DistanceInts, FutexRingAssumption
<1> QED BY <1>1, <1>2, <1>3, UsedAdvance DEF Distance

LEMMA SwapStep == ASSUME RingInv, NEW p \in Producers, Swap(p) PROVE RingInv'
<1> DEFINE n == size[p]
           e == Distance(currentTail)
<1>1. /\ pc[p] = "swap" /\ pc' = [pc EXCEPT ![p] = "wake"]
      /\ UNCHANGED <<head, candidateTail, tailLock, shutdown, done, owner, size, seenHead, buffer,
                     seenTail, consumer, tail, memory, acquires, stream, output, stopMark>>
  BY DEF Swap, life, reader, history
<1>2. /\ Holds(p) /\ n \in Nat /\ n > 0 /\ currentTail = buffer[p]
      /\ e + n <= Distance(candidateTail)
      /\ currentTail' \in Offsets /\ Distance(currentTail)' = e + n
  BY <1>1, SwapDistance DEF Distance
<1>3. TypeOK'
  BY <1>1, <1>2 DEF RingInv, TypeOK
<1>4. \A q \in Producers : /\ Holds(q)' <=> q # p /\ Holds(q)
                           /\ InLock(q)' <=> InLock(q)
                           /\ pc'[q] = "sizing" <=> pc[q] = "sizing"
  BY <1>1 DEF Holds, Releasing, InLock, RingInv, TypeOK
<1>5. LockInv' /\ CallInv' /\ StaleHeadInv'
  BY <1>1, <1>4 DEF RingInv, LockInv, CallInv, StaleHeadInv, Distance
<1>6. /\ Distance(candidateTail)' = Distance(candidateTail) /\ Distance(tail)' = Distance(tail)
      /\ \A q \in Producers : Distance(buffer[q])' = Distance(buffer[q])
  BY <1>1 DEF Distance
<1>7. TailInv' /\ BatchInv'
  BY <1>1, <1>2, <1>6, DistanceInts DEF RingInv, TailInv, BatchInv
<1>8. CountInv'
  <2>1. Freed' = Freed /\ Published' = Published + n
    BY <1>1, <1>2, DistanceInts, CountInts DEF Freed, Published, Distance
  <2>2. /\ Len(output) <= Published /\ stopMark <= Published /\ 0 <= Freed /\ Freed <= Len(output)
        /\ Published \in Int /\ n \in Nat /\ stopMark \in Nat /\ Len(output) \in Nat
    BY <1>2, DistanceInts, CountInts DEF RingInv, CountInv
  <2>3. Len(output) <= Published' /\ stopMark <= Published'
    <3> HIDE DEF n
    <3> QED BY <2>1, <2>2
  <2> QED BY <1>1, <2>1, <2>2, <2>3 DEF RingInv, CountInv, StopDrains
<1>9. HeldInv'
  <2>1. ASSUME NEW q \in Producers, q # p, Holds(q) PROVE e + n <= Distance(buffer[q])
    <3>1. e + n <= Distance(buffer[q]) \/ Distance(buffer[q]) + size[q] <= e
      BY <1>2, <2>1 DEF RingInv, HeldInv
    <3>2. e <= Distance(buffer[q]) /\ size[q] > 0 /\ size[q] \in Nat
      BY <2>1 DEF RingInv, HeldInv, CallInv, TypeOK
    <3>3. e \in Nat /\ n \in Nat /\ Distance(buffer[q]) \in Nat
      BY DistanceInts, RegionInts
    <3> QED BY <3>1, <3>2, <3>3
  <2> QED BY <1>1, <1>2, <1>4, <1>6, <2>1 DEF RingInv, HeldInv
<1> QED BY <1>3, <1>5, <1>7, <1>8, <1>9 DEF RingInv

\* Steps of the consumer that move no offset of the ring.
LEMMA LoopStep ==
    ASSUME RingInv,
           TestShutdown \/ TestEmpty \/ LoadTail \/ Doze \/ DozeFails \/ DozeTimeout
    PROVE  RingInv'
<1>1. /\ UNCHANGED <<head, candidateTail, currentTail, tailLock, shutdown, done, owner, pc, size,
                     seenHead, buffer, seenTail, memory, acquires, stream, output, stopMark>>
      /\ consumer' = "consume" => head # currentTail /\ tail' = currentTail
      /\ consumer' = "returned" => currentTail = head
      /\ consumer' \in {"drain", "returned"} => shutdown
      /\ consumer # "broken"
  BY DEF TestShutdown, TestEmpty, LoadTail, Doze, DozeFails, DozeTimeout, ring, life, threads,
         history, RingInv, CountInv
<1>2. TypeOK'
  <2>1. /\ consumer' \in {"test", "drain", "load", "consume", "doze", "asleep"} \union Ended
        /\ tail' \in Offsets
    BY DEF TestShutdown, TestEmpty, LoadTail, Doze, DozeFails, DozeTimeout, Ended, RingInv, TypeOK
  <2> QED BY <1>1, <2>1 DEF RingInv, TypeOK
<1>3. LockInv' /\ CallInv' /\ TailInv' /\ StaleHeadInv' /\ HeldInv'
  BY <1>1 DEF RingInv, LockInv, CallInv, TailInv, StaleHeadInv, HeldInv, InLock, Holds, Distance
<1>4. BatchInv'
  <2>1. head # currentTail => Used(head, currentTail) > 0
    <3>1. head \in Offsets /\ currentTail \in Offsets
      BY DEF RingInv, TypeOK
    <3> QED BY <3>1, UsedRange
  <2> QED BY <1>1, <2>1, DistanceInts, CountInts DEF BatchInv, Distance
<1>5. CountInv'
  <2>1. Freed' = Freed /\ Published' = Published /\ Len(output) = Freed
    BY <1>1 DEF Freed, Published, RingInv, CountInv
  <2>2. currentTail = head => Len(output) >= stopMark
    <3>1. Used(head, head) = 0
      BY UsedRange DEF RingInv, TypeOK
    <3> QED BY <2>1, <3>1, DistanceInts, CountInts DEF RingInv, CountInv, Distance
  <2> QED BY <1>1, <2>1, <2>2 DEF RingInv, CountInv, StopDrains
<1> QED BY <1>2, <1>3, <1>4, <1>5 DEF RingInv

\* consumeFunc is shown as many bytes as lie between head and tail.
LEMMA BatchOutput ==
    ASSUME RingInv, NEW accepted \in BOOLEAN, Consume(accepted)
    PROVE  /\ 0 < Distance(tail) /\ Distance(tail) <= Distance(currentTail)
           /\ Distance(tail) \in Nat
           /\ output' \in Seq(Messages \union {<<>>})
           /\ Len(output') = Len(output) + Distance(tail)
           /\ \A i \in 1 .. Len(output) : output'[i] = output[i]
           /\ \A i \in 1 .. Distance(tail) :
                  output'[Len(output) + i] = memory[Wrap(head + (i - 1))]
<1> DEFINE n == Distance(tail)
           T == Messages \union {<<>>}
           batch == [i \in 1 .. BatchSize(head, tail) |-> memory[Wrap(head + i - 1)]]
<1>1. /\ output' = output \o batch /\ consumer = "consume"
      /\ 0 < n /\ n <= Distance(currentTail) /\ n \in Nat /\ n <= Size - 1
      /\ head \in Offsets /\ tail \in Offsets
      /\ output \in Seq(T) /\ memory \in [0 .. Size - 1 -> T]
  BY UsedRange DEF Consume, RingInv, TypeOK, BatchInv, Distance
<1>2. BatchSize(head, tail) = n
  <2>1. head # tail
    BY <1>1, UsedRange DEF Distance
  <2> QED BY <1>1, <2>1, BatchSizeUsed DEF Distance
<1>3. ASSUME NEW i \in 1 .. n
      PROVE  head + i - 1 = head + (i - 1) /\ Wrap(head + (i - 1)) \in 0 .. Size - 1
  <2>1. i - 1 \in 0 .. Size - 1 /\ head \in Int
    BY <1>1, FutexRingAssumption DEF Offsets
  <2> QED BY <1>1, <2>1, CellInRing DEF Offsets
<1>4. /\ batch \in [1 .. n -> T]
      /\ \A i \in 1 .. n : batch[i] = memory[Wrap(head + (i - 1))]
  BY <1>1, <1>2, <1>3
<1>5. /\ output \o batch \in Seq(T) /\ Len(output \o batch) = Len(output) + n
      /\ \A i \in 1 .. Len(output) : (output \o batch)[i] = output[i]
      /\ \A i \in 1 .. n : (output \o batch)[Len(output) + i] = batch[i]
  <2> HIDE DEF batch, n, T
  <2> QED BY <1>1, <1>4, AppendRun
<1> QED BY <1>1, <1>4, <1>5

\* A batch that is refused leaves head where it was; the consumer ends.
LEMMA RefuseStep == ASSUME RingInv, Consume(FALSE) PROVE RingInv'
<1>1. /\ UNCHANGED <<head, candidateTail, currentTail, tailLock, shutdown, done, owner, pc, size,
                     seenHead, buffer, seenTail, tail, memory, acquires, stream, stopMark>>
      /\ consumer = "consume" /\ consumer' = "broken"
  BY DEF Consume, threads, life
<1>2. /\ output' \in Seq(Messages \union {<<>>}) /\ Len(output') = Len(output) + Distance(tail)
      /\ Distance(tail) <= Distance(currentTail)
  BY BatchOutput
<1>3. TypeOK'
  BY <1>1, <1>2 DEF RingInv, TypeOK, Ended
<1>4. LockInv' /\ CallInv' /\ TailInv' /\ BatchInv' /\ StaleHeadInv' /\ HeldInv'
  BY <1>1 DEF RingInv, LockInv, CallInv, TailInv, BatchInv, StaleHeadInv, HeldInv, InLock, Holds,
              Distance
<1>5. CountInv'
  <2>1. Freed' = Freed /\ Published' = Published /\ Len(output) = Freed
    BY <1>1 DEF Freed, Published, RingInv, CountInv
  <2> QED BY <1>1, <1>2, <2>1, DistanceInts, CountInts DEF RingInv, CountInv, StopDrains
<1> QED BY <1>3, <1>4, <1>5 DEF RingInv

\* When a batch is accepted head moves to its end: every distance shrinks by its size.
LEMMA AcceptDistance ==
    ASSUME RingInv, Consume(TRUE)
    PROVE  /\ Distance(currentTail)' = Distance(currentTail) - Distance(tail)
           /\ Distance(candidateTail)' = Distance(candidateTail) - Distance(tail)
           /\ \A q \in Producers : Holds(q) =>
                  Distance(buffer[q])' = Distance(buffer[q]) - Distance(tail)
           /\ Freed' = Freed + Distance(tail) /\ Published' = Published
<1>1. UNCHANGED <<candidateTail, currentTail, buffer, stream>> /\ head' = tail
  BY DEF Consume, threads
<1>2. /\ head \in Offsets /\ tail \in Offsets /\ currentTail \in Offsets
      /\ candidateTail \in Offsets /\ \A q \in Producers : buffer[q] \in Offsets
      /\ Distance(tail) <= Distance(currentTail) /\ Distance(tail) \in Nat
  BY BatchOutput DEF RingInv, TypeOK
<1>3. Distance(currentTail)' = Distance(currentTail) - Distance(tail)
  BY <1>1, <1>2, UsedShift DEF Distance
<1>4. Distance(candidateTail)' = Distance(candidateTail) - Distance(tail)
  <2>1. Distance(tail) <= Distance(candidateTail)
    BY <1>2, DistanceInts
  <2> QED BY <1>1, <1>2, <2>1, UsedShift DEF Distance
<1>5. ASSUME NEW q \in Producers, Holds(q)
      PROVE  Distance(buffer[q])' = Distance(buffer[q]) - Distance(tail)
  <2>1. Distance(tail) <= Distance(buffer[q])
    <3>1. Distance(currentTail) <= Distance(buffer[q])
      BY <1>5 DEF RingInv, HeldInv
    <3> QED BY <1>2, <3>1, DistanceInts, RegionInts
  <2> QED BY <1>1, <1>2, <2>1, UsedShift DEF Distance
<1>6. Freed' = Freed + Distance(tail) /\ Published' = Published
  BY <1>1, <1>2, <1>3, <1>4, DistanceInts, CountInts DEF Freed, Published, Distance
<1> QED BY <1>3, <1>4, <1>5, <1>6

LEMMA AcceptStep == ASSUME RingInv, Consume(TRUE) PROVE RingInv'
<1> DEFINE d == Distance(tail)
<1>1. /\ UNCHANGED <<candidateTail, currentTail, tailLock, shutdown, done, owner, pc, size,
                     seenHead, buffer, seenTail, tail, memory, acquires, stream, stopMark>>
      /\ consumer = "consume" /\ consumer' = "test" /\ head' = tail
  BY DEF Consume, threads, life
<1>2. /\ output' \in Seq(Messages \union {<<>>}) /\ Len(output') = Len(output) + d
      /\ d <= Distance(currentTail) /\ d \in Nat
  BY BatchOutput
<1>3. /\ Distance(currentTail)' = Distance(currentTail) - d
      /\ Distance(candidateTail)' = Distance(candidateTail) - d
      /\ \A q \in Producers : Holds(q) => Distance(buffer[q])' = Distance(buffer[q]) - d
      /\ Freed' = Freed + d /\ Published' = Published
  BY AcceptDistance
<1>4. TypeOK'
  BY <1>1, <1>2 DEF RingInv, TypeOK
<1>5. LockInv' /\ CallInv' /\ BatchInv'
  BY <1>1 DEF RingInv, LockInv, CallInv, BatchInv, InLock, Holds
<1>6. TailInv'
  BY <1>2, <1>3, DistanceInts DEF TailInv
<1>7. StaleHeadInv'
  <2> SUFFICES ASSUME NEW p \in Producers, pc[p] = "sizing"
               PROVE  Used(seenHead[p], tail) + Distance(candidateTail)'
                         = Used(seenHead[p], candidateTail)
    BY <1>1 DEF StaleHeadInv, Distance
  <2>1. /\ Used(seenHead[p], head) + Distance(candidateTail) = Used(seenHead[p], candidateTail)
        /\ seenHead[p] \in Offsets /\ candidateTail \in Offsets /\ head \in Offsets
        /\ tail \in Offsets
    BY DEF RingInv, StaleHeadInv, TypeOK
  <2>2. /\ Used(seenHead[p], head) \in Nat /\ Used(seenHead[p], candidateTail) \in Nat
        /\ Used(seenHead[p], candidateTail) <= Size - 1
    BY <2>1, UsedRange
  <2>3. /\ Used(seenHead[p], head) + d <= Size - 1
        /\ d \in Nat /\ Distance(candidateTail) \in Nat
    <3>1. d \in Nat /\ Distance(candidateTail) \in Nat /\ d <= Distance(candidateTail)
      BY <1>2, DistanceInts
    <3> HIDE DEF d
    <3> QED BY <2>1, <2>2, <3>1, FutexRingAssumption
  <2>4. Used(seenHead[p], tail) = Used(seenHead[p], head) + d
    BY <2>1, <2>3, UsedChain DEF Distance
  <2> HIDE DEF d
  <2> QED BY <1>3, <2>1, <2>2, <2>3, <2>4
<1>8. HeldInv'
  <2>1. \A q \in Producers : Holds(q)' <=> Holds(q)
    BY <1>1 DEF Holds
  <2>2. d \in Nat /\ Distance(currentTail) \in Nat /\ Distance(candidateTail) \in Nat
    BY <1>2, DistanceInts
  <2>3. ASSUME NEW q \in Producers, Holds(q)
        PROVE  /\ Distance(currentTail)' <= Distance(buffer[q])'
               /\ Distance(buffer[q])' + size[q] <= Distance(candidateTail)'
    <3>1. /\ Distance(currentTail) <= Distance(buffer[q])
          /\ Distance(buffer[q]) + size[q] <= Distance(candidateTail)
          /\ Distance(buffer[q]) \in Nat /\ size[q] \in Nat
      BY <2>3, RegionInts DEF RingInv, HeldInv
    <3>2. Distance(buffer[q])' = Distance(buffer[q]) - d
      BY <1>3, <2>3
    <3> HIDE DEF d
    <3> QED BY <1>3, <2>2, <3>1, <3>2
  <2>4. ASSUME NEW q \in Producers, Holds(q), NEW r \in Producers \ {q}, Holds(r)
        PROVE  \/ Distance(buffer[q])' + size[q] <= Distance(buffer[r])'
               \/ Distance(buffer[r])' + size[r] <= Distance(buffer[q])'
    <3>1. \/ Distance(buffer[q]) + size[q] <= Distance(buffer[r])
          \/ Distance(buffer[r]) + size[r] <= Distance(buffer[q])
      BY <2>4 DEF RingInv, HeldInv
    <3>2. /\ Distance(buffer[q])' = Distance(buffer[q]) - d
          /\ Distance(buffer[r])' = Distance(buffer[r]) - d
      BY <1>3, <2>4
    <3>3. /\ Distance(buffer[q]) \in Nat /\ size[q] \in Nat
          /\ Distance(buffer[r]) \in Nat /\ size[r] \in Nat
      BY RegionInts
    <3> HIDE DEF d
    <3> QED BY <2>2, <3>1, <3>2, <3>3
  <2> QED BY <1>1, <2>1, <2>3, <2>4 DEF HeldInv
<1>9. CountInv'
  <2>1. /\ Len(output) = Freed /\ 0 <= Freed /\ stopMark <= Published
        /\ Published = Freed + Distance(currentTail)
        /\ Freed \in Int /\ Len(output) \in Nat /\ Distance(currentTail) \in Nat
    BY <1>1, DistanceInts, CountInts DEF RingInv, CountInv
  <2>2. Len(output') = Freed' /\ 0 <= Freed' /\ Freed' <= Published' /\ stopMark' <= Published'
    <3> HIDE DEF d
    <3> QED BY <1>1, <1>2, <1>3, <2>1
  <2>3. Freed' \in Int /\ Published' \in Int /\ Len(output') \in Int
    <3> HIDE DEF d
    <3> QED BY <1>2, <1>3, <2>1
  <2> QED BY <1>1, <2>2, <2>3 DEF CountInv, StopDrains
<1> QED BY <1>4, <1>5, <1>6, <1>7, <1>8, <1>9 DEF RingInv

\* Stopping, finishing and releasing change no offset.
LEMMA OwnerStep == ASSUME RingInv, Stop \/ Done \/ ReleaseRing \/ Unmap PROVE RingInv'
<1>1. /\ UNCHANGED <<head, candidateTail, currentTail, tailLock, pc, size, seenHead, buffer,
                     seenTail, consumer, tail, memory, acquires, stream, output>>
      /\ stopMark' \in {stopMark, Published}
  BY DEF Stop, Done, ReleaseRing, Unmap, ring, threads, reader, history
<1>2. shutdown => shutdown' /\ stopMark' = stopMark
  BY DEF Stop, Done, ReleaseRing, Unmap, history
<1>3. TypeOK'
  <2>1. shutdown' \in BOOLEAN /\ done' \in BOOLEAN /\ owner' \in {"open", "releasing", "unmapped"}
    BY DEF Stop, Done, ReleaseRing, Unmap, RingInv, TypeOK
  <2>2. stopMark' \in Nat
    BY <1>1, DistanceInts, CountInts
  <2> QED BY <1>1, <2>1, <2>2 DEF RingInv, TypeOK
<1>4. LockInv' /\ CallInv' /\ TailInv' /\ BatchInv' /\ StaleHeadInv' /\ HeldInv'
  BY <1>1 DEF RingInv, LockInv, CallInv, TailInv, BatchInv, StaleHeadInv, HeldInv, InLock, Holds,
              Distance
<1>5. CountInv'
  <2>1. Freed' = Freed /\ Published' = Published
    BY <1>1 DEF Freed, Published
  <2> QED BY <1>1, <1>2, <2>1, DistanceInts, CountInts DEF RingInv, CountInv, StopDrains
<1> QED BY <1>3, <1>4, <1>5 DEF RingInv

LEMMA NextRingInv == RingInv /\ [Next]_vars => RingInv'
<1> SUFFICES ASSUME RingInv, [Next]_vars PROVE RingInv'
  OBVIOUS
<1>1. CASE UNCHANGED vars
  BY <1>1 DEF RingInv, TypeOK, LockInv, TailInv, BatchInv, StaleHeadInv, HeldInv, CallInv,
      CountInv, StopDrains, InLock, Holds, Distance, Freed, Published, vars, ring, life, threads,
      reader, history
<1>2. ASSUME NEW p \in Producers, Acquire(p) \/ Write(p) \/ Release(p) PROVE RingInv'
  BY <1>2, ThreadStep, ReadHeadStep, ReserveStep, SwapStep DEF Acquire, Release
<1>3. ASSUME NEW accepted \in BOOLEAN, Consume(accepted) PROVE RingInv'
  BY <1>3, RefuseStep, AcceptStep
<1>4. CASE Stop \/ Done \/ ReleaseRing \/ Unmap
  BY <1>4, OwnerStep
<1> QED BY <1>1, <1>2, <1>3, <1>4, LoopStep DEF Next, Consumer

\* In every reachable state the ring is, seen from head, an interval of published bytes,
\* then of held regions, then of free space.
THEOREM RingInvariance == Spec => []RingInv
BY InitRingInv, NextRingInv, PTL DEF Spec

-------------------------------------------------------------------------------
(* What the invariant implies.                                             *)

\* A byte of a held region is as far from head as its region's start says.
LEMMA HeldCell ==
    ASSUME RingInv, NEW p \in Producers, Holds(p), NEW i \in 0 .. size[p] - 1
    PROVE  /\ Distance(buffer[p]) + i \in 0 .. Size - 1
           /\ Distance(currentTail) <= Distance(buffer[p]) + i
           /\ Distance(buffer[p]) + i < Distance(candidateTail)
           /\ Wrap(buffer[p] + i) = Wrap(head + (Distance(buffer[p]) + i))
           /\ Wrap(buffer[p] + i) \in Offsets
<1>1. /\ head \in Offsets /\ buffer[p] \in Offsets /\ size[p] \in Nat
      /\ Distance(currentTail) <= Distance(buffer[p])
      /\ Distance(buffer[p]) + size[p] <= Distance(candidateTail)
  BY DEF RingInv, TypeOK, HeldInv
<1>2. /\ Distance(buffer[p]) + i \in 0 .. Size - 1 /\ i \in Nat
      /\ Distance(currentTail) <= Distance(buffer[p]) + i
      /\ Distance(buffer[p]) + i < Distance(candidateTail)
  <2>1. /\ Distance(buffer[p]) \in Nat /\ Distance(candidateTail) \in Nat
        /\ Distance(currentTail) \in Nat /\ Distance(candidateTail) <= Size - 1
    BY DistanceInts, RegionInts
  <2>2. i \in Nat /\ i < size[p]
    BY <1>1
  <2> QED BY <1>1, <2>1, <2>2, FutexRingAssumption
<1>3. Wrap(buffer[p] + i) = Wrap(head + (Distance(buffer[p]) + i))
  BY <1>1, <1>2, CellFromHead DEF Distance
<1>4. Wrap(head + (Distance(buffer[p]) + i)) \in Offsets
  BY <1>1, <1>2, CellInRing
<1> QED BY <1>2, <1>3, <1>4

LEMMA NoOverlapFromInvariant == RingInv => NoOverlap
<1> SUFFICES ASSUME RingInv, NEW p \in Producers, Holds(p)
             PROVE  /\ Held(p) \intersect Unread = {}
                    /\ \A q \in Producers \ {p} : Holds(q) => Held(p) \intersect Held(q) = {}
  BY DEF NoOverlap
<1>1. head \in Offsets
  BY DEF RingInv, TypeOK
<1>2. ASSUME NEW i \in 0 .. size[p] - 1, NEW j \in 0 .. Distance(currentTail) - 1
      PROVE  Wrap(buffer[p] + i) # Wrap(head + j)
  <2>1. j \in 0 .. Size - 1 /\ j # Distance(buffer[p]) + i
    BY HeldCell, DistanceInts, FutexRingAssumption
  <2> QED BY <1>1, <2>1, HeldCell, CellInjective
<1>3. ASSUME NEW q \in Producers \ {p}, Holds(q),
             NEW i \in 0 .. size[p] - 1, NEW j \in 0 .. size[q] - 1
      PROVE  Wrap(buffer[p] + i) # Wrap(buffer[q] + j)
  <2>1. /\ \/ Distance(buffer[p]) + size[p] <= Distance(buffer[q])
           \/ Distance(buffer[q]) + size[q] <= Distance(buffer[p])
        /\ size[p] \in Nat /\ size[q] \in Nat
    BY <1>3 DEF RingInv, HeldInv, TypeOK
  <2>2. Distance(buffer[p]) + i # Distance(buffer[q]) + j
    <3>1. Distance(buffer[p]) \in Nat /\ Distance(buffer[q]) \in Nat
      BY RegionInts
    <3> QED BY <2>1, <3>1
  <2> QED BY <1>1, <1>3, <2>2, HeldCell, CellInjective
<1>4. Held(p) \intersect Unread = {}
  BY <1>2 DEF Held, Unread, Region, Distance
<1>5. ASSUME NEW q \in Producers \ {p}, Holds(q) PROVE Held(p) \intersect Held(q) = {}
  BY <1>3, <1>5 DEF Held, Region
<1> QED BY <1>4, <1>5

\* No two threads ever work on the same byte of the ring, those whose wait failed included.
THEOREM RegionsDisjoint == Spec => []NoOverlap
BY NoOverlapFromInvariant, RingInvariance, PTL

-------------------------------------------------------------------------------
(***************************************************************************)
(* The futex ring is sound and implements ReservedStream, whether or not   *)
(* the futex call may fail.                                                *)
(***************************************************************************)


\* Offsets, locals and messages keep to their ranges, regions do not overlap, and a
\* consumer that stops because of shutdown has handed over what was published before.
THEOREM SoundRing == Spec => []Sound
<1>1. RingInv => Sound
  BY NoOverlapFromInvariant DEF RingInv, CountInv, Sound
<1> QED BY <1>1, RingInvariance, PTL

-------------------------------------------------------------------------------
(* The data: what is in memory and in the stream.                          *)

\* The steps that move no offset and touch no byte of the ring.
Aside ==
    \/ \E p \in Producers : \/ Lock(p) \/ ReadHead(p) \/ TestTurn(p) \/ Sleep(p)
                            \/ SleepFails(p) \/ Interrupt(p) \/ WakeAll(p) \/ WakeFails(p)
    \/ TestShutdown \/ TestEmpty \/ LoadTail \/ Doze \/ DozeFails \/ DozeTimeout
    \/ Stop \/ Done \/ ReleaseRing \/ Unmap
    \/ UNCHANGED vars

LEMMA AsideKeeps ==
    ASSUME RingInv, Aside
    PROVE  /\ UNCHANGED <<head, candidateTail, currentTail, memory, stream, output, buffer>>
           /\ \A q \in Producers :
                 /\ Holds(q)' => Holds(q) /\ Message(q)' = Message(q) /\ size'[q] = size[q]
                 /\ pc'[q] \in Releasing => pc[q] \in Releasing
                 /\ \A k \in 1 .. MaxAcquires : Asked(q, k) => Asked(q, k)'
<1>1. ASSUME NEW p \in Producers, Lock(p)
      PROVE  /\ UNCHANGED <<head, candidateTail, currentTail, memory, stream, output, buffer>>
             /\ \A q \in Producers :
                   /\ q # p => UNCHANGED <<pc[q], acquires[q], size[q]>>
                   /\ acquires[q] \in Nat
             /\ pc[p] = "idle" /\ pc'[p] = "locked" /\ acquires'[p] = acquires[p] + 1
  BY <1>1, FutexRingAssumption DEF Lock, reader, RingInv, TypeOK
<1>2. CASE \E p \in Producers : Lock(p)
  <2>1. PICK p \in Producers : Lock(p)
    BY <1>2
  <2>2. \A k \in 1 .. MaxAcquires : Asked(p, k) => Asked(p, k)'
    BY <1>1, <2>1 DEF Asked, InLock
  <2> QED BY <1>1, <2>1, <2>2 DEF Asked, InLock, Holds, Releasing, Message
<1>3. CASE \/ \E p \in Producers : \/ ReadHead(p) \/ TestTurn(p) \/ Sleep(p)
                                   \/ SleepFails(p) \/ Interrupt(p) \/ WakeAll(p) \/ WakeFails(p)
           \/ TestShutdown \/ TestEmpty \/ LoadTail \/ Doze \/ DozeFails \/ DozeTimeout
           \/ Stop \/ Done \/ ReleaseRing \/ Unmap
           \/ UNCHANGED vars
  <2>1. UNCHANGED <<head, candidateTail, currentTail, memory, stream, output, buffer, acquires,
                    size>>
    BY <1>3 DEF ReadHead, TestTurn, Sleep, SleepFails, Interrupt, WakeAll, WakeFails,
                TestShutdown, TestEmpty,
           LoadTail, Doze, DozeFails, DozeTimeout, Stop, Done, ReleaseRing, Unmap, vars, ring,
           threads, history
  <2>2. \A q \in Producers : /\ pc'[q] \in Releasing => pc[q] \in Releasing
                             /\ pc'[q] = "reserved" => pc[q] = "reserved"
                             /\ InLock(q)' => InLock(q)
    <3>1. CASE UNCHANGED pc
      BY <3>1 DEF InLock
    <3>2. ASSUME NEW p \in Producers, ReadHead(p) \/ TestTurn(p) \/ Sleep(p) \/ SleepFails(p)
                                          \/ Interrupt(p) \/ WakeAll(p) \/ WakeFails(p),
                 NEW q \in Producers
          PROVE  /\ pc'[q] \in Releasing => pc[q] \in Releasing
                 /\ pc'[q] = "reserved" => pc[q] = "reserved"
                 /\ InLock(q)' => InLock(q)
      BY <3>2 DEF ReadHead, TestTurn, Sleep, SleepFails, Interrupt, WakeAll, WakeFails, Releasing,
                  InLock,
             RingInv, TypeOK
    <3> QED
      BY <1>3, <3>1, <3>2 DEF TestShutdown, TestEmpty, LoadTail, Doze, DozeFails, DozeTimeout, Stop,
             Done, ReleaseRing, Unmap, vars, threads
  <2> QED BY <2>1, <2>2 DEF Holds, Message, Asked
<1> QED BY <1>2, <1>3 DEF Aside

LEMMA NextSteps ==
    ASSUME [Next]_vars
    PROVE  \/ Aside
           \/ \E p \in Producers : Reserve(p) \/ Write(p) \/ Swap(p)
           \/ \E accepted \in BOOLEAN : Consume(accepted)
BY DEF Next, Acquire, Release, Consumer, Aside

LEMMA InitData == Init => DataInv /\ StreamInv
<1> SUFFICES ASSUME Init PROVE DataInv /\ StreamInv
  OBVIOUS
<1>1. Len(output) = 0 /\ Len(stream) = 0 /\ Used(0, 0) = 0
  BY EmptySeq DEF Init, Used
<1>2. \A p \in Producers : ~Holds(p) /\ pc[p] \notin Releasing
  BY DEF Init, Holds, Releasing
<1>3. DataInv
  BY <1>1, <1>2 DEF Init, DataInv, Distance
<1>4. StreamInv
  BY <1>1, <1>2 DEF StreamInv
<1> QED BY <1>3, <1>4

LEMMA AsideData == ASSUME RingInv, DataInv, StreamInv, Aside PROVE DataInv' /\ StreamInv'
<1>1. /\ UNCHANGED <<head, candidateTail, currentTail, memory, stream, output, buffer>>
      /\ \A q \in Producers :
            /\ Holds(q)' => Holds(q) /\ Message(q)' = Message(q) /\ size'[q] = size[q]
            /\ pc'[q] \in Releasing => pc[q] \in Releasing
            /\ \A k \in 1 .. MaxAcquires : Asked(q, k) => Asked(q, k)'
  BY AsideKeeps
<1>2. Freed' = Freed /\ \A x : Used(head, x)' = Used(head, x)
  BY <1>1 DEF Freed, Used
<1>3. \A q \in Producers : pc'[q] \in Releasing => Holds(q)'
  BY DEF Holds
<1>4. /\ \A i \in 1 .. Len(output') : output'[i] = stream'[i]
      /\ \A i \in 0 .. Distance(currentTail)' - 1 :
            memory'[Wrap(head' + i)] = stream'[Freed' + i + 1]
  BY <1>1, <1>2 DEF DataInv, Distance
<1>5. ASSUME NEW q \in Producers, Holds(q)', NEW i \in 0 .. size'[q] - 1
      PROVE  stream'[Freed' + Distance(buffer[q])' + i + 1] = Message(q)'
  BY <1>1, <1>2, <1>5 DEF DataInv, Distance
<1>6. ASSUME NEW q \in Producers, pc'[q] \in Releasing, NEW i \in 0 .. size'[q] - 1
      PROVE  memory'[Wrap(buffer'[q] + i)] = Message(q)'
  BY <1>1, <1>3, <1>6 DEF DataInv
<1>7. DataInv'
  BY <1>4, <1>5, <1>6 DEF DataInv
<1>8. ASSUME NEW q \in Producers, NEW k \in 1 .. MaxAcquires, ~Asked(q, k)',
             NEW i \in 1 .. Len(stream)
      PROVE  stream[i] # <<q, k>>
  BY <1>1, <1>8 DEF StreamInv
<1>9. ASSUME NEW q \in Producers, Holds(q)', NEW i \in 1 .. Len(stream), stream[i] = Message(q)'
      PROVE  i \in Position(q)' + 1 .. Position(q)' + size'[q]
  <2>1. Position(q)' = Position(q)
    BY <1>1, <1>2 DEF Position, Distance
  <2> QED BY <1>1, <1>9, <2>1 DEF StreamInv
<1>10. StreamInv'
  BY <1>1, <1>8, <1>9 DEF StreamInv
<1> QED BY <1>7, <1>10

\* A region is reserved for a message that is not in the stream yet.
LEMMA ReserveFresh ==
    ASSUME RingInv, StreamInv, NEW p \in Producers, Reserve(p)
    PROVE  \A i \in 1 .. Len(stream) : stream[i] # Message(p)
<1>1. InLock(p) /\ acquires[p] \in 1 .. MaxAcquires
  BY FutexRingAssumption DEF Reserve, InLock, RingInv, CallInv, TypeOK
<1>2. ~Asked(p, acquires[p])
  BY <1>1 DEF Asked
<1> QED BY <1>1, <1>2 DEF StreamInv, Message

\* What a region that fits adds to the stream, and where the other regions are.
LEMMA ReserveRun ==
    ASSUME RingInv, NEW p \in Producers, Reserve(p),
           Available(seenHead[p], candidateTail) >= size[p]
    PROVE  /\ Len(stream) \in Nat /\ Len(stream') = Len(stream) + size[p]
           /\ \A i \in 1 .. Len(stream) : stream'[i] = stream[i]
           /\ \A i \in 1 .. Len(stream') : i > Len(stream) => stream'[i] = Message(p)
           /\ UNCHANGED <<head, currentTail, size, memory, acquires, output, Freed>>
           /\ Position(p)' = Len(stream)
           /\ \A q \in Producers : q # p =>
                 /\ buffer'[q] = buffer[q] /\ Distance(buffer[q])' = Distance(buffer[q])
                 /\ Position(q)' = Position(q) /\ pc'[q] = pc[q]
<1>1. /\ UNCHANGED <<head, currentTail, size, memory, acquires, output>>
      /\ buffer' = [buffer EXCEPT ![p] = candidateTail]
      /\ pc' = [pc EXCEPT ![p] = "reserved"]
  BY DEF Reserve
<1>2. /\ Len(stream) \in Nat /\ size[p] \in Nat /\ Len(stream') = Len(stream) + size[p]
      /\ \A i \in 1 .. Len(stream) : stream'[i] = stream[i]
  BY ReserveDistance, CountInts
<1>3. ASSUME NEW i \in 1 .. Len(stream'), i > Len(stream) PROVE stream'[i] = Message(p)
  <2>1. i - Len(stream) \in 1 .. size[p] /\ Len(stream) + (i - Len(stream)) = i
    BY <1>2, <1>3
  <2> QED BY <2>1, ReserveDistance
<1>4. Freed' = Freed
  <2>1. Distance(candidateTail)' = Distance(candidateTail) + size[p]
    BY <1>1, ReserveDistance DEF Distance
  <2>2. /\ Freed' = Len(stream') - Distance(candidateTail)'
        /\ Freed = Len(stream) - Distance(candidateTail)
    BY DEF Freed, Distance
  <2>3. Distance(candidateTail) \in Nat
    BY DistanceInts
  <2> QED BY <1>2, <2>1, <2>2, <2>3
<1>5. Position(p)' = Len(stream)
  <2>1. Distance(buffer[p])' = Distance(candidateTail)
    BY <1>1 DEF Distance, RingInv, TypeOK
  <2> QED BY <1>4, <2>1, CountInts DEF Position
<1>6. ASSUME NEW q \in Producers, q # p
      PROVE  /\ buffer'[q] = buffer[q] /\ Distance(buffer[q])' = Distance(buffer[q])
             /\ Position(q)' = Position(q) /\ pc'[q] = pc[q]
  BY <1>1, <1>4, <1>6 DEF Distance, Position, RingInv, TypeOK
<1> QED BY <1>1, <1>2, <1>3, <1>4, <1>5, <1>6

\* The bytes of a held region are bytes of the stream.
LEMMA HeldInStream ==
    ASSUME RingInv, NEW p \in Producers, Holds(p), NEW i \in 0 .. size[p] - 1
    PROVE  Position(p) + i + 1 \in 1 .. Len(stream)
<1>1. /\ Distance(buffer[p]) + i \in Nat /\ Distance(buffer[p]) + i < Distance(candidateTail)
      /\ Distance(buffer[p]) \in Nat /\ i \in Nat
  BY HeldCell, RegionInts
<1>2. /\ Freed \in Nat /\ Len(stream) \in Nat /\ Distance(candidateTail) \in Nat
      /\ Freed + Distance(candidateTail) = Len(stream)
  BY CountInts, DistanceInts
<1> QED BY <1>1, <1>2 DEF Position

\* The new region is the new end of the stream.
LEMMA ReserveData ==
    ASSUME RingInv, DataInv, StreamInv, NEW p \in Producers, Reserve(p)
    PROVE  DataInv' /\ StreamInv'
<1>1. CASE ~(Available(seenHead[p], candidateTail) >= size[p])
  <2>1. /\ UNCHANGED <<head, candidateTail, currentTail, memory, stream, output, buffer, size,
                       acquires>>
        /\ pc[p] = "sizing" /\ pc' = [pc EXCEPT ![p] = "idle"]
    BY <1>1 DEF Reserve
  <2>2. \A q \in Producers :
            /\ Holds(q)' => Holds(q) /\ Message(q)' = Message(q)
            /\ pc'[q] \in Releasing => pc[q] \in Releasing /\ Holds(q)'
            /\ InLock(q)' => InLock(q)
    BY <2>1 DEF Holds, Releasing, InLock, Message, RingInv, TypeOK
  <2>3. Freed' = Freed /\ \A q \in Producers : Position(q)' = Position(q)
    BY <2>1 DEF Freed, Position, Distance
  <2>4. DataInv'
    BY <2>1, <2>2, <2>3 DEF DataInv, Distance
  <2>5. StreamInv'
    BY <2>1, <2>2, <2>3 DEF StreamInv, Asked
  <2> QED BY <2>4, <2>5
<1>2. CASE Available(seenHead[p], candidateTail) >= size[p]
  <2>1. /\ Len(stream) \in Nat /\ Len(stream') = Len(stream) + size[p]
        /\ \A i \in 1 .. Len(stream) : stream'[i] = stream[i]
        /\ \A i \in 1 .. Len(stream') : i > Len(stream) => stream'[i] = Message(p)
        /\ UNCHANGED <<head, currentTail, size, memory, acquires, output, Freed>>
        /\ Position(p)' = Len(stream)
        /\ \A q \in Producers : q # p =>
              /\ buffer'[q] = buffer[q] /\ Distance(buffer[q])' = Distance(buffer[q])
              /\ Position(q)' = Position(q) /\ pc'[q] = pc[q]
    BY <1>2, ReserveRun
  <2>2. pc'[p] = "reserved" /\ size[p] \in Nat
    BY <1>2 DEF Reserve, RingInv, TypeOK
  <2>3. \A q \in Producers : /\ Message(q)' = Message(q)
                             /\ q # p => Message(q) # Message(p) /\ (Holds(q)' <=> Holds(q))
                             /\ InLock(q)' => InLock(q) /\ q # p
    BY <2>1, <2>2 DEF Message, Holds, InLock
  <2>4. \A i \in 1 .. Len(output') : output'[i] = stream'[i]
    <3>1. Len(output) \in Nat /\ Len(output) <= Len(stream)
      BY CountInts, DistanceInts DEF RingInv, CountInv
    <3> QED BY <2>1, <3>1 DEF DataInv
  <2>5. ASSUME NEW i \in 0 .. Distance(currentTail)' - 1
        PROVE  memory'[Wrap(head' + i)] = stream'[Freed' + i + 1]
    <3>1. i \in 0 .. Distance(currentTail) - 1
      BY <2>1 DEF Distance
    <3>2. Freed + i + 1 \in 1 .. Len(stream)
      <4>1. /\ Freed \in Nat /\ Distance(currentTail) \in Nat /\ Distance(candidateTail) \in Nat
            /\ Distance(currentTail) <= Distance(candidateTail)
            /\ Freed + Distance(candidateTail) = Len(stream)
        BY CountInts, DistanceInts
      <4> QED BY <2>1, <3>1, <4>1
    <3> QED BY <2>1, <3>1, <3>2 DEF DataInv
  <2>6. ASSUME NEW q \in Producers, Holds(q)', NEW i \in 0 .. size'[q] - 1
        PROVE  stream'[Freed' + Distance(buffer[q])' + i + 1] = Message(q)'
    <3>1. CASE q = p
      <4>1. Position(p)' + i + 1 \in 1 .. Len(stream') /\ Position(p)' + i + 1 > Len(stream)
        BY <2>1, <2>2, <2>6, <3>1
      <4>2. stream'[Position(p)' + i + 1] = Message(p)
        BY <2>1, <4>1
      <4> QED BY <2>3, <3>1, <4>2 DEF Position
    <3>2. CASE q # p
      <4>1. Holds(q) /\ i \in 0 .. size[q] - 1
        BY <2>1, <2>3, <2>6, <3>2
      <4>2. Position(q) + i + 1 \in 1 .. Len(stream)
        BY <4>1, HeldInStream
      <4>3. stream[Position(q) + i + 1] = Message(q)
        BY <4>1 DEF DataInv, Position
      <4>4. stream'[Position(q)' + i + 1] = Message(q)'
        BY <2>1, <2>3, <3>2, <4>2, <4>3
      <4> QED BY <4>4 DEF Position
    <3> QED BY <3>1, <3>2
  <2>7. ASSUME NEW q \in Producers, pc'[q] \in Releasing, NEW i \in 0 .. size'[q] - 1
        PROVE  memory'[Wrap(buffer'[q] + i)] = Message(q)'
    <3>1. q # p
      BY <2>2, <2>7 DEF Releasing
    <3> QED BY <2>1, <2>3, <2>7, <3>1 DEF DataInv
  <2>8. ASSUME NEW q \in Producers, NEW k \in 1 .. MaxAcquires, ~Asked(q, k)',
               NEW i \in 1 .. Len(stream'), stream'[i] = <<q, k>>
        PROVE  FALSE
    <3>1. ~Asked(q, k)
      BY <2>1, <2>3, <2>8 DEF Asked
    <3>2. CASE i <= Len(stream)
      <4>1. i \in 1 .. Len(stream) /\ stream[i] = <<q, k>>
        BY <2>1, <2>8, <3>2
      <4> QED BY <3>1, <4>1 DEF StreamInv
    <3>3. CASE i > Len(stream)
      <4>1. <<q, k>> = <<p, acquires[p]>>
        BY <2>1, <2>8, <3>3 DEF Message
      <4>2. q = p /\ k = acquires[p]
        BY <4>1
      <4> QED BY <2>1, <2>3, <2>8, <4>2 DEF Asked
    <3> QED BY <2>1, <3>2, <3>3
  <2>9. ASSUME NEW q \in Producers, Holds(q)', NEW i \in 1 .. Len(stream'),
               stream'[i] = Message(q)'
        PROVE  i \in Position(q)' + 1 .. Position(q)' + size'[q]
    <3>1. CASE i <= Len(stream)
      <4>1. i \in 1 .. Len(stream) /\ stream[i] = Message(q)
        BY <2>1, <2>3, <2>9, <3>1
      <4>2. q # p
        BY <4>1, ReserveFresh
      <4> QED BY <2>1, <2>3, <2>9, <4>1, <4>2 DEF StreamInv
    <3>2. CASE i > Len(stream)
      <4>1. q = p
        BY <2>1, <2>3, <2>9, <3>2
      <4> QED BY <2>1, <2>2, <3>2, <4>1
    <3> QED BY <2>1, <3>1, <3>2
  <2> QED BY <2>4, <2>5, <2>6, <2>7, <2>8, <2>9 DEF DataInv, StreamInv
<1> QED BY <1>1, <1>2

\* A step that leaves offsets, regions and requests alone keeps the stream.
LEMMA StreamKept ==
    ASSUME StreamInv,
           UNCHANGED <<head, candidateTail, buffer, size, acquires, stream>>,
           \A q \in Producers : Holds(q)' => Holds(q),
           \A q \in Producers : InLock(q)' => InLock(q)
    PROVE  StreamInv'
<1>1. /\ \A q \in Producers : Position(q)' = Position(q) /\ Message(q)' = Message(q)
      /\ \A q \in Producers, k \in 1 .. MaxAcquires : Asked(q, k) => Asked(q, k)'
  BY DEF Position, Distance, Freed, Message, Asked
<1>2. ASSUME NEW q \in Producers, NEW k \in 1 .. MaxAcquires, ~Asked(q, k)',
             NEW i \in 1 .. Len(stream)
      PROVE  stream[i] # <<q, k>>
  BY <1>1, <1>2 DEF StreamInv
<1>3. ASSUME NEW q \in Producers, Holds(q)', NEW i \in 1 .. Len(stream), stream[i] = Message(q)'
      PROVE  i \in Position(q)' + 1 .. Position(q)' + size'[q]
  BY <1>1, <1>3 DEF StreamInv
<1> QED BY <1>2, <1>3 DEF StreamInv

\* The bytes of a region are written where no other thread reads or writes.
LEMMA WriteData ==
    ASSUME RingInv, DataInv, StreamInv, NEW p \in Producers, Write(p)
    PROVE  DataInv' /\ StreamInv'
<1>1. /\ UNCHANGED <<head, candidateTail, currentTail, size, buffer, acquires, stream, output>>
      /\ pc[p] = "reserved" /\ pc' = [pc EXCEPT ![p] = "written"]
      /\ memory' = [i \in 0 .. Size - 1 |-> IF i \in Held(p) THEN Message(p) ELSE memory[i]]
      /\ Holds(p)
  BY DEF Write, ring, history, Held, Holds
<1>2. NoOverlap
  BY NoOverlapFromInvariant
<1>3. /\ Freed' = Freed /\ Distance(currentTail)' = Distance(currentTail)
      /\ \A q \in Producers : /\ Message(q)' = Message(q)
                              /\ Distance(buffer[q])' = Distance(buffer[q])
                              /\ Holds(q)' => Holds(q)
                              /\ InLock(q)' => InLock(q)
  BY <1>1 DEF Freed, Distance, Message, Holds, InLock, RingInv, TypeOK
<1>4. ASSUME NEW i \in 0 .. Distance(currentTail)' - 1
      PROVE  memory'[Wrap(head' + i)] = stream'[Freed' + i + 1]
  <2>1. i \in 0 .. Distance(currentTail) - 1
    BY <1>3
  <2>2. Wrap(head + i) \in Unread
    BY <2>1 DEF Unread, Region, Distance
  <2>3. Wrap(head + i) \in 0 .. Size - 1
    <3>1. i \in 0 .. Size - 1 /\ head \in Offsets
      BY <2>1, DistanceInts, FutexRingAssumption DEF RingInv, TypeOK
    <3> QED BY <3>1, CellInRing DEF Offsets
  <2>4. memory'[Wrap(head + i)] = memory[Wrap(head + i)]
    BY <1>1, <1>2, <2>2, <2>3 DEF NoOverlap
  <2> QED BY <1>1, <1>3, <2>1, <2>4 DEF DataInv
<1>5. ASSUME NEW q \in Producers, Holds(q)', NEW i \in 0 .. size'[q] - 1
      PROVE  stream'[Freed' + Distance(buffer[q])' + i + 1] = Message(q)'
  BY <1>1, <1>3, <1>5 DEF DataInv
<1>6. ASSUME NEW q \in Producers, pc'[q] \in Releasing, NEW i \in 0 .. size'[q] - 1
      PROVE  memory'[Wrap(buffer'[q] + i)] = Message(q)'
  <2>1. Holds(q) /\ i \in 0 .. size[q] - 1 /\ (q # p => pc[q] \in Releasing)
    BY <1>1, <1>3, <1>6 DEF Holds, RingInv, TypeOK
  <2>2. Wrap(buffer[q] + i) \in Held(q) /\ Wrap(buffer[q] + i) \in 0 .. Size - 1
    BY <2>1, HeldCell DEF Held, Region, Offsets
  <2>3. CASE q = p
    BY <1>1, <1>3, <2>2, <2>3
  <2>4. CASE q # p
    <3>1. Wrap(buffer[q] + i) \notin Held(p)
      BY <1>1, <1>2, <2>1, <2>2, <2>4 DEF NoOverlap
    <3> QED BY <1>1, <1>3, <2>1, <2>2, <2>4, <3>1 DEF DataInv
  <2> QED BY <2>3, <2>4
<1>7. \A i \in 1 .. Len(output') : output'[i] = stream'[i]
  BY <1>1 DEF DataInv
<1>8. DataInv'
  BY <1>4, <1>5, <1>6, <1>7 DEF DataInv
<1>9. StreamInv'
  BY <1>1, <1>3, StreamKept
<1> QED BY <1>8, <1>9

\* A published region joins the unread bytes; what was written there is its message.
LEMMA SwapData ==
    ASSUME RingInv, DataInv, StreamInv, NEW p \in Producers, Swap(p)
    PROVE  DataInv' /\ StreamInv'
<1> DEFINE n == size[p]
           e == Distance(currentTail)
<1>1. /\ pc[p] \in Releasing /\ currentTail = buffer[p] /\ Holds(p)
      /\ pc' = [pc EXCEPT ![p] = "wake"]
      /\ UNCHANGED <<head, candidateTail, size, buffer, memory, acquires, stream, output>>
  BY DEF Swap, history, Holds, Releasing
<1>2. Distance(currentTail)' = e + n /\ e \in Nat /\ n \in Nat /\ Freed \in Nat
  BY SwapDistance, <1>1, DistanceInts, CountInts DEF Distance
<1>3. /\ Freed' = Freed
      /\ \A q \in Producers : /\ Message(q)' = Message(q)
                              /\ Distance(buffer[q])' = Distance(buffer[q])
                              /\ Holds(q)' => Holds(q)
                              /\ pc'[q] \in Releasing => pc[q] \in Releasing
                              /\ InLock(q)' => InLock(q)
  BY <1>1 DEF Freed, Distance, Message, Holds, InLock, Releasing, RingInv, TypeOK
<1>4. ASSUME NEW i \in 0 .. Distance(currentTail)' - 1
      PROVE  memory'[Wrap(head' + i)] = stream'[Freed' + i + 1]
  <2>1. i \in 0 .. e + n - 1
    BY <1>2
  <2>2. CASE i < e
    <3>1. i \in 0 .. Distance(currentTail) - 1
      BY <1>2, <2>1, <2>2
    <3> QED BY <1>1, <1>3, <3>1 DEF DataInv
  <2>3. CASE i >= e
    <3> DEFINE j == i - e
    <3>1. j \in 0 .. n - 1 /\ e + j = i /\ Freed + e + j + 1 = Freed + i + 1
      BY <1>2, <2>1, <2>3
    <3>2. Wrap(buffer[p] + j) = Wrap(head + i)
      BY <3>1, <1>1, HeldCell
    <3>3. memory[Wrap(buffer[p] + j)] = Message(p)
      BY <3>1, <1>1 DEF DataInv
    <3>4. stream[Freed + e + j + 1] = Message(p)
      BY <3>1, <1>1 DEF DataInv
    <3> QED BY <1>1, <1>3, <3>1, <3>2, <3>3, <3>4
  <2> QED BY <1>2, <2>1, <2>2, <2>3
<1>5. ASSUME NEW q \in Producers, Holds(q)', NEW i \in 0 .. size'[q] - 1
      PROVE  stream'[Freed' + Distance(buffer[q])' + i + 1] = Message(q)'
  BY <1>1, <1>3, <1>5 DEF DataInv
<1>6. ASSUME NEW q \in Producers, pc'[q] \in Releasing, NEW i \in 0 .. size'[q] - 1
      PROVE  memory'[Wrap(buffer'[q] + i)] = Message(q)'
  BY <1>1, <1>3, <1>6 DEF DataInv
<1>7. \A i \in 1 .. Len(output') : output'[i] = stream'[i]
  BY <1>1 DEF DataInv
<1>8. DataInv'
  BY <1>4, <1>5, <1>6, <1>7 DEF DataInv
<1>9. StreamInv'
  BY <1>1, <1>3, StreamKept
<1> QED BY <1>8, <1>9

\* consumeFunc is shown the next bytes of the stream.
LEMMA BatchData ==
    ASSUME RingInv, DataInv, NEW accepted \in BOOLEAN, Consume(accepted),
           NEW i \in 1 .. Len(output')
    PROVE  output'[i] = stream[i]
<1> DEFINE d == Distance(tail)
<1>1. /\ d \in Nat /\ d <= Distance(currentTail) /\ Distance(currentTail) \in Nat
      /\ Len(output) \in Nat /\ Len(output') = Len(output) + d /\ Len(output) = Freed
  BY BatchOutput, DistanceInts, CountInts DEF Consume, RingInv, CountInv
<1>2. CASE i <= Len(output)
  <2>1. i \in 1 .. Len(output)
    BY <1>1, <1>2
  <2>2. output'[i] = output[i]
    BY <2>1, BatchOutput
  <2> QED BY <2>1, <2>2 DEF DataInv
<1>3. CASE i > Len(output)
  <2> DEFINE j == i - Len(output)
  <2>1. /\ j \in 1 .. d /\ Len(output) + j = i
        /\ j - 1 \in 0 .. Distance(currentTail) - 1 /\ Freed + (j - 1) + 1 = i
    BY <1>1, <1>3
  <2>2. output'[Len(output) + j] = memory[Wrap(head + (j - 1))]
    BY <2>1, BatchOutput
  <2>3. memory[Wrap(head + (j - 1))] = stream[Freed + (j - 1) + 1]
    BY <2>1 DEF DataInv
  <2> QED BY <2>1, <2>2, <2>3
<1> QED BY <1>1, <1>2, <1>3

\* Where the bytes of the ring are in the stream does not depend on head.
LEMMA ConsumePosition ==
    ASSUME RingInv, NEW accepted \in BOOLEAN, Consume(accepted)
    PROVE  /\ Published' = Published
           /\ \A q \in Producers : Holds(q) => Position(q)' = Position(q)
<1>1. CASE ~accepted
  BY <1>1 DEF Consume, threads, Published, Freed, Position, Distance
<1>2. CASE accepted
  <2>1. Consume(TRUE)
    BY <1>2
  <2>2. Published' = Published /\ Freed' = Freed + Distance(tail)
    BY <2>1, AcceptDistance
  <2>3. ASSUME NEW q \in Producers, Holds(q) PROVE Position(q)' = Position(q)
    <3>1. Distance(buffer[q])' = Distance(buffer[q]) - Distance(tail)
      BY <2>1, <2>3, AcceptDistance
    <3>2. Distance(buffer[q]) \in Nat /\ Distance(tail) \in Nat /\ Freed \in Nat
      BY DistanceInts, CountInts, RegionInts
    <3> QED BY <2>2, <3>1, <3>2 DEF Position
  <2> QED BY <2>2, <2>3
<1> QED BY <1>1, <1>2

\* When head moves, the bytes between it and currentTail are still the next of the stream.
LEMMA ConsumeUnread ==
    ASSUME RingInv, DataInv, Consume(TRUE), NEW i \in 0 .. Distance(currentTail)' - 1
    PROVE  memory[Wrap(head' + i)] = stream[Freed' + i + 1]
<1> DEFINE d == Distance(tail)
<1>1. /\ head' = tail /\ head \in Offsets /\ tail \in Offsets
      /\ d \in Nat /\ d <= Distance(currentTail)
  BY BatchOutput DEF Consume, RingInv, TypeOK
<1>2. Distance(currentTail)' = Distance(currentTail) - d /\ Freed' = Freed + d
  BY AcceptDistance
<1>3. /\ d + i \in 0 .. Distance(currentTail) - 1 /\ i \in Nat
      /\ Freed' + i + 1 = Freed + (d + i) + 1 /\ d + i <= Size - 1
  <2>1. /\ Freed \in Nat /\ Distance(currentTail) \in Nat /\ Size \in Nat
        /\ Distance(currentTail) <= Size - 1
    BY DistanceInts, CountInts, FutexRingAssumption
  <2>2. i \in 0 .. (Distance(currentTail) - d) - 1
    BY <1>2
  <2> HIDE DEF d
  <2> QED BY <1>1, <1>2, <2>1, <2>2
<1>4. Wrap(tail + i) = Wrap(head + (d + i))
  BY <1>1, <1>3, CellFromHead DEF Distance
<1> QED BY <1>1, <1>3, <1>4 DEF DataInv

\* Moving head renames distances; the bytes and the stream behind them are the same.
LEMMA ConsumeData ==
    ASSUME RingInv, DataInv, StreamInv, NEW accepted \in BOOLEAN, Consume(accepted)
    PROVE  DataInv' /\ StreamInv'
<1>1. UNCHANGED <<candidateTail, currentTail, pc, size, buffer, memory, acquires, stream>>
  BY DEF Consume, threads
<1>2. \A i \in 1 .. Len(output') : output'[i] = stream'[i]
  BY <1>1, BatchData
<1>3. \A q \in Producers :
          /\ Message(q)' = Message(q) /\ (Holds(q)' <=> Holds(q))
          /\ \A k \in 1 .. MaxAcquires : Asked(q, k)' <=> Asked(q, k)
  BY <1>1 DEF Message, Holds, Asked, InLock
<1>4. ASSUME NEW i \in 0 .. Distance(currentTail)' - 1
      PROVE  memory'[Wrap(head' + i)] = stream'[Freed' + i + 1]
  <2>1. CASE ~accepted
    <3>1. UNCHANGED head /\ Freed' = Freed /\ Distance(currentTail)' = Distance(currentTail)
      BY <2>1 DEF Consume, Freed, Distance
    <3> QED BY <1>1, <3>1 DEF DataInv
  <2>2. CASE accepted
    BY <1>1, <2>2, ConsumeUnread
  <2> QED BY <2>1, <2>2
<1>5. ASSUME NEW q \in Producers, Holds(q)', NEW i \in 0 .. size'[q] - 1
      PROVE  stream'[Freed' + Distance(buffer[q])' + i + 1] = Message(q)'
  <2>1. Holds(q) /\ i \in 0 .. size[q] - 1
    BY <1>1, <1>3, <1>5
  <2>2. stream[Position(q) + i + 1] = Message(q)
    BY <2>1 DEF DataInv, Position
  <2>3. Position(q)' = Position(q)
    BY <2>1, ConsumePosition
  <2> QED BY <1>1, <1>3, <2>2, <2>3 DEF Position
<1>6. ASSUME NEW q \in Producers, pc'[q] \in Releasing, NEW i \in 0 .. size'[q] - 1
      PROVE  memory'[Wrap(buffer'[q] + i)] = Message(q)'
  BY <1>1, <1>3, <1>6 DEF DataInv
<1>7. DataInv'
  BY <1>2, <1>4, <1>5, <1>6 DEF DataInv
<1>8. ASSUME NEW q \in Producers, NEW k \in 1 .. MaxAcquires, ~Asked(q, k)',
             NEW i \in 1 .. Len(stream)
      PROVE  stream[i] # <<q, k>>
  BY <1>3, <1>8 DEF StreamInv
<1>9. ASSUME NEW q \in Producers, Holds(q)', NEW i \in 1 .. Len(stream), stream[i] = Message(q)'
      PROVE  i \in Position(q)' + 1 .. Position(q)' + size'[q]
  <2>1. Holds(q) /\ Position(q)' = Position(q)
    BY <1>3, <1>9, ConsumePosition
  <2> QED BY <1>1, <1>3, <1>9, <2>1 DEF StreamInv
<1>10. StreamInv'
  BY <1>1, <1>8, <1>9 DEF StreamInv
<1> QED BY <1>7, <1>10

LEMMA NextData == RingInv /\ DataInv /\ StreamInv /\ [Next]_vars => DataInv' /\ StreamInv'
BY NextSteps, AsideData, ReserveData, WriteData, SwapData, ConsumeData

\* What was handed over is the beginning of the stream.
LEMMA OutputIsPrefix == RingInv /\ DataInv => output = SubSeq(stream, 1, Len(output))
<1> SUFFICES ASSUME RingInv, DataInv PROVE output = SubSeq(stream, 1, Len(output))
  OBVIOUS
<1> DEFINE k == Len(output)
           T == Messages \union {<<>>}
           s == SubSeq(stream, 1, k)
<1>1. k \in Nat /\ k <= Len(stream) /\ output \in Seq(T) /\ stream \in Seq(Messages)
  BY CountInts, DistanceInts DEF RingInv, CountInv, TypeOK
<1>2. \A i \in 1 .. k : stream[i] \in T
  BY <1>1, ElementOfSeq, CountInts
<1>3. s \in Seq(T) /\ Len(s) = k /\ \A i \in 1 .. k : s[i] = stream[i]
  <2>1. /\ s \in Seq(T) /\ Len(s) = (IF 1 <= k THEN k - 1 + 1 ELSE 0)
        /\ \A i \in 1 .. k - 1 + 1 : s[i] = stream[1 + i - 1]
    <3> HIDE DEF k, T
    <3> QED BY <1>1, <1>2, SubSeqProperties
  <2>2. k - 1 + 1 = k /\ \A i \in 1 .. k : 1 + i - 1 = i
    BY <1>1
  <2> HIDE DEF k, s, T
  <2> QED BY <1>1, <2>1, <2>2
<1>4. \A i \in 1 .. k : output[i] = s[i]
  BY <1>3 DEF DataInv
<1> HIDE DEF s, T
<1> QED BY <1>1, <1>3, <1>4, SeqEqual

LEMMA OutputStaysPrefix == (RingInv /\ DataInv => output = SubSeq(stream, 1, Len(output)))'
BY OutputIsPrefix, PTL

-------------------------------------------------------------------------------
(* Every step of the ring is a step of the stream.                         *)

LEMMA InitImplements == Init => Stream!Init
<1>1. Used(0, 0) = 0 /\ Len(<<>>) = 0
  BY EmptySeq DEF Used
<1> QED BY <1>1 DEF Init, Stream!Init, Published, Freed

\* The region fits although head may be stale, and the message is a new one.
LEMMA ReserveImplements ==
    ASSUME RingInv, StreamInv, NEW p \in Producers, Reserve(p)
    PROVE  Stream!Next \/ UNCHANGED Stream!vars
<1>1. CASE ~(Available(seenHead[p], candidateTail) >= size[p])
  BY <1>1 DEF Reserve, Stream!vars, Published, Freed
<1>2. CASE Available(seenHead[p], candidateTail) >= size[p]
  <2>1. /\ size[p] \in Nat /\ size[p] > 0 /\ acquires[p] \in 1 .. MaxAcquires
        /\ Distance(candidateTail) \in Nat /\ Distance(candidateTail) + size[p] <= Size - 1
    <3>1. InLock(p) /\ size[p] \in Nat /\ acquires[p] \in 0 .. MaxAcquires
      BY DEF Reserve, InLock, RingInv, TypeOK
    <3>2. size[p] > 0 /\ acquires[p] \in 1 .. MaxAcquires
      BY <3>1, FutexRingAssumption DEF RingInv, CallInv
    <3>3. Distance(candidateTail) \in Nat /\ Distance(candidateTail) + size[p] <= Size - 1
      BY <1>2, ReserveDistance, DistanceInts
    <3> QED BY <3>1, <3>2, <3>3
  <2>2. Message(p) \in Messages /\ size[p] \in 1 .. Size - 1
    BY <2>1, FutexRingAssumption DEF Message, Messages
  <2>3. Len(stream) + size[p] <= Len(output) + (Size - 1)
    BY <2>1, CountInts, FutexRingAssumption DEF RingInv, CountInv
  <2>4. UNCHANGED <<Published, output>>
    BY <1>2, ReserveRun DEF Published
  <2>5. \A i \in DOMAIN stream : stream[i] # Message(p)
    BY ReserveFresh DEF RingInv, TypeOK
  <2>6. stream' = stream \o [i \in 1 .. size[p] |-> Message(p)]
    BY <1>2 DEF Reserve
  <2>7. Stream!Reserve(Message(p), size[p])
    BY <2>3, <2>4, <2>5, <2>6 DEF Stream!Reserve
  <2> QED BY <2>2, <2>7 DEF Stream!Next
<1> QED BY <1>1, <1>2

\* The CAS succeeds for the oldest region only, and publishes all of it.
LEMMA SwapImplements ==
    ASSUME RingInv, DataInv, StreamInv, NEW p \in Producers, Swap(p)
    PROVE  Stream!Next
<1> DEFINE n == size[p]
           e == Distance(currentTail)
<1>1. /\ Holds(p) /\ n \in Nat /\ n > 0 /\ e \in Nat
      /\ e + n <= Distance(candidateTail)
      /\ Used(head, currentTail') = e + n
      /\ currentTail = buffer[p]
      /\ UNCHANGED <<head, candidateTail, stream, output>>
  BY SwapDistance, DistanceInts DEF Swap, history
<1>2. /\ Freed \in Nat /\ Len(stream) \in Nat
      /\ Freed + Distance(candidateTail) = Len(stream) /\ Distance(candidateTail) \in Nat
  BY CountInts, DistanceInts
<1>3. Published = Freed + e /\ Published' = Freed + e + n /\ Position(p) = Freed + e
  BY <1>1, <1>2 DEF Published, Freed, Position, Distance
<1>4. /\ Published \in Nat /\ Published < Len(stream)
      /\ Published' \in Published + 1 .. Len(stream)
  BY <1>1, <1>2, <1>3
<1>5. ASSUME NEW i \in Published + 1 .. Published' PROVE stream[i] = Message(p)
  <2>1. i - Published - 1 \in 0 .. n - 1
    <3>1. /\ n \in Nat /\ Published \in Nat /\ Published' \in Nat /\ Freed \in Nat /\ e \in Nat
          /\ Published = Freed + e /\ Published' = Freed + e + n
      BY <1>1, <1>2, <1>3, <1>4
    <3> HIDE DEF n, e
    <3> QED BY <1>5, <3>1
  <2>2. Freed + Distance(buffer[p]) + (i - Published - 1) + 1 = i
    BY <1>1, <1>2, <1>3
  <2>3. stream[Freed + Distance(buffer[p]) + (i - Published - 1) + 1] = Message(p)
    BY <1>1, <2>1 DEF DataInv
  <2> QED BY <2>2, <2>3
<1>6. ASSUME NEW i \in 1 .. Len(stream), stream[i] = Message(p)
      PROVE  i \in Published + 1 .. Published'
  <2>1. i \in Position(p) + 1 .. Position(p) + n
    BY <1>1, <1>6 DEF StreamInv
  <2> QED BY <1>3, <2>1
<1>7. stream[Published + 1] = Message(p)
  BY <1>1, <1>3, <1>4, <1>5
<1>8. \A i \in 1 .. Len(stream) :
          (stream[i] = stream[Published + 1]) <=> (i \in Published + 1 .. Published')
  BY <1>5, <1>6, <1>7
<1> QED BY <1>1, <1>4, <1>8 DEF Stream!Next, Stream!Publish

\* consumeFunc is handed the bytes of the stream that follow those it was handed before.
LEMMA ConsumeImplements ==
    ASSUME RingInv, DataInv, StreamInv, NEW accepted \in BOOLEAN, Consume(accepted)
    PROVE  Stream!Next
<1>1. UNCHANGED stream /\ consumer = "consume"
  BY DEF Consume
<1>2. /\ Len(output) = Freed /\ Len(output') = Len(output) + Distance(tail)
      /\ 0 < Distance(tail) /\ Distance(tail) <= Distance(currentTail)
      /\ Distance(tail) \in Nat
  BY <1>1, BatchOutput DEF RingInv, CountInv
<1>3. Len(output') \in Len(output) + 1 .. Published
  BY <1>2, DistanceInts, CountInts
<1>4. output' = SubSeq(stream, 1, Len(output'))
  <2>1. [Next]_vars
    BY DEF Next, Consumer
  <2>2. RingInv' /\ DataInv'
    BY <2>1, NextRingInv, NextData
  <2> QED BY <1>1, <2>2, OutputStaysPrefix
<1>5. Published' = Published
  BY ConsumePosition
<1> QED BY <1>1, <1>3, <1>4, <1>5 DEF Stream!Next, Stream!Deliver

LEMMA NextImplements ==
    ASSUME RingInv, DataInv, StreamInv, [Next]_vars PROVE [Stream!Next]_(Stream!vars)
<1>1. ASSUME Aside PROVE UNCHANGED Stream!vars
  BY <1>1, AsideKeeps DEF Stream!vars, Published, Freed
<1>2. ASSUME NEW p \in Producers, Write(p) PROVE UNCHANGED Stream!vars
  BY <1>2 DEF Write, ring, history, Stream!vars, Published, Freed
<1>3. ASSUME NEW p \in Producers, Reserve(p) \/ Swap(p)
      PROVE  Stream!Next \/ UNCHANGED Stream!vars
  BY <1>3, ReserveImplements, SwapImplements
<1>4. ASSUME NEW accepted \in BOOLEAN, Consume(accepted) PROVE Stream!Next
  BY <1>4, ConsumeImplements
<1> QED BY <1>1, <1>2, <1>3, <1>4, NextSteps

\* The users of the ring see one stream of bytes, whose space is reserved in some order,
\* published message by message in that order, and handed to consumeFunc once: sleeping,
\* waking, signals, timeouts and failed waits are invisible to them.
THEOREM Refinement == Spec => ImplementsStream
<1>1. Spec => [](DataInv /\ StreamInv)
  BY InitData, NextData, RingInvariance, PTL DEF Spec
<1>2. RingInv /\ DataInv /\ StreamInv /\ [Next]_vars => [Stream!Next]_(Stream!vars)
  BY NextImplements
<1> QED
  BY <1>1, <1>2, InitImplements, RingInvariance, PTL DEF Spec, ImplementsStream, Stream!Spec
===============================================================================

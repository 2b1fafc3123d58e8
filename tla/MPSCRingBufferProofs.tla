------------------------- MODULE MPSCRingBufferProofs -------------------------
(***************************************************************************)
(* Proofs about MPSCRingBuffer, for any number of producers, any size of   *)
(* ring, any requested sizes and any number of calls.                      *)
(***************************************************************************)
EXTENDS MPSCRingBufferMC, SequenceTheorems, TLAPS

(* Arithmetic of offsets.                                                  *)

\* Distances behind a common window subtract.
LEMMA UsedShift ==
    ASSUME NEW h \in Offsets, NEW t \in Offsets, NEW x \in Offsets,
           t = 0 => h = 0, x = 0 => h = 0,
           Used(h, t) <= Used(h, x), Used(h, x) <= Size - 1
    PROVE  /\ x = 0 => t = 0
           /\ Used(t, x) = Used(h, x) - Used(h, t)
BY RingAssumption DEF Used, Offsets

\* Distances one after the other add up while they stay within the capacity.
LEMMA UsedChain ==
    ASSUME NEW s \in Offsets, NEW h \in Offsets, NEW t \in Offsets,
           Used(s, h) + Used(h, t) <= Size - 1
    PROVE  Used(s, t) = Used(s, h) + Used(h, t)
BY RingAssumption DEF Used, Offsets

\* Moving an offset ahead by n bytes and wrapping it adds n to its distance.
LEMMA UsedAdvance ==
    ASSUME NEW h \in Offsets, NEW x \in Offsets, NEW n \in Nat,
           x = 0 => h = 0, n > 0, Used(h, x) + n <= Size - 1
    PROVE  /\ Wrap(x + n) \in Offsets
           /\ Wrap(x + n) # 0
           /\ Used(h, Wrap(x + n)) = Used(h, x) + n
BY RingAssumption DEF Used, Wrap, Offsets

\* The code's free space and the used space add up to the capacity.
LEMMA AvailableUsed ==
    ASSUME NEW h \in Offsets, NEW c \in Offsets, c = 0 => h = 0
    PROVE  Available(h, c) = Size - 1 - Used(h, c)
BY RingAssumption DEF Used, Available, Offsets

LEMMA UsedInt ==
    ASSUME NEW h \in Offsets, NEW x \in Offsets
    PROVE  Used(h, x) \in Int
BY RingAssumption DEF Used, Offsets

\* A distance is zero for equal offsets only.
LEMMA UsedZero ==
    ASSUME NEW h \in Offsets, NEW x \in Offsets, x = 0 => h = 0
    PROVE  /\ Used(h, x) \in Nat
           /\ Used(h, x) = 0 <=> h = x
BY RingAssumption DEF Used, Offsets

\* The batch size of the consumer is the distance to its tail.
LEMMA BatchSizeUsed ==
    ASSUME NEW h \in Offsets, NEW t \in Offsets, h # t
    PROVE  BatchSize(h, t) = Used(h, t)
BY RingAssumption DEF Used, BatchSize, Offsets

\* An address of a region and the same address counted from head are one byte.
LEMMA CellFromHead ==
    ASSUME NEW h \in Offsets, NEW x \in Offsets, NEW i \in Nat,
           x = 0 => h = 0, Used(h, x) + i <= Size - 1
    PROVE  Cell(x + i) = Cell(h + (Used(h, x) + i))
BY RingAssumption DEF Used, Cell, Offsets

LEMMA CellInRing ==
    ASSUME NEW h \in Offsets, NEW i \in 0 .. Size - 1
    PROVE  Cell(h + i) \in 0 .. Size - 1
BY RingAssumption DEF Cell, Offsets

\* Bytes at different distances from head are different bytes.
LEMMA CellInjective ==
    ASSUME NEW h \in Offsets, NEW a \in 0 .. Size - 1, NEW b \in 0 .. Size - 1,
           Cell(h + a) = Cell(h + b)
    PROVE  a = b
BY RingAssumption DEF Cell, Offsets

\* Appending n elements computed by an expression.
LEMMA AppendRun ==
    ASSUME NEW S, NEW s \in Seq(S), NEW n \in Nat, NEW f \in [1 .. n -> S]
    PROVE  /\ s \o f \in Seq(S)
           /\ Len(s \o f) = Len(s) + n
           /\ \A i \in 1 .. Len(s) : (s \o f)[i] = s[i]
           /\ \A i \in 1 .. n : (s \o f)[Len(s) + i] = f[i]
<1>1. f \in Seq(S) /\ Len(f) = n
  OBVIOUS
<1>2. /\ s \o f \in Seq(S)
      /\ Len(s \o f) = Len(s) + n
      /\ \A i \in 1 .. Len(s) + n : (s \o f)[i] = IF i <= Len(s) THEN s[i] ELSE f[i - Len(s)]
  BY <1>1, ConcatProperties
<1>3. Len(s) \in Nat
  BY LenProperties
<1>4. ASSUME NEW i \in 1 .. n PROVE (s \o f)[Len(s) + i] = f[i]
  <2>1. Len(s) + i \in 1 .. Len(s) + n /\ ~(Len(s) + i <= Len(s)) /\ (Len(s) + i) - Len(s) = i
    BY <1>3
  <2> QED BY <2>1, <1>2
<1> QED BY <1>2, <1>3, <1>4

-------------------------------------------------------------------------------
(* The inductive invariant.                                                *)

LEMMA InitIInv == Init => IInv
<1> SUFFICES ASSUME Init PROVE IInv
  OBVIOUS
<1>1. /\ stream = <<>> /\ output = <<>> /\ Len(stream) = 0 /\ Len(output) = 0
      /\ stream \in Seq(Messages) /\ output \in Seq(Messages \union {<<>>})
  BY EmptySeq DEF Init
<1>2. Used(0, 0) = 0
  BY DEF Used
<1>3. TypeOK
  <2>1. memory \in [0 .. Size - 1 -> Messages \union {<<>>}]
    BY DEF Init
  <2>2. /\ pc \in [Producers -> {"idle", "locked", "sizing", "reserved", "written"}]
        /\ size \in [Producers -> Nat] /\ acquires \in [Producers -> 0 .. MaxAcquires]
        /\ seenHead \in [Producers -> Offsets] /\ buffer \in [Producers -> Offsets]
    BY RingAssumption DEF Init, Offsets
  <2>3. /\ head \in Offsets /\ candidateTail \in Offsets /\ currentTail \in Offsets
        /\ tail \in Offsets /\ stopMark \in Nat
    BY RingAssumption DEF Init, Offsets
  <2> QED
    BY <1>1, <2>1, <2>2, <2>3 DEF Init, TypeOK
<1> QED
  BY <1>1, <1>2, <1>3, RingAssumption
  DEF Init, IInv, LockInv, TailInv, BatchInv, StaleHeadInv, HeldInv, CallInv, CountInv,
      StopDrains, OwnerInv, InLock, Holds, Distance, InWindow, Freed, Published

\* A producer that enters the lock finds nobody in it.
LEMMA LockStep == ASSUME IInv, NEW p \in Producers, Lock(p) PROVE IInv'
<1> USE RingAssumption DEF IInv
<1>1. TypeOK'
  BY DEF Lock, TypeOK
<1>2. LockInv' /\ CallInv'
  BY DEF Lock, LockInv, CallInv, InLock, Holds, TypeOK
<1>3. TailInv' /\ BatchInv' /\ CountInv'
  BY DEF Lock, TailInv, BatchInv, CountInv, StopDrains, Distance, InWindow, Freed, Published
<1>4. StaleHeadInv' /\ HeldInv'
  BY DEF Lock, StaleHeadInv, HeldInv, Holds, Distance, InWindow, TypeOK
<1>5. OwnerInv'
  BY DEF Lock, OwnerInv, TypeOK
<1> QED BY <1>1, <1>2, <1>3, <1>4, <1>5

LEMMA ReadHeadStep == ASSUME IInv, NEW p \in Producers, ReadHead(p) PROVE IInv'
<1> USE RingAssumption DEF IInv
<1>1. TypeOK'
  BY DEF ReadHead, TypeOK, ring, history
<1>2. LockInv' /\ CallInv'
  BY DEF ReadHead, LockInv, CallInv, InLock, Holds, TypeOK, ring, history
<1>3. TailInv' /\ BatchInv' /\ CountInv'
  BY DEF ReadHead, TailInv, BatchInv, CountInv, StopDrains, Distance, InWindow, Freed,
         Published, ring, history
<1>4. HeldInv'
  BY DEF ReadHead, HeldInv, Holds, Distance, InWindow, TypeOK, ring
<1>5. StaleHeadInv'
  <2>1. Used(head, head) = 0
    BY DEF Used, TypeOK, Offsets
  <2>2. Distance(candidateTail) \in Int /\ Distance(candidateTail) <= Size - 1
    BY DEF Used, Distance, TailInv, TypeOK, Offsets
  <2>3. ASSUME NEW q \in Producers, pc'[q] = "sizing", q # p
        PROVE  pc[q] = "sizing" /\ seenHead'[q] = seenHead[q]
    BY <2>3 DEF ReadHead, TypeOK
  <2>4. seenHead'[p] = head
    BY DEF ReadHead, TypeOK
  <2>5. head' = head /\ candidateTail' = candidateTail
    BY DEF ReadHead, ring
  <2>6. candidateTail = 0 => head = 0
    BY DEF TailInv, InWindow
  <2>7. SUFFICES ASSUME NEW q \in Producers, pc'[q] = "sizing"
        PROVE  /\ candidateTail' = 0 => seenHead'[q] = 0
               /\ Used(seenHead'[q], candidateTail') <= Size - 1
               /\ Used(seenHead'[q], head') + Used(head', candidateTail')
                     = Used(seenHead'[q], candidateTail')
    BY DEF StaleHeadInv, Distance, Used
  <2>8. CASE q = p
    BY <2>1, <2>2, <2>4, <2>5, <2>6, <2>8 DEF Distance
  <2>9. CASE q # p
    BY <2>3, <2>5, <2>7, <2>9 DEF StaleHeadInv, Distance
  <2> QED
    BY <2>8, <2>9
<1>6. OwnerInv'
  BY DEF ReadHead, OwnerInv, TypeOK
<1> QED BY <1>1, <1>2, <1>3, <1>4, <1>5, <1>6

\* The free space was computed with a head that may be stale; it was not too large.
LEMMA ReserveDistance ==
    ASSUME IInv, NEW p \in Producers, Reserve(p),
           Available(seenHead[p], candidateTail) >= size[p]
    PROVE  /\ size[p] \in Nat /\ size[p] > 0 /\ acquires[p] \in 1 .. MaxAcquires
           /\ head \in Offsets /\ candidateTail \in Offsets
           /\ candidateTail = 0 => head = 0
           /\ Distance(candidateTail) \in Nat
           /\ Distance(candidateTail) + size[p] <= Size - 1
           /\ candidateTail' \in Offsets /\ candidateTail' # 0
           /\ Used(head, candidateTail') = Distance(candidateTail) + size[p]
           /\ stream' \in Seq(Messages) /\ Len(stream') = Len(stream) + size[p]
<1> USE RingAssumption DEF IInv
<1> DEFINE n == size[p]
           c == candidateTail
           d == Distance(candidateTail)
           run == [i \in 1 .. n |-> Message(p)]
<1>1. /\ candidateTail' = Wrap(c + n) /\ stream' = stream \o run /\ pc[p] = "sizing"
  BY DEF Reserve
<1>2. /\ n \in Nat /\ n > 0 /\ acquires[p] \in 1 .. MaxAcquires
      /\ head \in Offsets /\ c \in Offsets /\ seenHead[p] \in Offsets
      /\ c = 0 => head = 0
      /\ c = 0 => seenHead[p] = 0
      /\ d \in Nat /\ d <= Size - 1
  <2>1. InLock(p)
    BY <1>1 DEF InLock
  <2>2. d \in Nat
    BY UsedZero DEF TypeOK, TailInv, InWindow, Distance
  <2> QED
    BY <1>1, <2>1, <2>2 DEF TypeOK, CallInv, StaleHeadInv, TailInv, InWindow, Distance
<1>3. d + n <= Size - 1
  <2>1. n <= Size - 1 - Used(seenHead[p], c)
    BY <1>2, AvailableUsed
  <2>2. Used(seenHead[p], head) + d = Used(seenHead[p], c)
    BY <1>1 DEF StaleHeadInv
  <2>3. Used(seenHead[p], head) \in Nat /\ Used(seenHead[p], c) \in Nat
    BY <1>2 DEF Used, Offsets
  <2> QED BY <2>1, <2>2, <2>3, <1>2
<1>4. /\ candidateTail' \in Offsets /\ candidateTail' # 0
      /\ Used(head, candidateTail') = d + n
  BY <1>1, <1>2, <1>3, UsedAdvance DEF Distance
<1>5. /\ run \in [1 .. n -> Messages]
      /\ stream' \in Seq(Messages) /\ Len(stream') = Len(stream) + n
  <2>1. run \in [1 .. n -> Messages]
    BY <1>2 DEF Message, Messages
  <2>2. stream \in Seq(Messages)
    BY DEF TypeOK
  <2>3. stream \o run \in Seq(Messages) /\ Len(stream \o run) = Len(stream) + n
    <3>1. n \in Nat
      BY <1>2
    <3> HIDE DEF run, n
    <3> QED BY <2>1, <2>2, <3>1, AppendRun
  <2> QED BY <1>1, <2>1, <2>3
<1> QED BY <1>2, <1>3, <1>4, <1>5

LEMMA ReserveStep == ASSUME IInv, NEW p \in Producers, Reserve(p) PROVE IInv'
<1> USE RingAssumption DEF IInv
<1>1. OwnerInv'
  BY DEF Reserve, OwnerInv, TypeOK
<1>2. CASE ~(Available(seenHead[p], candidateTail) >= size[p])
  <2>1. UNCHANGED <<head, candidateTail, currentTail, buffer, stream, size, seenHead,
                    shutdown, done, owner, consumer, tail, memory, acquires, output,
                    stopMark>> /\ tailLock' = FALSE /\ pc' = [pc EXCEPT ![p] = "idle"]
    BY <1>2 DEF Reserve
  <2>2. TypeOK' /\ LockInv' /\ CallInv'
    BY <2>1 DEF Reserve, TypeOK, LockInv, CallInv, InLock, Holds
  <2>3. TailInv' /\ BatchInv' /\ CountInv'
    BY <2>1 DEF TailInv, BatchInv, CountInv, StopDrains, Distance, InWindow, Freed, Published
  <2>4. StaleHeadInv' /\ HeldInv'
    BY <2>1 DEF StaleHeadInv, HeldInv, Holds, Distance, InWindow, TypeOK
  <2> QED BY <1>1, <2>2, <2>3, <2>4
<1>3. CASE Available(seenHead[p], candidateTail) >= size[p]
  <2> DEFINE n == size[p]
             c == candidateTail
             d == Distance(candidateTail)
  <2>1. /\ candidateTail' = Wrap(c + n) /\ buffer' = [buffer EXCEPT ![p] = c]
        /\ pc[p] = "sizing" /\ pc' = [pc EXCEPT ![p] = "reserved"] /\ tailLock' = FALSE
        /\ UNCHANGED <<head, currentTail, shutdown, done, owner, size, seenHead, consumer,
                       tail, memory, acquires, output, stopMark>>
    BY <1>3 DEF Reserve
  <2>2. /\ n \in Nat /\ n > 0
        /\ head \in Offsets /\ c \in Offsets
        /\ c = 0 => head = 0
        /\ d \in Nat /\ d + n <= Size - 1
        /\ candidateTail' \in Offsets /\ candidateTail' # 0
        /\ Used(head, candidateTail') = d + n
        /\ stream' \in Seq(Messages) /\ Len(stream') = Len(stream) + n
    BY <1>3, ReserveDistance
  <2>3. TypeOK'
    BY <2>1, <2>2 DEF TypeOK
  <2>4. LockInv' /\ CallInv'
    BY <2>1 DEF LockInv, CallInv, InLock, Holds, TypeOK
  <2>5. TailInv'
    <3>1. Distance(currentTail)' = Distance(currentTail) /\ Distance(currentTail) \in Int
      BY <2>1, <2>2 DEF Distance, Used, TypeOK, Offsets
    <3> QED
      BY <2>1, <2>2, <3>1 DEF TailInv, Distance, InWindow
  <2>6. BatchInv'
    BY <2>1 DEF BatchInv, Distance, InWindow
  <2>7. CountInv'
    <3>1. Freed' = Freed
      BY <2>1, <2>2, LenProperties DEF Freed, Distance, TypeOK
    <3>2. Published' = Published
      BY <2>1, <3>1 DEF Published
    <3> QED BY <2>1, <3>1, <3>2 DEF CountInv, StopDrains
  <2>8. StaleHeadInv'
    BY <2>1 DEF StaleHeadInv, LockInv, InLock, TypeOK
  <2>9. HeldInv'
    <3>1. \A q \in Producers : Holds(q) => q # p
      BY <2>1 DEF Holds
    <3>2. \A q \in Producers : Holds(q)' <=> q = p \/ Holds(q)
      BY <2>1 DEF Holds, TypeOK
    <3>3. \A q \in Producers : q # p => Distance(buffer[q])' = Distance(buffer[q])
      BY <2>1 DEF Distance, TypeOK
    <3>4. Distance(buffer[p])' = d /\ buffer'[p] = c
      BY <2>1, <2>2 DEF Distance, TypeOK
    <3>5. \A q \in Producers : /\ Distance(buffer[q]) \in Int /\ size[q] \in Int
                               /\ q # p => buffer'[q] = buffer[q]
      BY <2>1, <2>2, UsedInt DEF Distance, TypeOK
    <3>6. Distance(currentTail)' = Distance(currentTail) /\ Distance(currentTail) <= d
      BY <2>1 DEF Distance, Used, TailInv
    <3>7. Distance(candidateTail)' = d + n
      BY <2>1, <2>2 DEF Distance
    <3>8. ASSUME NEW q \in Producers, Holds(q)'
          PROVE  /\ InWindow(buffer[q])'
                 /\ Distance(currentTail)' <= Distance(buffer[q])'
                 /\ Distance(buffer[q])' + size'[q] <= Distance(candidateTail)'
      <4>1. CASE q = p
        BY <4>1, <2>1, <2>2, <3>4, <3>6, <3>7 DEF InWindow
      <4>2. CASE q # p
        <5>1. Holds(q)
          BY <4>2, <3>2, <3>8
        <5>2. /\ InWindow(buffer[q]) /\ Distance(currentTail) <= Distance(buffer[q])
              /\ Distance(buffer[q]) + size[q] <= d
          BY <5>1 DEF HeldInv
        <5>3. /\ buffer'[q] = buffer[q] /\ size'[q] = size[q] /\ head' = head
              /\ Distance(buffer[q])' = Distance(buffer[q])
          BY <4>2, <2>1, <3>3, <3>5
        <5> HIDE DEF IInv, d, n
        <5> QED BY <5>2, <5>3, <3>5, <3>6, <3>7, <2>2 DEF InWindow
      <4> QED BY <4>1, <4>2
    <3>9. ASSUME NEW q \in Producers, Holds(q)', NEW r \in Producers \ {q}, Holds(r)'
          PROVE  \/ Distance(buffer[q])' + size'[q] <= Distance(buffer[r])'
                 \/ Distance(buffer[r])' + size'[r] <= Distance(buffer[q])'
      <4>1. CASE q = p
        <5>1. Holds(r) /\ r # p
          BY <4>1, <3>2, <3>9
        <5>2. Distance(buffer[r]) + size[r] <= d
          BY <5>1 DEF HeldInv
        <5> QED BY <4>1, <5>1, <5>2, <2>1, <3>3, <3>4
      <4>2. CASE r = p
        <5>1. Holds(q) /\ q # p
          BY <4>2, <3>2, <3>9
        <5>2. Distance(buffer[q]) + size[q] <= d
          BY <5>1 DEF HeldInv
        <5> QED BY <4>2, <5>1, <5>2, <2>1, <3>3, <3>4
      <4>3. CASE q # p /\ r # p
        <5>1. Holds(q) /\ Holds(r)
          BY <4>3, <3>2, <3>9
        <5> QED BY <4>3, <5>1, <2>1, <3>3 DEF HeldInv
      <4> QED BY <4>1, <4>2, <4>3
    <3> QED BY <3>8, <3>9 DEF HeldInv
  <2> QED BY <1>1, <2>3, <2>4, <2>5, <2>6, <2>7, <2>8, <2>9
<1> QED BY <1>2, <1>3

LEMMA WriteStep == ASSUME IInv, NEW p \in Producers, Write(p) PROVE IInv'
<1> USE RingAssumption DEF IInv
<1>1. Message(p) \in Messages
  BY DEF Write, CallInv, Holds, Message, Messages, TypeOK
<1>2. TypeOK'
  BY <1>1 DEF Write, TypeOK, ring, history
<1>3. LockInv' /\ CallInv'
  BY DEF Write, LockInv, CallInv, InLock, Holds, TypeOK, ring, history
<1>4. TailInv' /\ BatchInv' /\ CountInv'
  BY DEF Write, TailInv, BatchInv, CountInv, StopDrains, Distance, InWindow, Freed,
         Published, ring, history
<1>5. StaleHeadInv' /\ HeldInv'
  BY DEF Write, StaleHeadInv, HeldInv, Holds, Distance, InWindow, TypeOK, ring
<1>6. OwnerInv'
  BY DEF Write, OwnerInv, TypeOK
<1> QED BY <1>2, <1>3, <1>4, <1>5, <1>6

\* currentTail moves over the released region and up to the next one at most.
LEMMA ReleaseDistance ==
    ASSUME IInv, NEW p \in Producers, Release(p)
    PROVE  /\ Holds(p) /\ size[p] \in Nat /\ size[p] > 0
           /\ Distance(currentTail) \in Nat
           /\ Distance(currentTail) + size[p] <= Distance(candidateTail)
           /\ Distance(candidateTail) <= Size - 1 /\ Distance(candidateTail) \in Int
           /\ currentTail' \in Offsets /\ currentTail' # 0
           /\ Used(head, currentTail') = Distance(currentTail) + size[p]
<1> USE RingAssumption DEF IInv
<1> DEFINE n == size[p]
           e == Distance(currentTail)
<1>1. /\ pc[p] = "written" /\ currentTail = buffer[p]
      /\ currentTail' = Wrap(currentTail + n) /\ pc' = [pc EXCEPT ![p] = "idle"]
      /\ UNCHANGED <<head, candidateTail, tailLock, shutdown, done, owner, size, seenHead,
                     buffer, consumer, tail, memory, acquires, stream, output, stopMark>>
  BY DEF Release, history
<1>2. /\ Holds(p) /\ n \in Nat /\ n > 0
      /\ e \in Nat /\ e + n <= Distance(candidateTail) /\ Distance(candidateTail) <= Size - 1
      /\ currentTail = 0 => head = 0
  <2>1. Holds(p)
    BY <1>1 DEF Holds
  <2>2. e \in Nat
    BY UsedZero DEF TypeOK, TailInv, InWindow, Distance
  <2> QED BY <1>1, <2>1, <2>2 DEF TypeOK, CallInv, HeldInv, TailInv, InWindow
<1>3. Distance(candidateTail) \in Int
  BY DEF TypeOK, Distance, Used, Offsets
<1>4. /\ currentTail' \in Offsets /\ currentTail' # 0
      /\ Used(head, currentTail') = e + n
  BY <1>1, <1>2, <1>3, UsedAdvance DEF Distance, TypeOK
<1> QED BY <1>2, <1>3, <1>4

LEMMA ReleaseStep == ASSUME IInv, NEW p \in Producers, Release(p) PROVE IInv'
<1> USE RingAssumption DEF IInv
<1> DEFINE n == size[p]
           e == Distance(currentTail)
<1>1. /\ pc[p] = "written" /\ currentTail = buffer[p]
      /\ currentTail' = Wrap(currentTail + n) /\ pc' = [pc EXCEPT ![p] = "idle"]
      /\ UNCHANGED <<head, candidateTail, tailLock, shutdown, done, owner, size, seenHead,
                     buffer, consumer, tail, memory, acquires, stream, output, stopMark>>
  BY DEF Release, history
<1>2. /\ Holds(p) /\ n \in Nat /\ n > 0
      /\ e \in Nat /\ e + n <= Distance(candidateTail) /\ Distance(candidateTail) <= Size - 1
      /\ Distance(candidateTail) \in Int
      /\ currentTail' \in Offsets /\ currentTail' # 0
      /\ Used(head, currentTail') = e + n
  BY ReleaseDistance
<1>3. TypeOK'
  BY <1>1, <1>2 DEF TypeOK
<1>4. LockInv' /\ CallInv'
  BY <1>1 DEF LockInv, CallInv, InLock, Holds, TypeOK
<1>5. /\ Distance(currentTail)' = e + n
      /\ Distance(candidateTail)' = Distance(candidateTail)
  BY <1>1, <1>2 DEF Distance
<1>6. TailInv'
  BY <1>1, <1>2, <1>5 DEF TailInv, InWindow
<1>7. BatchInv'
  <2>1. Distance(tail)' = Distance(tail) /\ Distance(tail) \in Int
    BY <1>1 DEF Distance, Used, TypeOK, Offsets
  <2> QED BY <1>1, <1>2, <1>5, <2>1 DEF BatchInv, InWindow
<1>8. CountInv'
  <2>1. Freed' = Freed /\ Published' = Published + n /\ Published \in Int
    BY <1>1, <1>2, <1>5, LenProperties DEF Freed, Published, Distance, TypeOK
  <2>2. Len(output) \in Nat /\ stopMark \in Nat
    BY LenProperties DEF TypeOK
  <2> QED BY <1>1, <1>2, <2>1, <2>2 DEF CountInv, StopDrains
<1>9. StaleHeadInv'
  BY <1>1 DEF StaleHeadInv, Distance, TypeOK
<1>10. HeldInv'
  <2>1. \A q \in Producers : Holds(q)' <=> q # p /\ Holds(q)
    BY <1>1 DEF Holds, TypeOK
  <2>2. \A q \in Producers : /\ Distance(buffer[q])' = Distance(buffer[q])
                             /\ Distance(buffer[q]) \in Int /\ size[q] \in Int
    <3>1. head \in Int /\ Size \in Int /\ \A q \in Producers : buffer[q] \in Int /\ size[q] \in Int
      BY DEF TypeOK, Offsets
    <3>2. head' = head /\ buffer' = buffer
      BY <1>1
    <3> HIDE DEF IInv
    <3> QED BY <3>1, <3>2 DEF Distance, Used
  <2>3. \A q \in Producers \ {p} : Holds(q) => e + n <= Distance(buffer[q])
    <3> SUFFICES ASSUME NEW q \in Producers \ {p}, Holds(q)
                 PROVE  e + n <= Distance(buffer[q])
      OBVIOUS
    <3>1. \/ e + n <= Distance(buffer[q])
          \/ Distance(buffer[q]) + size[q] <= e
      BY <1>1, <1>2 DEF HeldInv
    <3>2. e <= Distance(buffer[q]) /\ size[q] > 0
      BY DEF HeldInv, CallInv
    <3> QED BY <3>1, <3>2, <2>2, <1>2
  <2> QED BY <1>1, <1>5, <2>1, <2>2, <2>3 DEF HeldInv, InWindow
<1>11. OwnerInv'
  BY DEF Release, OwnerInv, TypeOK
<1> QED BY <1>3, <1>4, <1>6, <1>7, <1>8, <1>9, <1>10, <1>11

\* Steps of the consumer that move neither head nor any tail of the ring.
LEMMA TestStep == ASSUME IInv, TestShutdown \/ TestEmpty PROVE IInv'
<1> USE DEF IInv
<1>1. /\ UNCHANGED <<head, candidateTail, currentTail, tailLock, shutdown, done, owner, pc,
                     size, seenHead, buffer, tail, memory, acquires, stream, output, stopMark>>
      /\ consumer' \in {"drain", "load", "returned"} /\ consumer \in {"test", "drain"}
      /\ consumer' = "returned" => currentTail = head
      /\ consumer' \in {"drain", "returned"} => shutdown
  BY DEF TestShutdown, TestEmpty, ring, threads, history, CountInv
<1>2. TypeOK'
  BY <1>1 DEF TypeOK, Ended
<1>3. LockInv' /\ CallInv' /\ TailInv' /\ BatchInv' /\ StaleHeadInv' /\ HeldInv' /\ OwnerInv'
  BY <1>1 DEF LockInv, CallInv, TailInv, BatchInv, StaleHeadInv, HeldInv, OwnerInv, InLock,
              Holds, Distance, InWindow, Ended
<1>4. CountInv'
  <2>1. Freed' = Freed /\ Published' = Published
    BY <1>1 DEF Freed, Published
  <2>2. consumer' = "returned" => Len(output) >= stopMark
    <3>1. Used(head, head) = 0
      BY RingAssumption DEF Used, TypeOK, Offsets
    <3>2. Len(stream) \in Nat /\ Used(head, candidateTail) \in Int /\ stopMark \in Nat
      BY LenProperties, RingAssumption DEF TypeOK, Used, Offsets
    <3> QED BY <1>1, <3>1, <3>2 DEF CountInv, Freed, Published
  <2> QED BY <1>1, <2>1, <2>2 DEF CountInv, StopDrains
<1> QED BY <1>2, <1>3, <1>4

LEMMA LoadTailStep == ASSUME IInv, LoadTail PROVE IInv'
<1> USE DEF IInv
<1>1. /\ UNCHANGED <<head, candidateTail, currentTail, tailLock, shutdown, done, owner, pc,
                     size, seenHead, buffer, memory, acquires, stream, output, stopMark>>
      /\ tail' = currentTail /\ consumer = "load"
      /\ consumer' = IF head # currentTail THEN "consume" ELSE "test"
  BY DEF LoadTail, ring, threads, history
<1>2. TypeOK'
  BY <1>1 DEF TypeOK
<1>3. LockInv' /\ CallInv' /\ TailInv' /\ StaleHeadInv' /\ HeldInv' /\ OwnerInv'
  BY <1>1 DEF LockInv, CallInv, TailInv, StaleHeadInv, HeldInv, OwnerInv, InLock, Holds,
              Distance, InWindow, Ended
<1>4. BatchInv'
  <2>1. head # currentTail => Used(head, currentTail) > 0
    BY UsedZero DEF TypeOK, TailInv, InWindow
  <2>2. Used(head, currentTail) \in Int
    BY RingAssumption DEF TypeOK, Used, Offsets
  <2> QED BY <1>1, <2>1, <2>2 DEF BatchInv, TailInv, Distance, InWindow
<1>5. CountInv'
  BY <1>1 DEF CountInv, StopDrains, Freed, Published
<1> QED BY <1>2, <1>3, <1>4, <1>5

\* consumeFunc is shown as many bytes as lie between head and tail.
LEMMA BatchOutput ==
    ASSUME IInv, consumer = "consume"
    PROVE  LET batch == [i \in 1 .. BatchSize(head, tail) |-> memory[Cell(head + i - 1)]]
           IN  /\ BatchSize(head, tail) = Distance(tail)
               /\ Distance(tail) \in Nat
               /\ batch \in [1 .. Distance(tail) -> Messages \union {<<>>}]
               /\ output \o batch \in Seq(Messages \union {<<>>})
               /\ Len(output \o batch) = Len(output) + Distance(tail)
<1> DEFINE batch == [i \in 1 .. BatchSize(head, tail) |-> memory[Cell(head + i - 1)]]
<1>1. /\ head \in Offsets /\ tail \in Offsets /\ Distance(tail) > 0
      /\ output \in Seq(Messages \union {<<>>})
      /\ memory \in [0 .. Size - 1 -> Messages \union {<<>>}]
  BY DEF IInv, TypeOK, BatchInv
<1>2. head # tail
  BY <1>1 DEF Distance, Used, Offsets
<1>3. BatchSize(head, tail) = Distance(tail) /\ Distance(tail) \in Nat
  BY <1>1, <1>2, BatchSizeUsed, RingAssumption DEF Distance, Used, Offsets
<1>4. Distance(tail) <= Size - 1
  <2>1. Distance(currentTail) \in Int /\ Distance(candidateTail) \in Int
    BY RingAssumption DEF IInv, TypeOK, Distance, Used, Offsets
  <2> QED BY <1>3, <2>1, RingAssumption DEF IInv, BatchInv, TailInv
<1>5. \A i \in 1 .. Distance(tail) : Cell(head + i - 1) \in 0 .. Size - 1
  BY <1>1, <1>3, <1>4, RingAssumption DEF Cell, Offsets
<1>6. batch \in [1 .. Distance(tail) -> Messages \union {<<>>}]
  BY <1>1, <1>3, <1>5
<1>7. /\ output \o batch \in Seq(Messages \union {<<>>})
      /\ Len(output \o batch) = Len(output) + Distance(tail)
  <2> DEFINE n == Distance(tail)
             T == Messages \union {<<>>}
  <2>1. n \in Nat /\ output \in Seq(T) /\ batch \in [1 .. n -> T]
    BY <1>1, <1>3, <1>6
  <2>2. output \o batch \in Seq(T) /\ Len(output \o batch) = Len(output) + n
    <3> HIDE DEF batch, n, T
    <3> QED BY <2>1, AppendRun
  <2> QED BY <2>2
<1> QED BY <1>3, <1>6, <1>7

\* A batch that is refused leaves head where it was; the consumer ends.
LEMMA RefuseStep == ASSUME IInv, Consume(FALSE) PROVE IInv'
<1> USE DEF IInv
<1>1. /\ UNCHANGED <<head, candidateTail, currentTail, tailLock, shutdown, done, owner, pc,
                     size, seenHead, buffer, tail, memory, acquires, stream, stopMark>>
      /\ consumer = "consume" /\ consumer' = "broken"
  BY DEF Consume, threads
<1>2. output' \in Seq(Messages \union {<<>>}) /\ Len(output') = Len(output) + Distance(tail)
  BY <1>1, BatchOutput DEF Consume
<1>3. TypeOK'
  BY <1>1, <1>2 DEF TypeOK, Ended
<1>4. LockInv' /\ CallInv' /\ TailInv' /\ BatchInv' /\ StaleHeadInv' /\ HeldInv' /\ OwnerInv'
  BY <1>1 DEF LockInv, CallInv, TailInv, BatchInv, StaleHeadInv, HeldInv, OwnerInv, InLock,
              Holds, Distance, InWindow, Ended
<1>5. CountInv'
  <2>1. Freed' = Freed /\ Published' = Published
    BY <1>1 DEF Freed, Published
  <2>2. Len(output) = Freed /\ Distance(tail) <= Distance(currentTail)
    BY <1>1 DEF CountInv, BatchInv
  <2>3. /\ Freed \in Int /\ Distance(tail) \in Int /\ Distance(currentTail) \in Int
        /\ stopMark \in Int
    BY LenProperties, RingAssumption DEF Freed, Distance, Used, TypeOK, Offsets
  <2> QED BY <1>1, <1>2, <2>1, <2>2, <2>3 DEF CountInv, StopDrains, Published, Distance
<1> QED BY <1>3, <1>4, <1>5

\* When a batch is accepted head moves to its end: every distance shrinks by its size.
LEMMA AcceptDistance ==
    ASSUME IInv, Consume(TRUE)
    PROVE  /\ head \in Offsets /\ tail \in Offsets /\ head' = tail
           /\ tail = 0 => head = 0
           /\ Distance(tail) \in Nat /\ Distance(tail) > 0
           /\ Distance(tail) <= Distance(currentTail)
           /\ Distance(currentTail)' = Distance(currentTail) - Distance(tail)
           /\ InWindow(currentTail)'
           /\ Distance(candidateTail)' = Distance(candidateTail) - Distance(tail)
           /\ InWindow(candidateTail)'
           /\ \A q \in Producers : Holds(q) =>
                  /\ Distance(buffer[q])' = Distance(buffer[q]) - Distance(tail)
                  /\ InWindow(buffer[q])'
<1> USE DEF IInv
<1> DEFINE d == Distance(tail)
<1>1. /\ UNCHANGED <<candidateTail, currentTail, tailLock, shutdown, done, owner, pc,
                     size, seenHead, buffer, tail, memory, acquires, stream, stopMark>>
      /\ consumer = "consume" /\ consumer' = "test" /\ head' = tail
  BY DEF Consume, threads
<1>2. /\ head \in Offsets /\ tail \in Offsets
      /\ tail = 0 => head = 0
      /\ d \in Nat /\ d > 0 /\ d <= Distance(currentTail)
  BY <1>1, BatchOutput DEF BatchInv, InWindow, TypeOK
<1>3. /\ Distance(currentTail)' = Distance(currentTail) - d /\ InWindow(currentTail)'
      /\ Distance(candidateTail)' = Distance(candidateTail) - d /\ InWindow(candidateTail)'
      /\ Distance(currentTail) \in Int /\ Distance(candidateTail) \in Int
  <2>1. Distance(currentTail) \in Int /\ Distance(candidateTail) \in Int
    BY RingAssumption DEF TypeOK, Distance, Used, Offsets
  <2>2. currentTail' = currentTail /\ candidateTail' = candidateTail
    BY <1>1
  <2>3. /\ d <= Distance(candidateTail) /\ Distance(currentTail) <= Size - 1
        /\ Distance(candidateTail) <= Size - 1
    BY <2>1, <1>2, RingAssumption DEF TailInv
  <2>4. Used(tail, currentTail) = Distance(currentTail) - d /\ (currentTail = 0 => tail = 0)
    BY <1>2, <2>3, UsedShift DEF TailInv, InWindow, Distance, TypeOK
  <2>5. Used(tail, candidateTail) = Distance(candidateTail) - d /\ (candidateTail = 0 => tail = 0)
    BY <1>2, <2>3, UsedShift DEF TailInv, InWindow, Distance, TypeOK
  <2> QED BY <1>1, <2>1, <2>4, <2>5 DEF Distance, InWindow
<1>4. ASSUME NEW q \in Producers, Holds(q)
      PROVE  /\ Distance(buffer[q])' = Distance(buffer[q]) - d /\ InWindow(buffer[q])'
             /\ Distance(buffer[q]) \in Int /\ size[q] \in Int /\ size[q] > 0
  <2>1. /\ InWindow(buffer[q]) /\ buffer[q] \in Offsets
        /\ Distance(currentTail) <= Distance(buffer[q])
        /\ Distance(buffer[q]) + size[q] <= Distance(candidateTail)
        /\ size[q] \in Nat /\ size[q] > 0
    BY <1>4 DEF HeldInv, TypeOK, CallInv
  <2>2. Distance(buffer[q]) \in Int
    BY <2>1, <1>2, UsedInt DEF Distance
  <2>3. d <= Distance(buffer[q]) /\ Distance(buffer[q]) <= Size - 1
    BY <2>1, <2>2, <1>2, <1>3, RingAssumption DEF TailInv
  <2>4. /\ Used(tail, buffer[q]) = Distance(buffer[q]) - d
        /\ buffer[q] = 0 => tail = 0
    <3>1. buffer[q] = 0 => head = 0
      BY <2>1 DEF InWindow
    <3>2. Used(head, tail) <= Used(head, buffer[q]) /\ Used(head, buffer[q]) <= Size - 1
      BY <2>3 DEF Distance
    <3> QED BY <1>2, <2>1, <3>1, <3>2, UsedShift DEF Distance
  <2> QED BY <1>1, <2>1, <2>2, <2>4 DEF Distance, InWindow
<1> QED BY <1>1, <1>2, <1>3, <1>4

LEMMA AcceptStep == ASSUME IInv, Consume(TRUE) PROVE IInv'
<1> USE DEF IInv
<1> DEFINE d == Distance(tail)
<1>1. /\ UNCHANGED <<candidateTail, currentTail, tailLock, shutdown, done, owner, pc,
                     size, seenHead, buffer, tail, memory, acquires, stream, stopMark>>
      /\ consumer = "consume" /\ consumer' = "test" /\ head' = tail
  BY DEF Consume, threads
<1>2. output' \in Seq(Messages \union {<<>>}) /\ Len(output') = Len(output) + d
  BY <1>1, BatchOutput DEF Consume
<1>3. /\ head \in Offsets /\ tail \in Offsets
      /\ tail = 0 => head = 0
      /\ d \in Nat /\ d > 0 /\ d <= Distance(currentTail)
  BY AcceptDistance
<1>4. /\ Distance(currentTail)' = Distance(currentTail) - d /\ InWindow(currentTail)'
      /\ Distance(candidateTail)' = Distance(candidateTail) - d /\ InWindow(candidateTail)'
      /\ Distance(currentTail) \in Int /\ Distance(candidateTail) \in Int
  BY AcceptDistance, UsedInt DEF Distance, TypeOK
<1>5. TypeOK'
  BY <1>1, <1>2, <1>3 DEF TypeOK
<1>6. LockInv' /\ CallInv' /\ BatchInv' /\ OwnerInv'
  BY <1>1 DEF LockInv, CallInv, BatchInv, OwnerInv, InLock, Holds, Ended
<1>7. TailInv'
  BY <1>1, <1>3, <1>4, RingAssumption DEF TailInv
<1>8. StaleHeadInv'
  <2> SUFFICES ASSUME NEW p \in Producers, pc[p] = "sizing"
               PROVE  /\ candidateTail = 0 => seenHead[p] = 0
                      /\ Used(seenHead[p], candidateTail) <= Size - 1
                      /\ Used(seenHead[p], tail) + Distance(candidateTail)'
                            = Used(seenHead[p], candidateTail)
    BY <1>1 DEF StaleHeadInv, Distance
  <2>1. /\ candidateTail = 0 => seenHead[p] = 0
        /\ Used(seenHead[p], candidateTail) <= Size - 1
        /\ Used(seenHead[p], head) + Distance(candidateTail) = Used(seenHead[p], candidateTail)
        /\ seenHead[p] \in Offsets /\ candidateTail \in Offsets
    BY DEF StaleHeadInv, TypeOK
  <2>2. /\ d <= Distance(candidateTail) /\ Distance(candidateTail) \in Int
        /\ Used(seenHead[p], head) \in Int /\ Used(seenHead[p], candidateTail) \in Int
    <3>1. Used(seenHead[p], head) \in Int /\ Used(seenHead[p], candidateTail) \in Int
      BY <1>3, <2>1, UsedInt
    <3> QED BY <1>3, <1>4, <3>1 DEF TailInv
  <2>3. Used(seenHead[p], tail) = Used(seenHead[p], head) + d
    <3>1. Used(seenHead[p], head) + Used(head, tail) <= Size - 1
      BY <1>3, <2>1, <2>2, RingAssumption DEF Distance
    <3>2. Used(seenHead[p], tail) = Used(seenHead[p], head) + Used(head, tail)
      BY <3>1, <1>3, <2>1, UsedChain
    <3> QED BY <3>2 DEF Distance
  <2> QED BY <2>1, <2>2, <2>3, <1>3, <1>4
<1>9. HeldInv'
  <2>1. ASSUME NEW q \in Producers, Holds(q)
        PROVE  /\ Distance(buffer[q])' = Distance(buffer[q]) - d /\ InWindow(buffer[q])'
               /\ Distance(buffer[q]) \in Int /\ size[q] \in Int
    <3>1. buffer[q] \in Offsets /\ head \in Offsets /\ size[q] \in Int
      BY DEF TypeOK
    <3>2. Distance(buffer[q]) \in Int
      BY <3>1, UsedInt DEF Distance
    <3>3. Distance(buffer[q])' = Distance(buffer[q]) - d /\ InWindow(buffer[q])'
      BY <2>1, AcceptDistance
    <3> QED BY <3>1, <3>2, <3>3
  <2>2. \A q \in Producers : Holds(q)' <=> Holds(q)
    BY <1>1 DEF Holds
  <2> QED BY <1>1, <1>3, <1>4, <2>1, <2>2 DEF HeldInv
<1>10. CountInv'
  <2>1. Freed' = Freed + d /\ Published' = Published /\ Freed \in Int /\ Published \in Int
    BY <1>1, <1>3, <1>4, LenProperties DEF Freed, Published, Distance, TypeOK
  <2>2. Len(output') = Freed'
    BY <1>1, <1>2, <2>1 DEF CountInv
  <2>3. Freed' <= Published'
    BY <1>1, <2>1, <1>3, <1>4 DEF Published, Distance, Freed
  <2> QED BY <1>1, <2>1, <2>2, <2>3 DEF CountInv, StopDrains
<1> QED BY <1>5, <1>6, <1>7, <1>8, <1>9, <1>10

\* Stopping, finishing and releasing change no offset.
LEMMA OwnerStep == ASSUME IInv, Stop \/ Done \/ ReleaseRing \/ Unmap PROVE IInv'
<1> USE DEF IInv
<1>1. /\ UNCHANGED <<head, candidateTail, currentTail, tailLock, pc, size, seenHead, buffer,
                     consumer, tail, memory, acquires, stream, output>>
      /\ stopMark' \in {stopMark, Published}
  BY DEF Stop, Done, ReleaseRing, Unmap, ring, threads, history
<1>2. shutdown => shutdown' /\ stopMark' = stopMark
  BY DEF Stop, Done, ReleaseRing, Unmap, history
<1>3. Published \in Nat /\ Len(output) \in Nat
  <2>1. Used(head, candidateTail) \in Int /\ Used(head, currentTail) \in Int
    BY UsedInt DEF TypeOK
  <2> QED BY <2>1, LenProperties DEF CountInv, Published, Freed, TypeOK
<1>4. TypeOK'
  <2>1. shutdown' \in BOOLEAN /\ done' \in BOOLEAN /\ owner' \in {"open", "releasing", "unmapped"}
    BY DEF Stop, Done, ReleaseRing, Unmap, TypeOK
  <2> QED BY <1>1, <1>3, <2>1 DEF TypeOK
<1>5. LockInv' /\ CallInv' /\ TailInv' /\ BatchInv' /\ StaleHeadInv' /\ HeldInv'
  BY <1>1 DEF LockInv, CallInv, TailInv, BatchInv, StaleHeadInv, HeldInv, InLock, Holds,
              Distance, InWindow
<1>6. CountInv'
  <2>1. Freed' = Freed /\ Published' = Published
    BY <1>1 DEF Freed, Published
  <2> QED BY <1>1, <1>2, <1>3, <2>1 DEF CountInv, StopDrains, TypeOK
<1>7. OwnerInv'
  BY DEF Stop, Done, ReleaseRing, Unmap, OwnerInv, Ended, threads
<1> QED BY <1>4, <1>5, <1>6, <1>7

LEMMA NextIInv == IInv /\ [Next]_vars => IInv'
<1> SUFFICES ASSUME IInv, [Next]_vars PROVE IInv'
  OBVIOUS
<1>1. CASE UNCHANGED vars
  BY <1>1 DEF IInv, TypeOK, LockInv, TailInv, BatchInv, StaleHeadInv, HeldInv, CallInv,
      CountInv, OwnerInv, StopDrains, InLock, Holds, Distance, InWindow, Freed, Published,
      vars, ring, threads, history
<1>2. ASSUME NEW p \in Producers, Producer(p) PROVE IInv'
  BY <1>2, LockStep, ReadHeadStep, ReserveStep, WriteStep, ReleaseStep DEF Producer
<1>3. CASE Consumer
  <2>1. CASE \E accepted \in BOOLEAN : Consume(accepted)
    BY <2>1, RefuseStep, AcceptStep
  <2> QED BY <1>3, <2>1, TestStep, LoadTailStep DEF Consumer
<1>4. CASE Stop \/ Done \/ ReleaseRing \/ Unmap
  BY <1>4, OwnerStep
<1> QED BY <1>1, <1>2, <1>3, <1>4 DEF Next

\* The invariant holds in every reachable state of the ring.
THEOREM Invariance == Spec => []IInv
BY InitIInv, NextIInv, PTL DEF Spec

-------------------------------------------------------------------------------
(* What the invariant implies.                                             *)

\* A byte of a held region is as far from head as its region's start says.
LEMMA HeldCell ==
    ASSUME IInv, NEW p \in Producers, Holds(p), NEW i \in 0 .. size[p] - 1
    PROVE  /\ Distance(buffer[p]) \in Nat
           /\ Distance(buffer[p]) + i \in 0 .. Size - 1
           /\ Distance(buffer[p]) + i < Distance(candidateTail)
           /\ Cell(buffer[p] + i) = Cell(head + (Distance(buffer[p]) + i))
<1>1. /\ head \in Offsets /\ buffer[p] \in Offsets /\ size[p] \in Nat
      /\ InWindow(buffer[p])
      /\ Distance(buffer[p]) + size[p] <= Distance(candidateTail)
      /\ Distance(candidateTail) <= Size - 1
  BY DEF IInv, TypeOK, HeldInv, TailInv
<1>2. Distance(buffer[p]) \in Nat /\ Distance(candidateTail) \in Int
  BY <1>1, UsedInt, UsedZero DEF Distance, InWindow, IInv, TypeOK
<1>3. Distance(buffer[p]) + i <= Size - 1 /\ i \in Nat
  BY <1>1, <1>2, RingAssumption
<1>4. Cell(buffer[p] + i) = Cell(head + (Distance(buffer[p]) + i))
  BY <1>1, <1>3, CellFromHead DEF Distance, InWindow
<1> QED BY <1>1, <1>2, <1>3, <1>4, RingAssumption

LEMMA DistanceInts ==
    ASSUME IInv
    PROVE  /\ Distance(currentTail) \in Nat /\ Distance(candidateTail) \in Nat
           /\ Distance(currentTail) <= Distance(candidateTail)
           /\ Distance(candidateTail) <= Size - 1
           /\ Len(stream) \in Nat /\ Freed \in Int
           /\ Freed + Distance(candidateTail) = Len(stream)
<1>1. /\ head \in Offsets /\ currentTail \in Offsets /\ candidateTail \in Offsets
      /\ currentTail = 0 => head = 0
      /\ candidateTail = 0 => head = 0
  BY DEF IInv, TypeOK, TailInv, InWindow
<1>2. Distance(currentTail) \in Nat /\ Distance(candidateTail) \in Nat
  BY <1>1, UsedZero DEF Distance
<1>3. /\ Distance(currentTail) <= Distance(candidateTail)
      /\ Distance(candidateTail) <= Size - 1
  BY DEF IInv, TailInv
<1>4. Len(stream) \in Nat
  BY LenProperties DEF IInv, TypeOK
<1>5. Freed = Len(stream) - Distance(candidateTail)
  BY DEF Freed, Distance
<1> QED BY <1>2, <1>3, <1>4, <1>5

LEMMA FreedNat ==
    ASSUME IInv
    PROVE  Freed >= 0 /\ Len(output) \in Nat
<1>1. Len(output) \in Nat
  BY LenProperties DEF IInv, TypeOK
<1> QED BY <1>1, DistanceInts DEF IInv, CountInv

LEMMA OutputWithinStream == IInv => Len(output) <= Len(stream)
BY DistanceInts, FreedNat DEF IInv, CountInv, Published, Distance

LEMMA NoOverlapFromInvariant == IInv => NoOverlap
<1> SUFFICES ASSUME IInv, NEW p \in Producers, Holds(p)
             PROVE  /\ Held(p) \intersect Unread = {}
                    /\ \A q \in Producers \ {p} : Holds(q) =>
                          Held(p) \intersect Held(q) = {}
  BY DEF NoOverlap
<1>1. head \in Offsets
  BY DEF IInv, TypeOK
<1>2. ASSUME NEW i \in 0 .. size[p] - 1, NEW j \in 0 .. Distance(currentTail) - 1
      PROVE  Cell(buffer[p] + i) # Cell(head + j)
  <2>1. Distance(currentTail) <= Distance(buffer[p]) /\ size[p] \in Nat
    BY DEF IInv, HeldInv, TypeOK
  <2>2. j \in 0 .. Size - 1 /\ j # Distance(buffer[p]) + i
    BY <2>1, HeldCell, DistanceInts, RingAssumption
  <2> QED BY <1>1, <2>2, HeldCell, CellInjective
<1>3. ASSUME NEW q \in Producers \ {p}, Holds(q),
             NEW i \in 0 .. size[p] - 1, NEW j \in 0 .. size[q] - 1
      PROVE  Cell(buffer[p] + i) # Cell(buffer[q] + j)
  <2>1. /\ \/ Distance(buffer[p]) + size[p] <= Distance(buffer[q])
           \/ Distance(buffer[q]) + size[q] <= Distance(buffer[p])
        /\ size[p] \in Nat /\ size[q] \in Nat
    BY <1>3 DEF IInv, HeldInv, TypeOK
  <2>2. Distance(buffer[p]) + i # Distance(buffer[q]) + j
    BY <1>3, <2>1, HeldCell
  <2> QED BY <1>1, <1>3, <2>2, HeldCell, CellInjective
<1>4. Held(p) \intersect Unread = {}
  BY <1>2 DEF Held, Unread, Region, Distance
<1>5. ASSUME NEW q \in Producers \ {p}, Holds(q) PROVE Held(p) \intersect Held(q) = {}
  BY <1>3, <1>5 DEF Held, Region
<1> QED BY <1>4, <1>5

LEMMA NoSpaceLostFromInvariant == IInv => NoSpaceLost
<1> SUFFICES ASSUME IInv, consumer # "broken"
             PROVE  Available(head, candidateTail) = Size - 1 - (Len(stream) - Len(output))
  BY DEF NoSpaceLost
<1>1. Available(head, candidateTail) = Size - 1 - Distance(candidateTail)
  BY AvailableUsed DEF IInv, TypeOK, TailInv, InWindow, Distance
<1>2. Len(output) = Freed
  BY DEF IInv, CountInv
<1> QED BY <1>1, <1>2, DistanceInts, RingAssumption

\* Every field, local and message keeps to its range.
THEOREM TypeCorrect == Spec => []TypeOK
<1>1. IInv => TypeOK
  BY DEF IInv
<1> QED BY <1>1, Invariance, PTL

\* No two threads ever work on the same byte of the ring, however many producers
\* there are and however stale the head they sized their region with.
THEOREM RegionsDisjoint == Spec => []NoOverlap
BY NoOverlapFromInvariant, Invariance, PTL

\* The free space the code computes from wrapped offsets never drifts from what
\* was reserved and handed over.
THEOREM SpaceConserved == Spec => []NoSpaceLost
BY NoSpaceLostFromInvariant, Invariance, PTL

\* A consumer that stops because of shutdown has handed over what was released before.
THEOREM ShutdownDrains == Spec => []StopDrains
<1>1. IInv => StopDrains
  BY DEF IInv, CountInv
<1> QED BY <1>1, Invariance, PTL

\* The buffer is unmapped after its last user.
THEOREM UnmapSafe == Spec => []UnmappedUnused
<1>1. IInv => UnmappedUnused
  BY DEF IInv, OwnerInv, UnmappedUnused
<1> QED BY <1>1, Invariance, PTL

\* Both together: stopping and releasing the ring takes nothing from its users.
THEOREM SafeStop == Spec => []StopsSafely
BY ShutdownDrains, UnmapSafe, PTL DEF StopsSafely

-------------------------------------------------------------------------------
(* The data: what is in memory, and what was handed over.                  *)

LEMMA InitDataInv == Init => DataInv
<1> SUFFICES ASSUME Init PROVE DataInv
  OBVIOUS
<1>1. Len(output) = 0 /\ Used(0, 0) = 0
  BY EmptySeq DEF Init, Used
<1> QED BY <1>1 DEF Init, DataInv, Distance, Holds

\* A step that moves no offset and no byte keeps the data.
LEMMA DataKept ==
    ASSUME IInv, DataInv,
           UNCHANGED <<head, candidateTail, currentTail, memory, stream, output>>,
           \A p \in Producers : Holds(p)' =>
               Holds(p) /\ pc'[p] = pc[p] /\ Message(p)' = Message(p)
                        /\ buffer'[p] = buffer[p] /\ size'[p] = size[p]
    PROVE  DataInv'
<1>1. Freed' = Freed
  BY DEF Freed
<1>2. \A x : Used(head, x)' = Used(head, x)
  BY DEF Used
<1>3. \A p \in Producers : pc'[p] = "written" => Holds(p)' /\ pc[p] = "written"
  BY DEF Holds
<1>4. \A i \in 0 .. Distance(currentTail)' - 1 : memory'[Cell(head' + i)] = stream'[Freed' + i + 1]
  BY <1>1 DEF DataInv, Distance
<1>5. ASSUME NEW p \in Producers, Holds(p)', NEW i \in 0 .. size'[p] - 1
      PROVE  stream'[Freed' + Distance(buffer[p])' + i + 1] = Message(p)'
  BY <1>1, <1>5 DEF DataInv, Distance
<1>6. ASSUME NEW p \in Producers, pc'[p] = "written", NEW i \in 0 .. size'[p] - 1
      PROVE  memory'[Cell(buffer'[p] + i)] = Message(p)'
  BY <1>3, <1>6 DEF DataInv
<1>7. \A i \in 1 .. Len(output') : output'[i] = stream'[i]
  BY DEF DataInv
<1> QED BY <1>4, <1>5, <1>6, <1>7 DEF DataInv

\* The new region is the new end of the stream.
LEMMA ReserveData ==
    ASSUME IInv, DataInv, NEW p \in Producers, Reserve(p) PROVE DataInv'
<1>1. CASE ~(Available(seenHead[p], candidateTail) >= size[p])
  BY <1>1, DataKept DEF Reserve, Holds, Message, IInv, TypeOK
<1>2. CASE Available(seenHead[p], candidateTail) >= size[p]
  <2> DEFINE n == size[p]
             run == [i \in 1 .. n |-> Message(p)]
  <2>1. /\ buffer' = [buffer EXCEPT ![p] = candidateTail]
        /\ stream' = stream \o run
        /\ pc[p] = "sizing" /\ pc' = [pc EXCEPT ![p] = "reserved"]
        /\ UNCHANGED <<head, currentTail, size, memory, acquires, output>>
    BY <1>2 DEF Reserve
  <2>2. n \in Nat /\ acquires[p] \in 1 .. MaxAcquires
    BY <2>1 DEF IInv, TypeOK, CallInv, InLock
  <2>3. /\ \A i \in 1 .. Len(stream) : stream'[i] = stream[i]
        /\ \A i \in 1 .. n : stream'[Len(stream) + i] = Message(p)
    <3>1. run \in [1 .. n -> Messages] /\ \A i \in 1 .. n : run[i] = Message(p)
      BY <2>2 DEF Message, Messages
    <3>2. stream \in Seq(Messages)
      BY DEF IInv, TypeOK
    <3>3. /\ \A i \in 1 .. Len(stream) : (stream \o run)[i] = stream[i]
          /\ \A i \in 1 .. n : (stream \o run)[Len(stream) + i] = run[i]
      <4>1. n \in Nat
        BY <2>2
      <4> HIDE DEF run, n
      <4> QED BY <3>1, <3>2, <4>1, AppendRun
    <3> QED BY <2>1, <3>1, <3>3
  <2>4. IInv'
    BY ReserveStep
  <2>5. Freed' = Freed
    <3>1. Distance(candidateTail)' = Distance(candidateTail) + n
      BY <1>2, ReserveDistance DEF Distance, Reserve
    <3>2. Len(stream') = Len(stream) + n
      BY <1>2, ReserveDistance
    <3> QED BY <3>1, <3>2, <2>2, DistanceInts DEF Freed, Distance
  <2>6. Distance(currentTail)' = Distance(currentTail)
    BY <2>1 DEF Distance, Used
  <2>7. \A q \in Producers : Message(q)' = Message(q) /\ size'[q] \in Nat
    BY <2>1 DEF Message, IInv, TypeOK
  <2>8. \A i \in 1 .. Len(output') : output'[i] = stream'[i]
    BY <2>1, <2>3, OutputWithinStream DEF DataInv
  <2>9. \A i \in 0 .. Distance(currentTail)' - 1 : memory'[Cell(head' + i)] = stream'[Freed' + i + 1]
    <3> SUFFICES ASSUME NEW i \in 0 .. Distance(currentTail) - 1
                 PROVE  memory[Cell(head + i)] = stream'[Freed + i + 1]
      BY <2>1, <2>5, <2>6
    <3>1. Freed + i + 1 \in 1 .. Len(stream)
      BY DistanceInts, FreedNat
    <3> QED BY <2>3, <3>1 DEF DataInv
  <2>10. ASSUME NEW q \in Producers, Holds(q)', NEW i \in 0 .. size'[q] - 1
         PROVE  stream'[Freed' + Distance(buffer[q])' + i + 1] = Message(q)'
    <3>1. CASE q = p
      <4>1. Distance(buffer[p])' = Distance(candidateTail)
        BY <2>1 DEF Distance, Used, IInv, TypeOK
      <4>2. Freed' + Distance(buffer[p])' = Len(stream) /\ Len(stream) \in Nat
        BY <4>1, <2>5, DistanceInts
      <4>3. i \in Nat /\ i + 1 \in 1 .. n
        BY <3>1, <2>1, <2>2
      <4>4. Freed' + Distance(buffer[p])' + i + 1 = Len(stream) + (i + 1)
        BY <4>2, <4>3
      <4> QED BY <3>1, <4>3, <4>4, <2>3, <2>7
    <3>2. CASE q # p
      <4>1. /\ Holds(q) /\ buffer'[q] = buffer[q] /\ size'[q] = size[q]
            /\ Distance(buffer[q])' = Distance(buffer[q])
        BY <3>2, <2>1, <2>10 DEF Holds, Distance, Used, IInv, TypeOK
      <4>2. i \in 0 .. size[q] - 1
        BY <4>1, <2>10
      <4>3. Freed + Distance(buffer[q]) + i + 1 \in 1 .. Len(stream)
        <5>1. /\ Distance(buffer[q]) \in Nat /\ i \in Nat
              /\ Distance(buffer[q]) + i < Distance(candidateTail)
          BY <4>1, <4>2, HeldCell
        <5>2. /\ Freed \in Nat /\ Distance(candidateTail) \in Nat
              /\ Freed + Distance(candidateTail) = Len(stream)
          BY DistanceInts, FreedNat
        <5> QED BY <5>1, <5>2
      <4>4. stream[Freed + Distance(buffer[q]) + i + 1] = Message(q)
        BY <4>1, <4>2 DEF DataInv
      <4> QED BY <4>1, <4>3, <4>4, <2>3, <2>5, <2>7
    <3> QED BY <3>1, <3>2
  <2>11. ASSUME NEW q \in Producers, pc'[q] = "written", NEW i \in 0 .. size'[q] - 1
         PROVE  memory'[Cell(buffer'[q] + i)] = Message(q)'
    <3>1. q # p /\ pc[q] = "written" /\ buffer'[q] = buffer[q]
      BY <2>1, <2>11 DEF IInv, TypeOK
    <3> QED BY <3>1, <2>1, <2>7 DEF DataInv
  <2> QED BY <2>8, <2>9, <2>10, <2>11 DEF DataInv
<1> QED BY <1>1, <1>2

\* The bytes of a region are written where no other thread reads or writes.
LEMMA WriteData ==
    ASSUME IInv, DataInv, NEW p \in Producers, Write(p) PROVE DataInv'
<1>1. /\ UNCHANGED <<head, candidateTail, currentTail, size, buffer, acquires, stream, output>>
      /\ pc[p] = "reserved" /\ pc' = [pc EXCEPT ![p] = "written"]
      /\ memory' = [i \in 0 .. Size - 1 |-> IF i \in Held(p) THEN Message(p) ELSE memory[i]]
      /\ Holds(p)
  BY DEF Write, ring, history, Held, Holds
<1>2. NoOverlap
  BY NoOverlapFromInvariant
<1>3. Freed' = Freed /\ \A q \in Producers : Message(q)' = Message(q)
  BY <1>1 DEF Freed, Message
<1>4. Distance(currentTail)' = Distance(currentTail)
  BY <1>1 DEF Distance, Used
<1>5. \A i \in 0 .. Distance(currentTail)' - 1 : memory'[Cell(head' + i)] = stream'[Freed' + i + 1]
  <2> SUFFICES ASSUME NEW i \in 0 .. Distance(currentTail) - 1
               PROVE  memory'[Cell(head + i)] = stream[Freed + i + 1]
    BY <1>1, <1>3, <1>4
  <2>1. Cell(head + i) \in Unread
    BY DEF Unread, Region, Distance
  <2>2. Cell(head + i) \in 0 .. Size - 1
    <3>1. i \in 0 .. Size - 1 /\ head \in Offsets
      BY DistanceInts, RingAssumption DEF IInv, TypeOK
    <3> QED BY <3>1, CellInRing
  <2>3. memory'[Cell(head + i)] = memory[Cell(head + i)]
    BY <1>1, <1>2, <2>1, <2>2 DEF NoOverlap
  <2> QED BY <2>3 DEF DataInv
<1>6. ASSUME NEW q \in Producers, Holds(q)', NEW i \in 0 .. size'[q] - 1
      PROVE  stream'[Freed' + Distance(buffer[q])' + i + 1] = Message(q)'
  <2>1. Holds(q)
    BY <1>1, <1>6 DEF Holds, IInv, TypeOK
  <2>2. Distance(buffer[q])' = Distance(buffer[q])
    BY <1>1 DEF Distance, Used
  <2> QED BY <1>1, <1>3, <2>1, <2>2 DEF DataInv
<1>7. ASSUME NEW q \in Producers, pc'[q] = "written", NEW i \in 0 .. size'[q] - 1
      PROVE  memory'[Cell(buffer'[q] + i)] = Message(q)'
  <2>1. Holds(q) /\ i \in 0 .. size[q] - 1 /\ (q # p => pc[q] = "written")
    BY <1>1, <1>7 DEF Holds, IInv, TypeOK
  <2>2. Cell(buffer[q] + i) \in Held(q)
    BY <2>1 DEF Held, Region
  <2>3. Cell(buffer[q] + i) \in 0 .. Size - 1
    <3>1. /\ Distance(buffer[q]) + i \in 0 .. Size - 1 /\ head \in Offsets
          /\ Cell(buffer[q] + i) = Cell(head + (Distance(buffer[q]) + i))
      BY <2>1, HeldCell DEF IInv, TypeOK
    <3> QED BY <3>1, CellInRing
  <2>4. CASE q = p
    BY <2>4, <1>1, <1>3, <2>2, <2>3
  <2>5. CASE q # p
    <3>1. Cell(buffer[q] + i) \notin Held(p)
      BY <2>5, <2>1, <2>2, <1>1, <1>2 DEF NoOverlap
    <3> QED BY <2>5, <2>1, <2>3, <3>1, <1>1, <1>3 DEF DataInv
  <2> QED BY <2>4, <2>5
<1>8. \A i \in 1 .. Len(output') : output'[i] = stream'[i]
  BY <1>1 DEF DataInv
<1> QED BY <1>5, <1>6, <1>7, <1>8 DEF DataInv

\* A released region joins the unread bytes; what was written there is its message.
LEMMA ReleaseData ==
    ASSUME IInv, DataInv, NEW p \in Producers, Release(p) PROVE DataInv'
<1> DEFINE n == size[p]
           e == Distance(currentTail)
<1>1. /\ pc[p] = "written" /\ currentTail = buffer[p] /\ Holds(p)
      /\ pc' = [pc EXCEPT ![p] = "idle"]
      /\ UNCHANGED <<head, candidateTail, size, buffer, memory, acquires, stream, output>>
  BY DEF Release, history, Holds
<1>2. Freed' = Freed /\ \A q \in Producers : Message(q)' = Message(q)
  BY <1>1 DEF Freed, Message
<1>3. Distance(currentTail)' = e + n /\ e \in Nat /\ n \in Nat
  BY ReleaseDistance, <1>1, DistanceInts DEF Distance
<1>4. \A i \in 0 .. Distance(currentTail)' - 1 : memory'[Cell(head' + i)] = stream'[Freed' + i + 1]
  <2> SUFFICES ASSUME NEW i \in 0 .. e + n - 1
               PROVE  memory[Cell(head + i)] = stream[Freed + i + 1]
    BY <1>1, <1>2, <1>3
  <2>1. CASE i < e
    BY <2>1, <1>3 DEF DataInv
  <2>2. CASE i >= e
    <3> DEFINE j == i - e
    <3>1. j \in 0 .. n - 1 /\ e + j = i /\ Freed + e + j + 1 = Freed + i + 1
      <4>1. Freed \in Int
        BY DistanceInts
      <4>2. j \in 0 .. n - 1 /\ e + j = i
        BY <2>2, <1>3
      <4> QED BY <4>1, <4>2, <1>3
    <3>2. Cell(buffer[p] + j) = Cell(head + i)
      BY <3>1, <1>1, HeldCell
    <3>3. memory[Cell(buffer[p] + j)] = Message(p)
      BY <3>1, <1>1 DEF DataInv
    <3>4. stream[Freed + e + j + 1] = Message(p)
      BY <3>1, <1>1 DEF DataInv
    <3> QED BY <3>1, <3>2, <3>3, <3>4
  <2> QED BY <2>1, <2>2, <1>3
<1>5. ASSUME NEW q \in Producers, Holds(q)', NEW i \in 0 .. size'[q] - 1
      PROVE  stream'[Freed' + Distance(buffer[q])' + i + 1] = Message(q)'
  <2>1. Holds(q) /\ Distance(buffer[q])' = Distance(buffer[q])
    BY <1>1, <1>5 DEF Holds, Distance, Used, IInv, TypeOK
  <2> QED BY <1>1, <1>2, <2>1 DEF DataInv
<1>6. ASSUME NEW q \in Producers, pc'[q] = "written", NEW i \in 0 .. size'[q] - 1
      PROVE  memory'[Cell(buffer'[q] + i)] = Message(q)'
  <2>1. pc[q] = "written"
    BY <1>1, <1>6 DEF IInv, TypeOK
  <2> QED BY <1>1, <1>2, <2>1 DEF DataInv
<1>7. \A i \in 1 .. Len(output') : output'[i] = stream'[i]
  BY <1>1 DEF DataInv
<1> QED BY <1>4, <1>5, <1>6, <1>7 DEF DataInv

\* consumeFunc is shown the next bytes of the stream.
LEMMA BatchData ==
    ASSUME IInv, DataInv, NEW accepted \in BOOLEAN, Consume(accepted)
    PROVE  \A i \in 1 .. Len(output') : output'[i] = stream[i]
<1> DEFINE d == Distance(tail)
           T == Messages \union {<<>>}
           batch == [i \in 1 .. BatchSize(head, tail) |-> memory[Cell(head + i - 1)]]
<1>1. /\ consumer = "consume" /\ output' = output \o batch
      /\ BatchSize(head, tail) = d /\ d \in Nat /\ batch \in [1 .. d -> T]
      /\ output \in Seq(T) /\ Len(output) \in Nat
      /\ Len(output) = Freed /\ d <= Distance(currentTail)
      /\ head \in Offsets
  BY BatchOutput, FreedNat DEF Consume, IInv, TypeOK, CountInv, BatchInv
<1>2. /\ Len(output') = Len(output) + d
      /\ \A i \in 1 .. Len(output) : output'[i] = output[i]
      /\ \A i \in 1 .. d : output'[Len(output) + i] = batch[i]
  <2>1. /\ Len(output \o batch) = Len(output) + d
        /\ \A i \in 1 .. Len(output) : (output \o batch)[i] = output[i]
        /\ \A i \in 1 .. d : (output \o batch)[Len(output) + i] = batch[i]
    <3>1. d \in Nat /\ output \in Seq(T) /\ batch \in [1 .. d -> T]
      BY <1>1
    <3> HIDE DEF batch, d, T
    <3> QED BY <3>1, AppendRun
  <2> QED BY <1>1, <2>1
<1>3. ASSUME NEW i \in 1 .. d PROVE batch[i] = stream[Freed + i]
  <2>1. /\ i - 1 \in 0 .. Distance(currentTail) - 1
        /\ head + i - 1 = head + (i - 1) /\ Freed + (i - 1) + 1 = Freed + i
    BY <1>1, DistanceInts, RingAssumption DEF Offsets
  <2>2. batch[i] = memory[Cell(head + (i - 1))]
    BY <1>1, <2>1
  <2> QED BY <2>1, <2>2 DEF DataInv
<1> SUFFICES ASSUME NEW i \in 1 .. Len(output') PROVE output'[i] = stream[i]
  OBVIOUS
<1>4. CASE i <= Len(output)
  BY <1>4, <1>1, <1>2 DEF DataInv
<1>5. CASE i > Len(output)
  <2>1. i - Len(output) \in 1 .. d /\ Len(output) + (i - Len(output)) = i
    BY <1>1, <1>2, <1>5
  <2> HIDE DEF batch
  <2> QED BY <2>1, <1>1, <1>2, <1>3
<1> QED BY <1>1, <1>2, <1>4, <1>5

\* Moving head renames distances; the bytes and the stream behind them are the same.
LEMMA ConsumeData ==
    ASSUME IInv, DataInv, NEW accepted \in BOOLEAN, Consume(accepted) PROVE DataInv'
<1>1. /\ UNCHANGED <<candidateTail, currentTail, pc, size, buffer, memory, acquires, stream>>
      /\ consumer = "consume" /\ head' = IF accepted THEN tail ELSE head
  BY DEF Consume, threads
<1>2. \A i \in 1 .. Len(output') : output'[i] = stream'[i]
  BY <1>1, BatchData
<1>3. \A q \in Producers : /\ Message(q)' = Message(q)
                           /\ Holds(q)' <=> Holds(q)
  BY <1>1 DEF Message, Holds
<1>4. CASE ~accepted
  <2>1. head' = head /\ Freed' = Freed
    BY <1>1, <1>4 DEF Freed, Used
  <2>2. \A i \in 0 .. Distance(currentTail)' - 1 :
            memory'[Cell(head' + i)] = stream'[Freed' + i + 1]
    BY <1>1, <2>1 DEF DataInv, Distance
  <2>3. ASSUME NEW q \in Producers, Holds(q)', NEW i \in 0 .. size'[q] - 1
        PROVE  stream'[Freed' + Distance(buffer[q])' + i + 1] = Message(q)'
    BY <1>1, <1>3, <2>1, <2>3 DEF DataInv, Distance
  <2>4. ASSUME NEW q \in Producers, pc'[q] = "written", NEW i \in 0 .. size'[q] - 1
        PROVE  memory'[Cell(buffer'[q] + i)] = Message(q)'
    BY <1>1, <1>3, <2>4 DEF DataInv
  <2> QED BY <1>2, <2>2, <2>3, <2>4 DEF DataInv
<1>5. CASE accepted
  <2> DEFINE d == Distance(tail)
  <2>1. /\ head' = tail /\ head \in Offsets /\ tail \in Offsets
        /\ tail = 0 => head = 0
        /\ d \in Nat /\ d <= Distance(currentTail)
    BY <1>1, <1>5, BatchOutput DEF IInv, TypeOK, BatchInv, InWindow
  <2>2. /\ Distance(currentTail)' = Distance(currentTail) - d
        /\ Distance(candidateTail)' = Distance(candidateTail) - d
        /\ \A q \in Producers : Holds(q) => Distance(buffer[q])' = Distance(buffer[q]) - d
    BY <1>5, AcceptDistance
  <2>3. Freed' = Freed + d
    BY <1>1, <2>1, <2>2, DistanceInts DEF Freed, Distance
  <2>4. ASSUME NEW i \in 0 .. Distance(currentTail)' - 1
        PROVE  memory'[Cell(head' + i)] = stream'[Freed' + i + 1]
    <3>1. /\ d + i \in 0 .. Distance(currentTail) - 1 /\ i \in Nat
          /\ Freed' + i + 1 = Freed + (d + i) + 1 /\ d + i <= Size - 1
      <4>1. Freed \in Int /\ Distance(currentTail) \in 0 .. Size - 1 /\ Size \in Nat /\ d \in Nat
        BY <2>1, DistanceInts, RingAssumption
      <4>2. i \in 0 .. (Distance(currentTail) - d) - 1
        BY <2>2
      <4> QED BY <4>1, <4>2, <2>3
    <3>2. Cell(tail + i) = Cell(head + (d + i))
      BY <2>1, <3>1, CellFromHead DEF Distance
    <3> QED BY <1>1, <2>1, <3>1, <3>2 DEF DataInv
  <2>5. ASSUME NEW q \in Producers, Holds(q)', NEW i \in 0 .. size'[q] - 1
        PROVE  stream'[Freed' + Distance(buffer[q])' + i + 1] = Message(q)'
    <3>1. Holds(q) /\ i \in 0 .. size[q] - 1
      BY <1>1, <1>3, <2>5
    <3>2. Freed' + Distance(buffer[q])' + i + 1 = Freed + Distance(buffer[q]) + i + 1
      BY <2>1, <2>2, <2>3, <3>1, HeldCell, DistanceInts
    <3>3. stream[Freed + Distance(buffer[q]) + i + 1] = Message(q)
      BY <3>1 DEF DataInv
    <3> QED BY <1>1, <1>3, <3>2, <3>3
  <2>6. ASSUME NEW q \in Producers, pc'[q] = "written", NEW i \in 0 .. size'[q] - 1
        PROVE  memory'[Cell(buffer'[q] + i)] = Message(q)'
    BY <1>1, <1>3, <2>6 DEF DataInv
  <2> QED BY <1>2, <2>4, <2>5, <2>6 DEF DataInv
<1> QED BY <1>4, <1>5

LEMMA NextDataInv == IInv /\ DataInv /\ [Next]_vars => DataInv'
<1> SUFFICES ASSUME IInv, DataInv, [Next]_vars PROVE DataInv'
  OBVIOUS
<1>1. ASSUME NEW p \in Producers, Producer(p) PROVE DataInv'
  <2>1. ASSUME Lock(p) PROVE DataInv'
    <3>1. UNCHANGED <<head, candidateTail, currentTail, memory, stream, output>>
      BY <2>1 DEF Lock
    <3>2. \A q \in Producers : Holds(q)' =>
              Holds(q) /\ pc'[q] = pc[q] /\ Message(q)' = Message(q)
                       /\ buffer'[q] = buffer[q] /\ size'[q] = size[q]
      BY <2>1 DEF Lock, Holds, Message, IInv, TypeOK
    <3> QED BY <3>1, <3>2, DataKept
  <2>2. ASSUME ReadHead(p) PROVE DataInv'
    <3>1. UNCHANGED <<head, candidateTail, currentTail, memory, stream, output>>
      BY <2>2 DEF ReadHead, ring, history
    <3>2. \A q \in Producers : Holds(q)' =>
              Holds(q) /\ pc'[q] = pc[q] /\ Message(q)' = Message(q)
                       /\ buffer'[q] = buffer[q] /\ size'[q] = size[q]
      BY <2>2 DEF ReadHead, Holds, Message, IInv, TypeOK, history
    <3> QED BY <3>1, <3>2, DataKept
  <2> QED BY <1>1, <2>1, <2>2, ReserveData, WriteData, ReleaseData DEF Producer
<1>2. ASSUME \/ TestShutdown \/ TestEmpty \/ LoadTail \/ Stop \/ Done \/ ReleaseRing \/ Unmap
             \/ UNCHANGED vars
      PROVE  DataInv'
  <2>1. UNCHANGED <<head, candidateTail, currentTail, memory, stream, output, pc, acquires,
                    buffer, size>>
    BY <1>2 DEF TestShutdown, TestEmpty, LoadTail, Stop, Done, ReleaseRing, Unmap, vars,
                ring, threads, history
  <2> QED BY <2>1, DataKept DEF Holds, Message
<1>3. ASSUME NEW accepted \in BOOLEAN, Consume(accepted) PROVE DataInv'
  BY <1>3, ConsumeData
<1> QED BY <1>1, <1>2, <1>3 DEF Next, Consumer

LEMMA InOrderFromInvariant == IInv /\ DataInv => InOrder
<1> SUFFICES ASSUME IInv, DataInv PROVE output = SubSeq(stream, 1, Len(output))
  BY DEF InOrder
<1> DEFINE k == Len(output)
           T == Messages \union {<<>>}
           s == SubSeq(stream, 1, k)
<1>1. k \in Nat /\ k <= Len(stream) /\ output \in Seq(T) /\ stream \in Seq(Messages)
  BY FreedNat, OutputWithinStream DEF IInv, TypeOK
<1>2. \A i \in 1 .. k : stream[i] \in T
  BY <1>1, ElementOfSeq, DistanceInts
<1>3. s \in Seq(T) /\ Len(s) = k /\ \A i \in 1 .. k : s[i] = stream[i]
  <2>1. /\ s \in Seq(T) /\ Len(s) = (IF 1 <= k THEN k - 1 + 1 ELSE 0)
        /\ \A i \in 1 .. k - 1 + 1 : s[i] = stream[1 + i - 1]
    <3> HIDE DEF k, T
    <3> QED BY <1>1, <1>2, SubSeqProperties
  <2>2. k - 1 + 1 = k /\ \A i \in 1 .. k : 1 + i - 1 = i
    BY <1>1
  <2> HIDE DEF k, s, T
  <2> QED BY <1>1, <2>1, <2>2
<1>4. \A i \in 1 .. k : output[i] = s[i]
  BY <1>3 DEF DataInv
<1> HIDE DEF s, T
<1> QED BY <1>1, <1>3, <1>4, SeqEqual

\* The consumer is handed the reserved bytes in order, each with what its producer
\* wrote there: nothing lost, repeated, torn or overwritten.
THEOREM DeliveredInOrder == Spec => []InOrder
<1>1. Spec => []DataInv
  BY InitDataInv, NextDataInv, Invariance, PTL DEF Spec
<1> QED BY <1>1, InOrderFromInvariant, Invariance, PTL

-------------------------------------------------------------------------------
(***************************************************************************)
(* The ring implements ReservedStream: every step of the code is a         *)
(* Reserve, a Publish or a Deliver of the stream, or is invisible to the   *)
(* users of the ring.                                                      *)
(***************************************************************************)


(* Which messages are in the stream, and where.                            *)

LEMMA InitStreamInv == Init => StreamInv
<1> SUFFICES ASSUME Init PROVE StreamInv
  OBVIOUS
<1>1. Len(stream) = 0 /\ Len(output) = 0 /\ Used(0, 0) = 0
  BY EmptySeq DEF Init, Used
<1>2. \A p \in Producers : ~Holds(p)
  BY DEF Init, Holds
<1> QED BY <1>1, <1>2 DEF Init, StreamInv, Freed

\* A step that reserves nothing and frees nothing keeps the stream as it is.
LEMMA StreamKept ==
    ASSUME StreamInv, UNCHANGED stream, Freed' <= Len(output'),
           \A p \in Producers, k \in 1 .. MaxAcquires : Asked(p, k) => Asked(p, k)',
           \A p \in Producers : Holds(p)' =>
               /\ Holds(p) /\ Message(p)' = Message(p)
               /\ size'[p] = size[p] /\ Position(p)' = Position(p)
    PROVE  StreamInv'
<1>1. ASSUME NEW p \in Producers, Holds(p)', NEW i \in 1 .. Len(stream), stream[i] = Message(p)'
      PROVE  i \in Position(p)' + 1 .. Position(p)' + size'[p]
  BY <1>1 DEF StreamInv
<1>2. ASSUME NEW p \in Producers, NEW k \in 1 .. MaxAcquires, ~Asked(p, k)',
             NEW i \in 1 .. Len(stream)
      PROVE  stream[i] # <<p, k>>
  BY <1>2 DEF StreamInv
<1> QED BY <1>1, <1>2 DEF StreamInv

\* A region that fits is reserved for a message that is not in the stream.
LEMMA ReserveFresh ==
    ASSUME IInv, StreamInv, NEW p \in Producers, Reserve(p)
    PROVE  \A i \in 1 .. Len(stream) : stream[i] # Message(p)
<1>1. InLock(p) /\ acquires[p] \in 1 .. MaxAcquires
  BY RingAssumption DEF Reserve, InLock, IInv, CallInv, TypeOK
<1>2. ~Asked(p, acquires[p])
  BY <1>1 DEF Asked
<1> QED BY <1>1, <1>2 DEF StreamInv, Message

\* The stream after a reservation: what it was, and the bytes of the new message.
LEMMA ReserveRun ==
    ASSUME IInv, NEW p \in Producers, Reserve(p),
           Available(seenHead[p], candidateTail) >= size[p]
    PROVE  /\ size[p] \in Nat /\ Len(stream) \in Nat
           /\ Len(stream') = Len(stream) + size[p]
           /\ \A i \in 1 .. Len(stream) : stream'[i] = stream[i]
           /\ \A i \in 1 .. Len(stream') : i > Len(stream) => stream'[i] = Message(p)
<1> DEFINE n == size[p]
           run == [i \in 1 .. n |-> Message(p)]
<1>1. /\ n \in Nat /\ Len(stream') = Len(stream) + n /\ Message(p) \in Messages
      /\ stream' = stream \o run
  BY ReserveDistance DEF Reserve, Message, Messages
<1>2. stream \in Seq(Messages) /\ Len(stream) \in Nat
  BY DistanceInts DEF IInv, TypeOK
<1>3. run \in [1 .. n -> Messages]
  BY <1>1
<1>4. /\ \A i \in 1 .. Len(stream) : (stream \o run)[i] = stream[i]
      /\ \A i \in 1 .. n : (stream \o run)[Len(stream) + i] = run[i]
  <2> HIDE DEF run, n
  <2> QED BY <1>1, <1>2, <1>3, AppendRun
<1>5. ASSUME NEW i \in 1 .. Len(stream'), i > Len(stream) PROVE stream'[i] = Message(p)
  <2>1. i - Len(stream) \in 1 .. n /\ Len(stream) + (i - Len(stream)) = i
    BY <1>1, <1>2, <1>5
  <2> QED BY <1>1, <1>4, <2>1
<1> QED BY <1>1, <1>2, <1>4, <1>5

LEMMA ReserveStream ==
    ASSUME IInv, StreamInv, NEW p \in Producers, Reserve(p) PROVE StreamInv'
<1>1. /\ pc[p] = "sizing" /\ UNCHANGED <<head, size, acquires, output>>
      /\ \A q \in Producers : Message(q)' = Message(q)
      /\ \A q \in Producers : InLock(q)' => InLock(q)
  <2>1. \A q \in Producers : pc'[q] # pc[q] => pc'[q] \in {"reserved", "idle"}
    BY DEF Reserve, IInv, TypeOK
  <2> QED BY <2>1 DEF Reserve, Message, InLock
<1>2. \A q \in Producers, k \in 1 .. MaxAcquires : Asked(q, k) => Asked(q, k)'
  BY <1>1 DEF Asked
<1>3. Freed <= Len(output)
  BY DEF StreamInv
<1>4. CASE ~(Available(seenHead[p], candidateTail) >= size[p])
  <2>1. UNCHANGED <<candidateTail, buffer, stream>> /\ pc' = [pc EXCEPT ![p] = "idle"]
    BY <1>4 DEF Reserve
  <2>2. Freed' = Freed
    BY <1>1, <2>1 DEF Freed
  <2>3. \A q \in Producers : Position(q)' = Position(q) /\ (Holds(q)' => Holds(q))
    BY <1>1, <2>1, <2>2 DEF Position, Distance, Holds
  <2> QED BY <1>1, <1>2, <1>3, <2>1, <2>2, <2>3, StreamKept
<1>5. CASE Available(seenHead[p], candidateTail) >= size[p]
  <2>1. /\ buffer' = [buffer EXCEPT ![p] = candidateTail]
        /\ pc' = [pc EXCEPT ![p] = "reserved"]
    BY <1>5 DEF Reserve
  <2>2. /\ size[p] \in Nat /\ Len(stream) \in Nat
        /\ Len(stream') = Len(stream) + size[p]
        /\ \A i \in 1 .. Len(stream) : stream'[i] = stream[i]
        /\ \A i \in 1 .. Len(stream') : i > Len(stream) => stream'[i] = Message(p)
    BY <1>5, ReserveRun
  <2>3. Freed' = Freed /\ Position(p)' = Len(stream) /\ Freed \in Int
    <3>1. /\ Used(head, candidateTail') = Distance(candidateTail) + size[p]
          /\ Distance(candidateTail) \in Nat
      BY <1>5, ReserveDistance
    <3>2. Freed' = Freed
      BY <1>1, <2>2, <3>1 DEF Freed, Distance
    <3>3. Distance(buffer[p])' = Distance(candidateTail)
      BY <1>1, <2>1 DEF Distance, IInv, TypeOK
    <3> QED BY <3>2, <3>3, DistanceInts DEF Position
  <2>4. ASSUME NEW q \in Producers, q # p
        PROVE  /\ Position(q)' = Position(q) /\ (Holds(q)' => Holds(q))
               /\ Message(q) # Message(p)
    BY <2>4, <1>1, <2>1, <2>3 DEF Position, Distance, Holds, IInv, TypeOK, Message
  <2>5. ASSUME NEW q \in Producers, NEW k \in 1 .. MaxAcquires, ~Asked(q, k)',
               NEW i \in 1 .. Len(stream')
        PROVE  stream'[i] # <<q, k>>
    <3>1. CASE i <= Len(stream)
      <4>1. i \in 1 .. Len(stream) /\ stream'[i] = stream[i]
        BY <3>1, <2>2
      <4>2. ~Asked(q, k)
        BY <2>5, <1>2
      <4> QED BY <4>1, <4>2 DEF StreamInv
    <3>2. CASE i > Len(stream)
      <4>1. acquires'[p] = acquires[p] /\ ~InLock(p)'
        BY <1>1, <2>1 DEF InLock, IInv, TypeOK
      <4>2. stream'[i] = <<p, acquires[p]>>
        BY <3>2, <2>2 DEF Message
      <4>3. ASSUME stream'[i] = <<q, k>> PROVE FALSE
        <5>1. q = p /\ k = acquires[p]
          BY <4>2, <4>3
        <5> QED BY <2>5, <4>1, <5>1 DEF Asked
      <4> QED BY <4>3
    <3> QED BY <3>1, <3>2, <2>2
  <2>6. ASSUME NEW q \in Producers, Holds(q)', NEW i \in 1 .. Len(stream'),
               stream'[i] = Message(q)'
        PROVE  i \in Position(q)' + 1 .. Position(q)' + size'[q]
    <3>1. CASE i <= Len(stream)
      <4>1. i \in 1 .. Len(stream) /\ stream[i] = Message(q)
        BY <3>1, <2>2, <2>6, <1>1
      <4>2. q # p
        BY <4>1, ReserveFresh
      <4> QED BY <4>1, <4>2, <2>4, <2>6, <1>1 DEF StreamInv
    <3>2. CASE i > Len(stream)
      <4>1. q = p
        BY <3>2, <2>2, <2>4, <2>6, <1>1
      <4> QED BY <3>2, <4>1, <2>2, <2>3, <1>1
    <3> QED BY <3>1, <3>2, <2>2
  <2> QED BY <1>1, <1>3, <2>3, <2>5, <2>6 DEF StreamInv
<1> QED BY <1>4, <1>5

\* A step of the producers that reserves nothing.
LEMMA ProducerStream ==
    ASSUME IInv, StreamInv, NEW p \in Producers,
           Lock(p) \/ ReadHead(p) \/ Write(p) \/ Release(p)
    PROVE  StreamInv'
<1>1. /\ UNCHANGED <<head, candidateTail, buffer, stream, output>>
      /\ \A q \in Producers : q # p => /\ pc'[q] = pc[q] /\ size'[q] = size[q]
                                       /\ acquires'[q] = acquires[q]
      /\ acquires[p] \in Nat /\ acquires'[p] \in Nat
  BY RingAssumption DEF Lock, ReadHead, Write, Release, ring, history, IInv, TypeOK
<1>2. /\ InLock(p)' => InLock(p) \/ acquires'[p] = acquires[p] + 1
      /\ acquires'[p] >= acquires[p]
      /\ Holds(p)' => Holds(p) /\ size'[p] = size[p] /\ acquires'[p] = acquires[p]
  BY <1>1 DEF Lock, ReadHead, Write, Release, InLock, Holds, history, IInv, TypeOK
<1>3. \A q \in Producers, k \in 1 .. MaxAcquires : Asked(q, k) => Asked(q, k)'
  BY <1>1, <1>2 DEF Asked, InLock
<1>4. Freed' = Freed /\ Freed <= Len(output)
  BY <1>1 DEF Freed, StreamInv
<1>5. ASSUME NEW q \in Producers, Holds(q)'
      PROVE  /\ Holds(q) /\ Message(q)' = Message(q)
             /\ size'[q] = size[q] /\ Position(q)' = Position(q)
  BY <1>1, <1>2, <1>4, <1>5 DEF Holds, Message, Position, Distance
<1> QED BY <1>1, <1>3, <1>4, <1>5, StreamKept

\* The consumer moves head, and with it what distances are measured from.
LEMMA ConsumeStream ==
    ASSUME IInv, StreamInv, NEW accepted \in BOOLEAN, Consume(accepted) PROVE StreamInv'
<1>1. /\ UNCHANGED <<candidateTail, pc, size, buffer, acquires, stream>>
      /\ head' = IF accepted THEN tail ELSE head
      /\ consumer = "consume" /\ Len(output) = Freed
  BY DEF Consume, threads, IInv, CountInv
<1>2. Len(output') = Len(output) + Distance(tail) /\ Distance(tail) \in Nat
  BY <1>1, BatchOutput DEF Consume
<1>3. /\ Freed \in Int /\ Freed' \in {Freed, Freed + Distance(tail)}
      /\ \A q \in Producers : Holds(q) => Position(q)' = Position(q)
  <2>1. CASE ~accepted
    BY <1>1, <2>1, DistanceInts DEF Freed, Position, Distance
  <2>2. CASE accepted
    <3>1. /\ Distance(candidateTail)' = Distance(candidateTail) - Distance(tail)
          /\ \A q \in Producers : Holds(q) =>
                Distance(buffer[q])' = Distance(buffer[q]) - Distance(tail)
      BY <2>2, AcceptDistance
    <3>2. Freed' = Freed + Distance(tail) /\ Freed \in Int
      BY <1>1, <1>2, <3>1, DistanceInts DEF Freed, Distance
    <3>3. ASSUME NEW q \in Producers PROVE Distance(buffer[q]) \in Int
      BY UsedInt DEF IInv, TypeOK, Distance
    <3> QED BY <1>2, <3>1, <3>2, <3>3 DEF Position
  <2> QED BY <2>1, <2>2
<1>4. Freed' <= Len(output')
  BY <1>1, <1>2, <1>3
<1>5. /\ \A q \in Producers, k \in 1 .. MaxAcquires : Asked(q, k) => Asked(q, k)'
      /\ \A q \in Producers : (Holds(q)' <=> Holds(q)) /\ Message(q)' = Message(q)
  BY <1>1 DEF Asked, InLock, Holds, Message
<1> QED BY <1>1, <1>3, <1>4, <1>5, StreamKept

LEMMA NextStreamInv == IInv /\ StreamInv /\ [Next]_vars => StreamInv'
<1> SUFFICES ASSUME IInv, StreamInv, [Next]_vars PROVE StreamInv'
  OBVIOUS
<1>1. ASSUME \/ TestShutdown \/ TestEmpty \/ LoadTail \/ Stop \/ Done \/ ReleaseRing \/ Unmap
             \/ UNCHANGED vars
      PROVE  StreamInv'
  <2>1. UNCHANGED <<head, candidateTail, stream, output, pc, acquires, buffer, size>>
    BY <1>1 DEF TestShutdown, TestEmpty, LoadTail, Stop, Done, ReleaseRing, Unmap, vars,
                ring, threads, history
  <2> QED BY <2>1 DEF StreamInv, Asked, InLock, Holds, Message, Position, Distance, Freed
<1>2. ASSUME NEW p \in Producers, Producer(p) PROVE StreamInv'
  BY <1>2, ProducerStream, ReserveStream DEF Producer
<1>3. ASSUME NEW accepted \in BOOLEAN, Consume(accepted) PROVE StreamInv'
  BY <1>3, ConsumeStream
<1> QED BY <1>1, <1>2, <1>3 DEF Next, Consumer

-------------------------------------------------------------------------------
(* Every step of the ring is a step of the stream.                         *)

LEMMA InitImplements == Init => Stream!Init
<1>1. Used(0, 0) = 0 /\ Len(<<>>) = 0
  BY EmptySeq DEF Used
<1> QED BY <1>1 DEF Init, Stream!Init, Published, Freed

\* The region fits although head may be stale, and the message is a new one.
LEMMA ReserveImplements ==
    ASSUME IInv, StreamInv, NEW p \in Producers, Reserve(p)
    PROVE  Stream!Next \/ UNCHANGED Stream!vars
<1>1. CASE ~(Available(seenHead[p], candidateTail) >= size[p])
  BY <1>1 DEF Reserve, Stream!vars, Published, Freed
<1>2. CASE Available(seenHead[p], candidateTail) >= size[p]
  <2>1. /\ size[p] \in Nat /\ size[p] > 0 /\ acquires[p] \in 1 .. MaxAcquires
        /\ Distance(candidateTail) \in Nat
        /\ Distance(candidateTail) + size[p] <= Size - 1
        /\ Used(head, candidateTail') = Distance(candidateTail) + size[p]
        /\ Len(stream') = Len(stream) + size[p]
    BY <1>2, ReserveDistance
  <2>2. Message(p) \in Messages /\ size[p] \in 1 .. Size - 1
    BY <2>1, RingAssumption DEF Message, Messages
  <2>3. Len(stream) + size[p] <= Len(output) + (Size - 1)
    BY <2>1, DistanceInts, FreedNat, RingAssumption DEF StreamInv
  <2>4. UNCHANGED <<Published, output>>
    <3>1. UNCHANGED <<head, currentTail, output>>
      BY DEF Reserve
    <3>2. Freed' = Freed
      BY <2>1, <3>1, DistanceInts DEF Freed, Distance
    <3> QED BY <3>1, <3>2 DEF Published
  <2>5. \A i \in DOMAIN stream : stream[i] # Message(p)
    BY ReserveFresh DEF IInv, TypeOK
  <2>6. stream' = stream \o [i \in 1 .. size[p] |-> Message(p)]
    BY <1>2 DEF Reserve
  <2>7. Stream!Reserve(Message(p), size[p])
    BY <2>3, <2>4, <2>5, <2>6 DEF Stream!Reserve
  <2> QED BY <2>2, <2>7 DEF Stream!Next
<1> QED BY <1>1, <1>2

\* The CAS succeeds for the oldest region only, and publishes all of it.
LEMMA ReleaseImplements ==
    ASSUME IInv, DataInv, StreamInv, NEW p \in Producers, Release(p)
    PROVE  Stream!Next
<1> DEFINE n == size[p]
           e == Distance(currentTail)
<1>1. /\ Holds(p) /\ n \in Nat /\ n > 0 /\ e \in Nat
      /\ e + n <= Distance(candidateTail)
      /\ Used(head, currentTail') = e + n
      /\ currentTail = buffer[p]
      /\ UNCHANGED <<head, candidateTail, stream, output>>
  BY ReleaseDistance DEF Release, history
<1>2. /\ Freed \in Nat /\ Len(stream) \in Nat
      /\ Freed + Distance(candidateTail) = Len(stream) /\ Distance(candidateTail) \in Nat
  BY DistanceInts, FreedNat
<1>3. Published = Freed + e /\ Published' = Freed + e + n /\ Position(p) = Freed + e
  BY <1>1, <1>2 DEF Published, Freed, Position, Distance
<1>4. /\ Published \in Nat /\ Published < Len(stream)
      /\ Published' \in Published + 1 .. Len(stream)
  BY <1>1, <1>2, <1>3
<1>5. ASSUME NEW i \in Published + 1 .. Published' PROVE stream[i] = Message(p)
  <2>1. i - Published - 1 \in 0 .. n - 1
    BY <1>1, <1>3, <1>4
  <2>2. Freed + Distance(buffer[p]) + (i - Published - 1) + 1 = i
    BY <1>1, <1>2, <1>3
  <2>3. stream[Freed + Distance(buffer[p]) + (i - Published - 1) + 1] = Message(p)
    BY <1>1, <2>1 DEF DataInv
  <2> QED BY <2>2, <2>3
<1>6. ASSUME NEW i \in 1 .. Len(stream), stream[i] = Message(p)
      PROVE  i \in Published + 1 .. Published'
  <2>1. i \in Position(p) + 1 .. Position(p) + n
    BY <1>1, <1>6 DEF StreamInv
  <2> QED BY <1>3, <2>1
<1>7. stream[Published + 1] = Message(p)
  BY <1>1, <1>3, <1>4, <1>5
<1>8. \A i \in 1 .. Len(stream) :
          (stream[i] = stream[Published + 1]) <=> (i \in Published + 1 .. Published')
  BY <1>5, <1>6, <1>7
<1> QED BY <1>1, <1>4, <1>8 DEF Stream!Next, Stream!Publish

LEMMA InOrderNext == (IInv /\ DataInv => InOrder)'
BY InOrderFromInvariant, PTL

\* consumeFunc is handed the bytes of the stream that follow those it was handed before.
LEMMA ConsumeImplements ==
    ASSUME IInv, DataInv, NEW accepted \in BOOLEAN, Consume(accepted)
    PROVE  Stream!Next
<1> DEFINE d == Distance(tail)
<1>1. /\ consumer = "consume" /\ UNCHANGED <<candidateTail, currentTail, stream>>
      /\ head' = IF accepted THEN tail ELSE head
      /\ Len(output) = Freed /\ 0 < d /\ d <= Distance(currentTail)
  BY DEF Consume, IInv, CountInv, BatchInv
<1>2. Len(output') = Len(output) + d /\ d \in Nat
  BY <1>1, BatchOutput DEF Consume
<1>3. Len(output') \in Len(output) + 1 .. Published
  BY <1>1, <1>2, DistanceInts, FreedNat DEF Published, Distance
<1>4. output' = SubSeq(stream, 1, Len(output'))
  <2>1. IInv' /\ DataInv'
    <3>1. [Next]_vars
      BY DEF Next, Consumer
    <3> QED BY <3>1, NextIInv, NextDataInv
  <2> QED BY <1>1, <2>1, InOrderNext DEF InOrder
<1>5. Published' = Published
  <2>1. CASE ~accepted
    BY <1>1, <2>1 DEF Published, Freed
  <2>2. CASE accepted
    <3>1. /\ Distance(candidateTail)' = Distance(candidateTail) - d
          /\ Distance(currentTail)' = Distance(currentTail) - d
      BY <2>2, AcceptDistance
    <3> QED BY <1>1, <1>2, <3>1, DistanceInts DEF Published, Freed, Distance
  <2> QED BY <2>1, <2>2
<1> QED BY <1>1, <1>3, <1>4, <1>5 DEF Stream!Next, Stream!Deliver

LEMMA NextImplements ==
    ASSUME IInv, DataInv, StreamInv, [Next]_vars PROVE [Stream!Next]_(Stream!vars)
<1>1. ASSUME \/ \E p \in Producers : Lock(p) \/ ReadHead(p) \/ Write(p)
             \/ TestShutdown \/ TestEmpty \/ LoadTail \/ Stop \/ Done \/ ReleaseRing \/ Unmap
             \/ UNCHANGED vars
      PROVE  UNCHANGED Stream!vars
  <2>1. UNCHANGED <<head, candidateTail, currentTail, stream, output>>
    BY <1>1 DEF Lock, ReadHead, Write, TestShutdown, TestEmpty, LoadTail, Stop, Done,
                ReleaseRing, Unmap, vars, ring, history
  <2> QED BY <2>1 DEF Stream!vars, Published, Freed
<1>2. ASSUME NEW p \in Producers, Reserve(p) \/ Release(p)
      PROVE  Stream!Next \/ UNCHANGED Stream!vars
  BY <1>2, ReserveImplements, ReleaseImplements
<1>3. ASSUME NEW accepted \in BOOLEAN, Consume(accepted) PROVE Stream!Next
  BY <1>3, ConsumeImplements
<1> QED BY <1>1, <1>2, <1>3 DEF Next, Producer, Consumer

\* The users of the ring see one stream of bytes, whose space is reserved in some order,
\* published message by message in that order, and handed to consumeFunc once.
THEOREM Refinement == Spec => ImplementsStream
<1>1. Spec => []IInv
  BY Invariance
<1>2. Spec => []DataInv
  BY <1>1, InitDataInv, NextDataInv, PTL DEF Spec
<1>3. Spec => []StreamInv
  BY <1>1, InitStreamInv, NextStreamInv, PTL DEF Spec
<1>4. IInv /\ DataInv /\ StreamInv /\ [Next]_vars => [Stream!Next]_(Stream!vars)
  BY NextImplements
<1> QED
  BY <1>1, <1>2, <1>3, <1>4, InitImplements, PTL DEF Spec, ImplementsStream, Stream!Spec
===============================================================================

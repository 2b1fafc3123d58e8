----------------------------- MODULE EdgeLoopProofs -----------------------------
(***************************************************************************)
(* The pending arrays, the watchers and the kernel agree whatever          *)
(* callbacks do, for any finite set of watchers: IInv is inductive, and it *)
(* implies the safety properties of EdgeLoop.                              *)
(***************************************************************************)
EXTENDS EdgeLoop, SequenceTheorems, FunctionTheorems, FiniteSetTheorems, TLAPS

Slots == Watchers \union {Null}

\* What the type invariant says of the pending arrays, and of the one in work.
LEMMA ArrayTypes ==
    ASSUME TypeOK
    PROVE  /\ last \in 0 .. 1 /\ last # currentPending /\ currentPending \in 0 .. 1
           /\ slot \in Nat \ {0}
           /\ \A a \in 0 .. 1 : /\ pending[a] \in Seq(Slots)
                                /\ Len(pending[a]) \in Nat
                                /\ DOMAIN pending[a] = 1 .. Len(pending[a])
                                /\ \A n \in 1 .. Len(pending[a]) : pending[a][n] \in Slots
           /\ \A w \in Watchers : place[w].array \in 0 .. 1 /\ place[w].position \in Nat \ {0}
<1>1. \A a \in 0 .. 1 : pending[a] \in Seq(Slots)
  BY DEF TypeOK, Slots
<1>2. \A a \in 0 .. 1 : /\ Len(pending[a]) \in Nat
                        /\ DOMAIN pending[a] = 1 .. Len(pending[a])
                        /\ \A n \in 1 .. Len(pending[a]) : pending[a][n] \in Slots
  BY <1>1, LenProperties, ElementOfSeq
<1> QED BY <1>1, <1>2 DEF TypeOK, last

\* A step that leaves the arrays and the places alone, and neither gives events to a
\* watcher that had none nor takes the last.
LEMMA QueueKept ==
    ASSUME TypeOK, QueueInv, UNCHANGED <<place, pending, currentPending, slot>>,
           \A w \in Watchers : pendingEvents'[w] = {} <=> pendingEvents[w] = {}
    PROVE  QueueInv'
<1>1. \A a \in 0 .. 1, n \in Nat : Due(a, n)' <=> Due(a, n)
  BY DEF Due, last
<1>2. \A a \in 0 .. 1 : \A n \in DOMAIN pending[a] :
         n \in Nat /\ (pending[a][n] # Null => pending[a][n] \in Watchers)
  BY ArrayTypes DEF Slots
<1>3. \A w \in Watchers : pendingEvents'[w] # {} =>
         /\ Due(place[w].array, place[w].position)'
         /\ pending'[place'[w].array][place'[w].position] = w
  BY DEF QueueInv, Due, last
<1>4. \A a \in 0 .. 1 : \A n \in DOMAIN pending'[a] : Due(a, n)' /\ pending'[a][n] # Null =>
         /\ pendingEvents'[pending'[a][n]] # {}
         /\ place'[pending'[a][n]].array = a /\ place'[pending'[a][n]].position = n
  BY <1>1, <1>2 DEF QueueInv
<1> QED BY <1>3, <1>4 DEF QueueInv

\* swEdgeLoopWatcherRemove empties the one slot that holds a pending watcher.
LEMMA RemoveQueue ==
    ASSUME TypeOK, QueueInv, NEW w \in Watchers, WatcherRemove(w),
           UNCHANGED <<place, currentPending, slot>>
    PROVE  /\ QueueInv'
           /\ pending' \in [0 .. 1 -> Seq(Slots)]
           /\ pendingEvents' = [pendingEvents EXCEPT ![w] = {}]
           /\ \A a \in 0 .. 1 : Len(pending'[a]) = Len(pending[a])
           /\ \A a \in 0 .. 1 : \A n \in 1 .. Len(pending[a]) :
                 pending'[a][n] \in {pending[a][n], Null}
           /\ \A a \in 0 .. 1 : \A n \in 1 .. Len(pending[a]) :
                 Due(a, n) => pending'[a][n] # w
<1> DEFINE b == place[w].array
           m == place[w].position
<1>1. /\ b \in 0 .. 1 /\ m \in Nat \ {0} /\ last \in 0 .. 1 /\ last' = last
      /\ \A a \in 0 .. 1 : /\ pending[a] \in Seq(Slots)
                           /\ Len(pending[a]) \in Nat
                           /\ DOMAIN pending[a] = 1 .. Len(pending[a])
  BY ArrayTypes DEF last
<1>2. CASE pendingEvents[w] # {}
  <2>1. Due(b, m) /\ pending[b][m] = w /\ m \in 1 .. Len(pending[b])
    BY <1>1, <1>2 DEF QueueInv, Due
  <2>2. /\ pending' = [pending EXCEPT ![b][m] = Null]
        /\ pendingEvents' = [pendingEvents EXCEPT ![w] = {}]
    BY <1>1, <1>2, <2>1 DEF WatcherRemove
  <2>3. /\ [pending[b] EXCEPT ![m] = Null] \in Seq(Slots)
        /\ Len([pending[b] EXCEPT ![m] = Null]) = Len(pending[b])
        /\ \A n \in 1 .. Len(pending[b]) :
              [pending[b] EXCEPT ![m] = Null][n] = IF n = m THEN Null ELSE pending[b][n]
    BY <1>1, <2>1, ExceptSeq DEF Slots
  <2>4. pending' = [pending EXCEPT ![b] = [pending[b] EXCEPT ![m] = Null]]
    BY <1>1, <2>2 DEF TypeOK
  <2>5. pending' \in [0 .. 1 -> Seq(Slots)]
    BY <2>3, <2>4 DEF TypeOK, Slots
  <2>6. \A a \in 0 .. 1 : /\ Len(pending'[a]) = Len(pending[a])
                          /\ DOMAIN pending'[a] = DOMAIN pending[a]
    BY <1>1, <2>3, <2>4, LenProperties DEF TypeOK, Slots
  <2>7. \A a \in 0 .. 1 : \A n \in 1 .. Len(pending[a]) :
           pending'[a][n] = IF a = b /\ n = m THEN Null ELSE pending[a][n]
    BY <1>1, <2>3, <2>4 DEF TypeOK
  <2>8. \A a \in 0 .. 1 : \A n \in 1 .. Len(pending[a]) :
           Due(a, n) /\ pending[a][n] = w => a = b /\ n = m
    BY <1>1, <1>2, EdgeLoopAssumption DEF QueueInv
  <2>9. \A a \in 0 .. 1 : \A n \in 1 .. Len(pending[a]) : Due(a, n)' <=> Due(a, n)
    BY <1>1, <2>6 DEF Due
  <2>10. QueueInv'
    <3>1. ASSUME NEW v \in Watchers, pendingEvents'[v] # {}
          PROVE  /\ Due(place[v].array, place[v].position)'
                 /\ pending'[place[v].array][place[v].position] = v
      <4>1. v # w /\ pendingEvents[v] # {}
        BY <2>2, <3>1 DEF TypeOK
      <4>2. /\ Due(place[v].array, place[v].position)
            /\ pending[place[v].array][place[v].position] = v
            /\ place[v].array \in 0 .. 1
        BY <4>1, ArrayTypes DEF QueueInv
      <4>3. place[v].position \in 1 .. Len(pending[place[v].array])
        BY <4>2, <1>1 DEF Due
      <4>4. ~(place[v].array = b /\ place[v].position = m)
        BY <4>1, <4>2, <2>1
      <4> QED BY <4>2, <4>3, <4>4, <2>7, <2>9
    <3>2. ASSUME NEW a \in 0 .. 1, NEW n \in 1 .. Len(pending[a]),
                 Due(a, n)', pending'[a][n] # Null
          PROVE  /\ pendingEvents'[pending'[a][n]] # {}
                 /\ place[pending'[a][n]].array = a /\ place[pending'[a][n]].position = n
      <4>1. /\ pending'[a][n] = pending[a][n] /\ ~(a = b /\ n = m) /\ Due(a, n)
        BY <3>2, <2>7, <2>9
      <4>2. pending[a][n] # w
        BY <4>1, <2>8
      <4>3. /\ pendingEvents[pending[a][n]] # {}
            /\ place[pending[a][n]].array = a /\ place[pending[a][n]].position = n
        BY <4>1, <3>2, <1>1 DEF QueueInv
      <4>4. pending[a][n] \in Watchers
        BY <3>2, <4>1, ArrayTypes DEF Slots
      <4>5. pendingEvents'[pending[a][n]] = pendingEvents[pending[a][n]]
        BY <4>2, <4>4, <2>2 DEF TypeOK
      <4> QED BY <4>1, <4>3, <4>5
    <3>3. \A a \in 0 .. 1 : DOMAIN pending'[a] = 1 .. Len(pending[a])
      BY <1>1, <2>6
    <3>4. \A v \in Watchers : pendingEvents'[v] # {} =>
             /\ Due(place[v].array, place[v].position)'
             /\ pending'[place'[v].array][place'[v].position] = v
      BY <3>1
    <3>5. \A a \in 0 .. 1 : \A n \in DOMAIN pending'[a] : Due(a, n)' /\ pending'[a][n] # Null =>
             /\ pendingEvents'[pending'[a][n]] # {}
             /\ place'[pending'[a][n]].array = a /\ place'[pending'[a][n]].position = n
      <4> TAKE a \in 0 .. 1
      <4> TAKE n \in DOMAIN pending'[a]
      <4> HAVE Due(a, n)' /\ pending'[a][n] # Null
      <4>1. n \in 1 .. Len(pending[a])
        BY <3>3
      <4> QED BY <4>1, <3>2
    <3> HIDE DEF b, m
    <3> QED BY <3>4, <3>5 DEF QueueInv
  <2>11. \A a \in 0 .. 1 : \A n \in 1 .. Len(pending[a]) : pending'[a][n] \in {pending[a][n], Null}
    BY <2>7
  <2>12. \A a \in 0 .. 1 : \A n \in 1 .. Len(pending[a]) : Due(a, n) => pending'[a][n] # w
    BY <2>7, <2>8, EdgeLoopAssumption
  <2> QED BY <2>2, <2>5, <2>6, <2>10, <2>11, <2>12
<1>3. CASE pendingEvents[w] = {}
  <2>1. UNCHANGED <<pending, pendingEvents>>
    BY <1>3 DEF WatcherRemove
  <2>2. pendingEvents' = [pendingEvents EXCEPT ![w] = {}]
    BY <1>3, <2>1 DEF TypeOK
  <2>3. \A a \in 0 .. 1 : \A n \in 1 .. Len(pending[a]) : Due(a, n) => pending[a][n] # w
    BY <1>1, <1>3, EdgeLoopAssumption DEF QueueInv
  <2>4. QueueInv'
    BY <2>1, QueueKept
  <2> QED BY <2>1, <2>2, <2>3, <2>4 DEF TypeOK, Slots
<1> QED BY <1>2, <1>3

\* A watcher that is not pending goes behind the last slot of the current array.
LEMMA EnqueueQueue ==
    ASSUME TypeOK, QueueInv, NEW w \in Watchers, NEW events \in SUBSET Events,
           pendingEvents[w] = {}, events # {}, Enqueue(w, events),
           UNCHANGED <<currentPending, slot>>
    PROVE  /\ QueueInv'
           /\ pending' \in [0 .. 1 -> Seq(Slots)]
           /\ pending'[last] = pending[last]
           /\ place' \in [Watchers -> [array : 0 .. 1, position : Nat \ {0}]]
           /\ pendingEvents' = [pendingEvents EXCEPT ![w] = events]
<1> DEFINE b == currentPending
           m == Len(pending[currentPending]) + 1
<1>1. /\ b \in 0 .. 1 /\ last \in 0 .. 1 /\ last' = last /\ last # b /\ m \in Nat \ {0}
      /\ \A a \in 0 .. 1 : /\ pending[a] \in Seq(Slots)
                           /\ Len(pending[a]) \in Nat
                           /\ DOMAIN pending[a] = 1 .. Len(pending[a])
  BY ArrayTypes DEF last
<1>2. /\ pending' = [pending EXCEPT ![b] = Append(pending[b], w)]
      /\ place' = [place EXCEPT ![w] = [array |-> b, position |-> m]]
      /\ pendingEvents' = [pendingEvents EXCEPT ![w] = events]
  BY DEF Enqueue
<1>3. /\ Append(pending[b], w) \in Seq(Slots)
      /\ Len(Append(pending[b], w)) = m
      /\ \A n \in 1 .. m : Append(pending[b], w)[n] = IF n = m THEN w ELSE pending[b][n]
  BY <1>1, AppendProperties DEF Slots
<1>4. /\ pending' \in [0 .. 1 -> Seq(Slots)]
      /\ pending'[last] = pending[last]
      /\ pending'[b] = Append(pending[b], w)
  BY <1>1, <1>2, <1>3 DEF TypeOK, Slots
<1>5. place' \in [Watchers -> [array : 0 .. 1, position : Nat \ {0}]]
  BY <1>1, <1>2 DEF TypeOK
<1>6. DOMAIN pending'[b] = 1 .. m /\ DOMAIN pending'[last] = 1 .. Len(pending[last])
  BY <1>1, <1>3, <1>4, LenProperties
<1>7. \A a \in 0 .. 1, n \in Nat : Due(a, n) => Due(a, n)'
  BY <1>1, <1>4, <1>6 DEF Due
<1>8. \A a \in 0 .. 1 : \A n \in DOMAIN pending'[a] :
         \/ a = b /\ n = m
         \/ n \in DOMAIN pending[a] /\ (Due(a, n)' => Due(a, n))
  BY <1>1, <1>4, <1>6 DEF Due
<1>9. \A a \in 0 .. 1 : \A n \in DOMAIN pending[a] : pending'[a][n] = pending[a][n]
  <2>1. \A n \in DOMAIN pending[b] : n \in 1 .. m /\ n # m
    BY <1>1
  <2>2. \A n \in DOMAIN pending[b] : pending'[b][n] = pending[b][n]
    BY <2>1, <1>3, <1>4
  <2>3. \A n \in DOMAIN pending[last] : pending'[last][n] = pending[last][n]
    BY <1>4
  <2>4. \A a \in 0 .. 1 : a = b \/ a = last
    BY <1>1 DEF last
  <2> QED BY <2>2, <2>3, <2>4
<1>10. ASSUME NEW v \in Watchers, pendingEvents'[v] # {}
      PROVE  /\ Due(place[v].array, place[v].position)'
             /\ pending'[place'[v].array][place'[v].position] = v
  <2>1. CASE v = w
    <3>1. place'[v].array = b /\ place'[v].position = m /\ b' = b
      BY <2>1, <1>2 DEF TypeOK
    <3>2. m \in 1 .. m
      BY <1>1
    <3>3. m \in DOMAIN pending'[b] /\ b # last' /\ pending'[b][m] = w
      BY <3>2, <1>1, <1>3, <1>4, <1>6
    <3> HIDE DEF m, b
    <3> QED BY <2>1, <3>1, <3>3 DEF Due
  <2>2. CASE v # w
    <3>1. place'[v] = place[v] /\ pendingEvents[v] # {}
      BY <2>2, <1>2, <1>10 DEF TypeOK
    <3>2. PICK a \in 0 .. 1, n \in Nat : a = place[v].array /\ n = place[v].position
      BY ArrayTypes
    <3>3. Due(a, n) /\ pending[a][n] = v
      BY <3>1, <3>2 DEF QueueInv
    <3>4. Due(a, n)'
      BY <3>3, <1>7
    <3>5. pending'[a][n] = v
      BY <3>3, <1>9 DEF Due
    <3> QED BY <3>1, <3>2, <3>4, <3>5 DEF Due
  <2> QED BY <2>1, <2>2
<1>11. ASSUME NEW a \in 0 .. 1, NEW n \in DOMAIN pending'[a], Due(a, n)', pending'[a][n] # Null
       PROVE  /\ pendingEvents'[pending'[a][n]] # {}
              /\ place'[pending'[a][n]].array = a /\ place'[pending'[a][n]].position = n
  <2>1. CASE a = b /\ n = m
    <3>1. pending'[a][n] = w
      BY <2>1, <1>1, <1>3, <1>4
    <3> QED BY <3>1, <2>1, <1>2 DEF TypeOK
  <2>2. CASE ~(a = b /\ n = m)
    <3>1. n \in DOMAIN pending[a] /\ Due(a, n) /\ pending'[a][n] = pending[a][n]
      BY <2>2, <1>8, <1>9, <1>11
    <3>2. /\ pendingEvents[pending[a][n]] # {}
          /\ place[pending[a][n]].array = a /\ place[pending[a][n]].position = n
      BY <3>1, <1>11 DEF QueueInv
    <3>3. pending[a][n] \in Watchers
      BY <3>1, <1>1, <1>11, ArrayTypes DEF Slots
    <3>4. pending[a][n] # w
      BY <3>2
    <3>5. /\ pendingEvents'[pending[a][n]] = pendingEvents[pending[a][n]]
          /\ place'[pending[a][n]] = place[pending[a][n]]
      BY <3>3, <3>4, <1>2 DEF TypeOK
    <3> QED BY <3>1, <3>2, <3>5
  <2> QED BY <2>1, <2>2
<1>12. QueueInv'
  BY <1>10, <1>11 DEF QueueInv
<1> QED BY <1>2, <1>4, <1>5, <1>12

\* An order of a finite set has each of its members once.
LEMMA OrderOnce ==
    ASSUME NEW S, IsFiniteSet(S), NEW order \in Orders(S)
    PROVE  /\ Cardinality(S) \in Nat
           /\ order \in [1 .. Cardinality(S) -> S]
           /\ order \in Seq(S) /\ Len(order) = Cardinality(S)
           /\ \A w \in S : \E n \in 1 .. Cardinality(S) : order[n] = w
           /\ \A m, n \in 1 .. Cardinality(S) : order[m] = order[n] => m = n
<1> DEFINE k == Cardinality(S)
<1>1. k \in Nat
  BY FS_CardinalityType
<1>2. /\ order \in [1 .. k -> S]
      /\ \A w \in S : \E n \in 1 .. k : order[n] = w
  BY DEF Orders
<1>3. order \in Seq(S) /\ Len(order) = k
  BY <1>1, <1>2
<1>4. IsFiniteSet(1 .. k) /\ Cardinality(1 .. k) = k
  BY <1>1, FS_Interval
<1>5. order \in Surjection(1 .. k, S)
  BY <1>2, Fun_IsSurj
<1>6. order \in Injection(1 .. k, S)
  BY <1>4, <1>5, FS_SurjSameCardinalityImpliesInj
<1>7. \A m, n \in 1 .. k : order[m] = order[n] => m = n
  BY <1>2, <1>6 DEF Injection, IsInjective
<1> QED BY <1>1, <1>2, <1>3, <1>7

\* epoll_wait reports watchers that are ready.
LEMMA ReportedReady ==
    ASSUME NEW reported \in Reports
    PROVE  /\ reported \subseteq Watchers
           /\ \A w \in reported : ready[w] # {}
           /\ IsFiniteSet(Fresh(reported)) /\ Fresh(reported) \subseteq Watchers
<1>1. reported \subseteq {w \in Watchers : ready[w] # {}}
  BY DEF Reports
<1>2. Fresh(reported) \in SUBSET Watchers
  BY <1>1 DEF Fresh
<1> QED BY <1>1, <1>2, FS_Subset, EdgeLoopAssumption

\* A sequence with another one appended.
LEMMA ConcatShape ==
    ASSUME NEW S, NEW s \in Seq(S), NEW t \in Seq(S), NEW q, q = s \o t
    PROVE  /\ q \in Seq(S) /\ Len(q) = Len(s) + Len(t)
           /\ DOMAIN q = 1 .. Len(s) + Len(t)
           /\ \A n \in 1 .. Len(s) + Len(t) : q[n] = IF n <= Len(s) THEN s[n] ELSE t[n - Len(s)]
<1>1. /\ s \o t \in Seq(S) /\ Len(s \o t) = Len(s) + Len(t)
      /\ \A n \in 1 .. Len(s) + Len(t) :
            (s \o t)[n] = IF n <= Len(s) THEN s[n] ELSE t[n - Len(s)]
  BY ConcatProperties, Zenon
<1>2. DOMAIN (s \o t) = 1 .. Len(s) + Len(t)
  BY <1>1, LenProperties, Zenon
<1> QED BY <1>1, <1>2, Zenon

\* queue is cur, of length l, with the k members of F behind it in an order.
Behind(F, k, order, l, cur, queue) ==
    /\ k \in Nat /\ l \in Nat
    /\ \A n \in 1 .. k : order[n] \in F
    /\ \A w \in F : \E n \in 1 .. k : order[n] = w
    /\ \A m, n \in 1 .. k : order[m] = order[n] => m = n
    /\ \A n \in 1 .. l : cur[n] \notin F
    /\ DOMAIN queue = 1 .. l + k
    /\ \A n \in 1 .. l + k : queue[n] = IF n <= l THEN cur[n] ELSE order[n - l]

\* The queue once an order of fresh watchers is appended: each of them has one place in
\* it, behind what was there.
LEMMA AppendedOnce ==
    ASSUME NEW F, NEW k, NEW order, NEW l, NEW cur, NEW queue,
           Behind(F, k, order, l, cur, queue)
    PROVE  /\ \A n \in 1 .. l : n \in DOMAIN queue /\ queue[n] = cur[n]
           /\ \A n \in DOMAIN queue : n \notin 1 .. l => queue[n] \in F
           /\ \A w \in F : \E n \in DOMAIN queue :
                 queue[n] = w /\ \A m \in DOMAIN queue : queue[m] = w => m = n
<1> USE DEF Behind
<1>1. \A n \in 1 .. l : n \in DOMAIN queue /\ queue[n] = cur[n]
  OBVIOUS
<1>2. \A n \in DOMAIN queue : n \notin 1 .. l => n - l \in 1 .. k /\ queue[n] = order[n - l]
  OBVIOUS
<1>3. \A n \in DOMAIN queue : n \notin 1 .. l => queue[n] \in F
  BY <1>2
<1>4. ASSUME NEW w \in F
      PROVE  \E n \in DOMAIN queue :
                queue[n] = w /\ \A m \in DOMAIN queue : queue[m] = w => m = n
  <2>1. PICK i \in 1 .. k : order[i] = w
    OBVIOUS
  <2>2. i + l \in 1 .. l + k /\ ~(i + l <= l) /\ (i + l) - l = i
    OBVIOUS
  <2>3. i + l \in DOMAIN queue /\ queue[i + l] = w
    BY <2>1, <2>2
  <2>4. ASSUME NEW m \in DOMAIN queue, queue[m] = w
        PROVE  m = i + l
    <3>1. m \notin 1 .. l
      BY <2>4, <1>1
    <3>2. m - l \in 1 .. k /\ order[m - l] = order[i]
      BY <2>1, <2>4, <3>1, <1>2
    <3>3. m - l = i
      BY <3>2
    <3> QED BY <3>3
  <2> QED BY <2>3, <2>4
<1> QED BY <1>1, <1>3, <1>4

\* A first pass leaves what was in the current array c in its slots, and puts the watchers
\* of F behind it.
PassedOn(c, F) ==
    /\ c = currentPending /\ pending[last] = <<>> /\ slot' = 1 /\ last' \in 0 .. 1
    /\ pending'[last] = <<>> /\ DOMAIN pending'[c] \subseteq Nat \ {0}
    /\ \A n \in DOMAIN pending[c] :
          n \in DOMAIN pending'[c] /\ pending'[c][n] = pending[c][n] /\ pending[c][n] \notin F
    /\ \A n \in DOMAIN pending'[c] : n \notin DOMAIN pending[c] => pending'[c][n] \in F
    /\ \A w \in F : \E n \in DOMAIN pending'[c] :
          /\ place'[w].array = c /\ place'[w].position = n /\ pending'[c][n] = w
          /\ \A m \in DOMAIN pending'[c] : pending'[c][m] = w => m = n
    /\ \A w \in Watchers \ F : /\ place'[w] = place[w]
                               /\ pendingEvents'[w] # {} => pendingEvents[w] # {}
    /\ \A w \in Watchers : pendingEvents[w] # {} => pendingEvents'[w] # {}
    /\ \A w \in F : pendingEvents'[w] # {}

\* Then the arrays agree with the watchers.
LEMMA PassQueue ==
    ASSUME TypeOK, QueueInv, NEW c \in 0 .. 1, NEW F, F \subseteq Watchers, PassedOn(c, F)
    PROVE  QueueInv'
<1> USE DEF PassedOn
<1> PICK l \in 0 .. 1 : l = last /\ l # c /\ \A a \in 0 .. 1 : a \in {c, l}
  BY ArrayTypes DEF last
<1>1. DOMAIN pending[l] = {} /\ DOMAIN pending'[l] = {}
  OBVIOUS
<1>2. \A a \in 0 .. 1 : \A n \in DOMAIN pending'[a] : a = c /\ Due(a, n)'
  <2> TAKE a \in 0 .. 1
  <2> TAKE n \in DOMAIN pending'[a]
  <2>1. a = c
    BY <1>1
  <2>2. n >= slot'
    BY <2>1
  <2> QED BY <2>1, <2>2 DEF Due
<1>3. \A a \in 0 .. 1 : \A n \in DOMAIN pending[a] : a = c /\ Due(a, n)
  <2> TAKE a \in 0 .. 1
  <2> TAKE n \in DOMAIN pending[a]
  <2>1. a = c
    BY <1>1
  <2> QED BY <2>1 DEF Due
<1>4. ASSUME NEW w \in Watchers, pendingEvents'[w] # {}
      PROVE  /\ Due(place[w].array, place[w].position)'
             /\ pending'[place'[w].array][place'[w].position] = w
  <2>1. CASE w \in F
    <3>1. PICK n \in DOMAIN pending'[c] :
             place'[w].array = c /\ place'[w].position = n /\ pending'[c][n] = w
      BY <2>1
    <3>2. n \in DOMAIN pending'[c] /\ (c = last' => n >= slot')
      BY <1>2 DEF Due
    <3> QED BY <3>1, <3>2 DEF Due
  <2>2. CASE w \notin F
    <3>1. pendingEvents[w] # {} /\ place'[w] = place[w]
      BY <2>2, <1>4
    <3>2. PICK a \in 0 .. 1, n \in Nat : a = place[w].array /\ n = place[w].position
      BY ArrayTypes
    <3>3. n \in DOMAIN pending[a] /\ pending[a][n] = w
      BY <3>1, <3>2 DEF QueueInv, Due
    <3>4. n \in DOMAIN pending'[a] /\ pending'[a][n] = w
      BY <3>3, <1>3
    <3>5. a = last' => n >= slot'
      BY <3>4, <1>2 DEF Due
    <3>6. place'[w].array = a /\ place'[w].position = n
      BY <3>1, <3>2
    <3> QED BY <3>4, <3>5, <3>6 DEF Due
  <2> QED BY <2>1, <2>2
<1>5. ASSUME NEW n \in DOMAIN pending'[c], pending'[c][n] # Null
      PROVE  /\ pendingEvents'[pending'[c][n]] # {}
             /\ place'[pending'[c][n]].array = c /\ place'[pending'[c][n]].position = n
  <2>1. PICK v : v = pending'[c][n]
    OBVIOUS
  <2>2. CASE n \in DOMAIN pending[c]
    <3>1. pending[c][n] = v /\ v \notin F /\ v # Null
      BY <2>1, <2>2, <1>5
    <3>2. v \in Watchers
      BY <3>1, <2>2, ArrayTypes DEF Slots
    <3>3. pendingEvents[v] # {} /\ place[v].array = c /\ place[v].position = n
      BY <3>1, <2>2, <1>3 DEF QueueInv
    <3> QED BY <2>1, <3>1, <3>2, <3>3
  <2>3. CASE n \notin DOMAIN pending[c]
    <3>1. v \in F
      BY <2>1, <2>3
    <3>2. PICK m \in DOMAIN pending'[c] :
             /\ place'[v].array = c /\ place'[v].position = m
             /\ \A i \in DOMAIN pending'[c] : pending'[c][i] = v => i = m
      BY <3>1
    <3>3. m = n
      BY <3>2, <2>1
    <3> QED BY <2>1, <3>1, <3>2, <3>3
  <2> QED BY <2>2, <2>3
<1>6. \A w \in Watchers : pendingEvents'[w] # {} =>
         /\ Due(place[w].array, place[w].position)'
         /\ pending'[place'[w].array][place'[w].position] = w
  BY <1>4
<1>7. \A a \in 0 .. 1 : \A n \in DOMAIN pending'[a] : Due(a, n)' /\ pending'[a][n] # Null =>
         /\ pendingEvents'[pending'[a][n]] # {}
         /\ place'[pending'[a][n]].array = a /\ place'[pending'[a][n]].position = n
  BY <1>2, <1>5
<1> QED BY <1>6, <1>7 DEF QueueInv

\* What the queues get when epoll_wait reports, F being the reported watchers that were not
\* pending.
QueuesPass(reported, F, order, queue) ==
    /\ queue = pending[currentPending] \o order
    /\ pending' = [pending EXCEPT ![currentPending] = queue]
    /\ place' = [w \in Watchers |->
          IF w \in F
          THEN [array |-> currentPending,
                position |-> CHOOSE n \in DOMAIN queue : queue[n] = w]
          ELSE place[w]]
    /\ pendingEvents' = [w \in Watchers |->
          pendingEvents[w] \union IF w \in reported THEN ready[w] ELSE {}]
    /\ BeginPass(queue)

\* The first pass: reported watchers that are not pending are appended, each once, and
\* the second pass is to look at all of the array.
LEMMA WaitQueue ==
    ASSUME TypeOK, QueueInv, PassInv, pc = "wait", slot' = slot,
           NEW reported \in Reports, NEW F, F = Fresh(reported), NEW order \in Orders(F),
           NEW queue, QueuesPass(reported, F, order, queue)
    PROVE  /\ QueueInv'
           /\ PassInv'
           /\ pending' \in [0 .. 1 -> Seq(Slots)]
           /\ place' \in [Watchers -> [array : 0 .. 1, position : Nat \ {0}]]
           /\ currentPending' \in 0 .. 1
<1>1. PICK c \in 0 .. 1, l \in 0 .. 1 : c = currentPending /\ l = last
  BY ArrayTypes
<1>2. PICK cur \in Seq(Slots) : cur = pending[c]
  BY <1>1, ArrayTypes
<1>3. /\ l # c /\ l = 1 - c /\ pending[l] = <<>> /\ slot = 1
      /\ Len(cur) \in Nat /\ DOMAIN cur = 1 .. Len(cur)
  BY <1>1, <1>2, ArrayTypes DEF PassInv, last
<1>4. /\ F \subseteq Watchers /\ IsFiniteSet(F)
      /\ \A w \in F : w \in reported /\ ready[w] # {} /\ pendingEvents[w] = {}
      /\ \A w \in reported \ F : pendingEvents[w] # {}
  BY ReportedReady DEF Fresh
<1>5. PICK k \in Nat : k = Cardinality(F)
  BY <1>4, FS_CardinalityType
<1>6. /\ order \in Seq(F) /\ Len(order) = k
      /\ \A n \in 1 .. k : order[n] \in F
      /\ \A w \in F : \E i \in 1 .. k : order[i] = w
      /\ \A i, j \in 1 .. k : order[i] = order[j] => i = j
  <2>1. /\ order \in Seq(F) /\ Len(order) = k
        /\ \A w \in F : \E i \in 1 .. k : order[i] = w
        /\ \A i, j \in 1 .. k : order[i] = order[j] => i = j
    BY <1>4, <1>5, OrderOnce
  <2>2. \A n \in 1 .. k : order[n] \in F
    BY <2>1, ElementOfSeq
  <2> QED BY <2>1, <2>2
\* Nothing that was in the current array is fresh.
<1>7. \A n \in 1 .. Len(cur) : cur[n] \notin F
  <2> TAKE n \in 1 .. Len(cur)
  <2>1. Due(c, n)
    BY <1>1, <1>2, <1>3 DEF Due
  <2>2. cur[n] # Null => pendingEvents[cur[n]] # {}
    BY <2>1, <1>1, <1>2, <1>3 DEF QueueInv
  <2> QED BY <2>2, <1>4, EdgeLoopAssumption
<1>8. PICK len \in Nat : len = Len(cur)
  BY <1>3
<1>9. /\ queue \in Seq(Slots) /\ DOMAIN queue = 1 .. len + k
       /\ \A n \in 1 .. len + k : queue[n] = IF n <= len THEN cur[n] ELSE order[n - len]
  <2>1. order \in Seq(Slots)
    BY <1>4, <1>6, SeqMonotonic DEF Slots
  <2>2. queue = cur \o order
    BY <1>1, <1>2 DEF QueuesPass
  <2> QED BY <2>1, <2>2, <1>6, <1>8, ConcatShape
<1>10. /\ \A n \in 1 .. len : n \in DOMAIN queue /\ queue[n] = cur[n]
       /\ \A n \in DOMAIN queue : n \notin 1 .. len => queue[n] \in F
       /\ \A w \in F : \E n \in DOMAIN queue :
             queue[n] = w /\ \A m \in DOMAIN queue : queue[m] = w => m = n
  <2>1. \A n \in 1 .. len : cur[n] \notin F
    BY <1>7, <1>8
  <2>2. Behind(F, k, order, len, cur, queue)
    BY <2>1, <1>6, <1>9 DEF Behind
  <2> HIDE DEF Behind
  <2> QED BY <2>2, AppendedOnce
<1>11. /\ pending' \in [0 .. 1 -> Seq(Slots)]
       /\ pending'[c] = queue /\ pending'[l] = <<>> /\ DOMAIN pending'[l] = {}
       /\ DOMAIN pending[l] = {}
  <2>1. pending' = [pending EXCEPT ![c] = queue]
    BY <1>1 DEF QueuesPass
  <2>2. pending \in [0 .. 1 -> Seq(Slots)]
    BY DEF TypeOK, Slots
  <2> QED BY <2>1, <2>2, <1>3, <1>9
<1>12. /\ currentPending' \in 0 .. 1
       /\ \/ queue = <<>> /\ pc' = "end" /\ last' = l
          \/ queue # <<>> /\ pc' = "slot" /\ last' = c
  BY <1>1, <1>3 DEF BeginPass, last, QueuesPass
<1>13. PassInv'
  BY <1>3, <1>11, <1>12 DEF PassInv
<1>14. \A w \in F : \E n \in DOMAIN queue :
          /\ place'[w] = [array |-> c, position |-> n] /\ queue[n] = w
          /\ \A m \in DOMAIN queue : queue[m] = w => m = n
  <2> TAKE w \in F
  <2>1. PICK n \in DOMAIN queue : queue[n] = w /\ \A m \in DOMAIN queue : queue[m] = w => m = n
    BY <1>10
  <2>2. (CHOOSE m \in DOMAIN queue : queue[m] = w) = n
    BY <2>1
  <2>3. place'[w] = [array |-> c, position |-> CHOOSE m \in DOMAIN queue : queue[m] = w]
    BY <1>1, <1>4 DEF QueuesPass
  <2> QED BY <2>1, <2>2, <2>3
<1>15. \A w \in Watchers \ F : place'[w] = place[w]
  BY DEF QueuesPass
<1>16. DOMAIN queue \subseteq Nat \ {0}
  BY <1>9
<1>17. place' \in [Watchers -> [array : 0 .. 1, position : Nat \ {0}]]
  <2>1. \A w \in F : place'[w] \in [array : 0 .. 1, position : Nat \ {0}]
    <3> TAKE w \in F
    <3>1. PICK n \in DOMAIN queue : place'[w] = [array |-> c, position |-> n]
      BY <1>14
    <3>2. n \in Nat \ {0}
      BY <1>16
    <3> QED BY <3>1, <3>2
  <2>2. \A w \in Watchers : place'[w] \in [array : 0 .. 1, position : Nat \ {0}]
    BY <2>1, <1>15 DEF TypeOK
  <2>3. place' = [w \in Watchers |-> place'[w]]
    BY DEF QueuesPass
  <2> QED BY <2>2, <2>3
<1>18. /\ \A w \in Watchers \ F : pendingEvents'[w] # {} => pendingEvents[w] # {}
       /\ \A w \in Watchers : pendingEvents[w] # {} => pendingEvents'[w] # {}
       /\ \A w \in F : pendingEvents'[w] # {}
  BY <1>4 DEF QueuesPass
<1>19. QueueInv'
  <2>1. \A n \in DOMAIN pending[c] :
           n \in DOMAIN pending'[c] /\ pending'[c][n] = pending[c][n] /\ pending[c][n] \notin F
    BY <1>2, <1>3, <1>7, <1>8, <1>10, <1>11
  <2>2. \A n \in DOMAIN pending'[c] : n \notin DOMAIN pending[c] => pending'[c][n] \in F
    BY <1>2, <1>3, <1>8, <1>10, <1>11
  <2>3. \A w \in F : \E n \in DOMAIN pending'[c] :
           /\ place'[w].array = c /\ place'[w].position = n /\ pending'[c][n] = w
           /\ \A m \in DOMAIN pending'[c] : pending'[c][m] = w => m = n
    <3> TAKE w \in F
    <3>1. PICK n \in DOMAIN queue :
             /\ place'[w] = [array |-> c, position |-> n] /\ queue[n] = w
             /\ \A m \in DOMAIN queue : queue[m] = w => m = n
      BY <1>14
    <3>2. place'[w].array = c /\ place'[w].position = n
      BY <3>1
    <3> QED BY <3>1, <3>2, <1>11
  <2>4. slot' = 1 /\ last' \in 0 .. 1 /\ DOMAIN pending'[c] \subseteq Nat \ {0}
    BY <1>3, <1>11, <1>12, <1>16
  <2>5. PassedOn(c, F)
    BY <2>1, <2>2, <2>3, <2>4, <1>1, <1>3, <1>11, <1>15, <1>18 DEF PassedOn
  <2> QED BY <2>5, <1>4, PassQueue
<1> QED BY <1>11, <1>12, <1>13, <1>17, <1>19

\* The slot in work is done with, and its watcher with its events.
LEMMA DoneQueue ==
    ASSUME TypeOK, QueueInv, slot <= Len(pending[last]), slot' = slot + 1,
           pendingEvents' = IF running = Null THEN pendingEvents
                            ELSE [pendingEvents EXCEPT ![running] = {}],
           UNCHANGED <<place, pending, currentPending>>
    PROVE  QueueInv'
<1>1. PICK l \in 0 .. 1, i \in Nat, r \in Slots : l = last /\ i = slot /\ r = running
  BY ArrayTypes DEF running
<1>2. i \in DOMAIN pending[l] /\ Due(l, i) /\ pending[l][i] = r /\ last' = l
  BY <1>1, ArrayTypes DEF Due, running, last
<1>3. \A a \in 0 .. 1, n \in Nat : Due(a, n)' <=> Due(a, n) /\ ~(a = l /\ n = i)
  BY <1>1, <1>2 DEF Due
<1>4. /\ r = Null => pendingEvents' = pendingEvents
      /\ r # Null => pendingEvents' = [pendingEvents EXCEPT ![r] = {}]
  BY <1>1
<1>5. \A a \in 0 .. 1 : \A n \in DOMAIN pending[a] : n \in Nat /\ pending[a][n] \in Slots
  BY ArrayTypes
<1>6. ASSUME NEW w \in Watchers, pendingEvents'[w] # {}
      PROVE  /\ Due(place[w].array, place[w].position)'
             /\ pending'[place'[w].array][place'[w].position] = w
  <2>1. w # r /\ pendingEvents[w] # {}
    BY <1>4, <1>6, EdgeLoopAssumption DEF TypeOK
  <2>2. PICK a \in 0 .. 1, n \in Nat : a = place[w].array /\ n = place[w].position
    BY ArrayTypes
  <2>3. Due(a, n) /\ pending[a][n] = w
    BY <2>1, <2>2 DEF QueueInv
  <2>4. Due(a, n)'
    BY <2>1, <2>3, <1>2, <1>3
  <2>5. Due(place[w].array, place[w].position)'
    BY <2>2, <2>4 DEF Due
  <2> QED BY <2>2, <2>3, <2>5
<1>7. ASSUME NEW a \in 0 .. 1, NEW n \in DOMAIN pending[a], Due(a, n)', pending[a][n] # Null
      PROVE  /\ pendingEvents'[pending[a][n]] # {}
             /\ place[pending[a][n]].array = a /\ place[pending[a][n]].position = n
  <2>1. Due(a, n) /\ ~(a = l /\ n = i)
    BY <1>3, <1>5, <1>7
  <2>2. PICK v \in Watchers : v = pending[a][n]
    BY <1>5, <1>7 DEF Slots
  <2>3. pendingEvents[v] # {} /\ place[v].array = a /\ place[v].position = n
    BY <2>1, <2>2, <1>7 DEF QueueInv
  <2>4. r # Null => place[r].array = l /\ place[r].position = i
    BY <1>2 DEF QueueInv
  <2>5. v # r
    BY <2>1, <2>2, <2>3, <2>4, EdgeLoopAssumption
  <2>6. pendingEvents'[v] = pendingEvents[v]
    BY <2>5, <1>4 DEF TypeOK
  <2> QED BY <2>2, <2>3, <2>6
<1>8. \A w \in Watchers : pendingEvents'[w] # {} =>
         /\ Due(place[w].array, place[w].position)'
         /\ pending'[place'[w].array][place'[w].position] = w
  BY <1>6
<1>9. \A a \in 0 .. 1 : \A n \in DOMAIN pending'[a] : Due(a, n)' /\ pending'[a][n] # Null =>
         /\ pendingEvents'[pending'[a][n]] # {}
         /\ place'[pending'[a][n]].array = a /\ place'[pending'[a][n]].position = n
  BY <1>7
<1> QED BY <1>8, <1>9 DEF QueueInv

-------------------------------------------------------------------------------
(* What happens to the descriptors.                                        *)

\* The watchers of the three kinds are different, and all are watchers.
LEMMA Kinds ==
    /\ Counters \subseteq Counting /\ Signals \subseteq Counting
    /\ Counting \subseteq Watchers /\ IOs \subseteq Watchers
    /\ Counting \intersect IOs = {} /\ Null \notin Watchers
    /\ Counters \intersect Signals = {}
    /\ Read \in Events
BY EdgeLoopAssumption DEF Counting, Watchers

LEMMA RaiseStep ==
    ASSUME IInv, NEW w \in Counting, Raise(w)
    PROVE  IInv'
<1> USE Kinds DEF IInv, Raise, descriptors, queues, flags
<1>1. TypeOK'
  <2>1. sends' \in 0 .. MaxSends /\ unread[w] + 1 \in 0 .. MaxSends
    BY EdgeLoopAssumption DEF TypeOK, SentInv
  <2>2. unread' \in [Counting -> 0 .. MaxSends]
    BY <2>1 DEF TypeOK
  <2>3. ready' \in [Watchers -> SUBSET Events]
    BY DEF TypeOK
  <2> QED BY <2>1, <2>2, <2>3 DEF TypeOK
<1>2. QueueInv'
  BY QueueKept
<1>3. PassInv'
  BY DEF PassInv, last
<1>4. StartedInv'
  BY DEF StartedInv, TypeOK
<1>5. KeptInv'
  BY DEF KeptInv, TypeOK
<1>6. CallbackInv'
  BY DEF CallbackInv, running, last, TypeOK
<1>7. SentInv'
  BY DEF SentInv, TypeOK
<1> QED BY <1>1, <1>2, <1>3, <1>4, <1>5, <1>6, <1>7

LEMMA EdgeStep ==
    ASSUME IInv, NEW w \in IOs, NEW e \in Events, Edge(w, e)
    PROVE  IInv'
<1> USE Kinds DEF IInv, Edge, descriptors, queues, flags
<1>1. TypeOK'
  BY DEF TypeOK
<1>2. QueueInv'
  BY QueueKept
<1>3. PassInv'
  BY DEF PassInv, last
<1>4. StartedInv'
  BY DEF StartedInv, TypeOK
<1>5. KeptInv'
  BY DEF KeptInv, TypeOK
<1>6. CallbackInv'
  BY DEF CallbackInv, running, last, TypeOK
<1>7. SentInv'
  BY DEF SentInv, TypeOK
<1> QED BY <1>1, <1>2, <1>3, <1>4, <1>5, <1>6, <1>7

-------------------------------------------------------------------------------
(* What callers do.                                                        *)

\* What is counted are natural numbers.
LEMMA CountsNat ==
    ASSUME TypeOK
    PROVE  sends \in Nat /\ \A w \in Counting : unread[w] \in Nat
<1>1. \A n \in 0 .. MaxSends : n \in Nat
  BY EdgeLoopAssumption
<1> QED BY <1>1 DEF TypeOK

\* A watcher that is not started has no events, and nobody owes it any.
LEMMA NotStarted ==
    ASSUME IInv, NEW w \in Watchers \ started
    PROVE  /\ ready[w] = {} /\ pendingEvents[w] = {}
           /\ w \in IOs => owed[w] = {}
           /\ w \in Counting => unread[w] = 0
<1>1. ready[w] = {} /\ pendingEvents[w] = {}
  BY DEF IInv, StartedInv
<1>2. w \in IOs => owed[w] = {}
  BY <1>1 DEF IInv, KeptInv
<1>3. w \in Counting => unread[w] = 0
  <2>1. w \in Counting => unread[w] \in Nat
    BY CountsNat DEF IInv
  <2> QED BY <1>1, <2>1 DEF IInv, KeptInv
<1> QED BY <1>1, <1>2, <1>3

\* A call counts itself and leaves the loop where it is.
LEMMA CallCounted ==
    ASSUME TypeOK, Calling
    PROVE  calls' \in 0 .. MaxCalls
BY EdgeLoopAssumption DEF TypeOK, Calling

\* swEdgeAsyncStart, swEdgeSignalStart and swEdgeIOStart: the watcher joins, with what its
\* descriptor is ready for.
LEMMA StartStep ==
    ASSUME IInv, NEW w \in Watchers \ started, NEW found \in SUBSET Events,
           w \in Counting => found = {},
           Calling, WatcherAdd(w, found),
           UNCHANGED <<unread, queues, currentPending, pc, slot, flags, ownOwed, sends>>
    PROVE  IInv'
<1> USE Kinds DEF IInv, WatcherAdd, queues, flags
<1>1. TypeOK'
  BY CallCounted DEF TypeOK
<1>2. QueueInv'
  BY QueueKept
<1>3. PassInv'
  BY DEF PassInv, last
<1>4. StartedInv'
  BY DEF StartedInv, TypeOK
<1>5. KeptInv'
  <2>1. \A v \in IOs : owed'[v] \subseteq ready'[v] \union pendingEvents'[v]
    BY DEF KeptInv, TypeOK
  <2>2. \A v \in Counting : unread'[v] > 0 => Read \in ready'[v] \union pendingEvents'[v]
    BY NotStarted DEF KeptInv, TypeOK
  <2> QED BY <2>1, <2>2 DEF KeptInv
<1>6. CallbackInv'
  BY DEF CallbackInv, running, last, TypeOK
<1>7. SentInv'
  BY DEF SentInv, TypeOK
<1> QED BY <1>1, <1>2, <1>3, <1>4, <1>5, <1>6, <1>7

\* The effect on the invariant of taking a watcher out of its slot, whatever happens to its
\* descriptor: nothing of it is left, and the running callback may have stopped itself.
LEMMA RemoveStep ==
    ASSUME IInv, NEW w \in Watchers, Calling,
           WatcherRemove(w) \/ (pendingEvents[w] = {} /\ UNCHANGED <<pending, pendingEvents>>),
           started' \in {started \ {w}, started \union {w}},
           ready' = [ready EXCEPT ![w] = {}],
           w \in Counting => unread' = [unread EXCEPT ![w] = 0] /\ UNCHANGED <<owed, ownOwed>>,
           w \in IOs => /\ UNCHANGED unread
                        /\ owed' = [owed EXCEPT ![w] = {}] /\ ownOwed' = [ownOwed EXCEPT ![w] = {}],
           UNCHANGED <<place, currentPending, pc, slot, flags, sends>>
    PROVE  IInv'
<1> USE Kinds DEF IInv, flags
<1>1. WatcherRemove(w)
  BY DEF WatcherRemove
<1>2. /\ QueueInv'
      /\ pending' \in [0 .. 1 -> Seq(Slots)]
      /\ pendingEvents' = [pendingEvents EXCEPT ![w] = {}]
      /\ \A a \in 0 .. 1 : Len(pending'[a]) = Len(pending[a])
      /\ \A a \in 0 .. 1 : \A n \in 1 .. Len(pending[a]) :
            pending'[a][n] \in {pending[a][n], Null}
  BY <1>1, RemoveQueue
<1>3. w \in Counting \/ w \in IOs
  BY DEF Watchers
<1>4. /\ unread' \in [Counting -> 0 .. MaxSends]
      /\ owed' \in [IOs -> SUBSET Events] /\ ownOwed' \in [IOs -> SUBSET Events]
      /\ \A v \in Counting : unread'[v] = IF v = w THEN 0 ELSE unread[v]
      /\ \A v \in IOs : owed'[v] = IF v = w THEN {} ELSE owed[v]
  <2>1. 0 \in 0 .. MaxSends
    BY EdgeLoopAssumption
  <2>2. CASE w \in Counting
    BY <2>1, <2>2 DEF TypeOK
  <2>3. CASE w \in IOs
    BY <2>3 DEF TypeOK
  <2> QED BY <1>3, <2>2, <2>3
<1>5. /\ \A v \in Watchers : pendingEvents'[v] = IF v = w THEN {} ELSE pendingEvents[v]
      /\ \A v \in Watchers : ready'[v] = IF v = w THEN {} ELSE ready[v]
  BY <1>2 DEF TypeOK
<1>6. TypeOK'
  <2>1. ready' \in [Watchers -> SUBSET Events] /\ pendingEvents' \in [Watchers -> SUBSET Events]
    BY <1>2 DEF TypeOK
  <2>2. started' \subseteq Watchers
    BY DEF TypeOK
  <2> QED BY <1>2, <1>4, <2>1, <2>2, CallCounted DEF TypeOK, Slots
<1>7. PassInv'
  <2>1. last' = last /\ last \in 0 .. 1
    BY ArrayTypes DEF last
  <2>2. pending[last] = <<>> => pending'[last] = <<>>
    BY <1>2, <2>1, EmptySeq
  <2> QED BY <1>2, <2>1, <2>2 DEF PassInv
<1>8. StartedInv'
  BY <1>5 DEF StartedInv
<1>9. KeptInv'
  BY <1>4, <1>5 DEF KeptInv
<1>10. CallbackInv'
  <2>1. SUFFICES ASSUME pc' = "callback", running' \in IOs
                 PROVE  owed'[running'] \subseteq ready'[running']
    BY DEF CallbackInv
  <2>2. slot \in 1 .. Len(pending[last]) /\ last \in 0 .. 1 /\ last' = last
    BY <2>1, ArrayTypes DEF PassInv, last
  <2>3. running' = running
    BY <1>2, <2>1, <2>2 DEF running
  <2>4. owed[running] \subseteq ready[running]
    BY <2>1, <2>3 DEF CallbackInv
  <2> QED BY <2>1, <2>3, <2>4, <1>4, <1>5
<1>11. SentInv'
  <2>1. sends \in Nat /\ sends' = sends
    BY CountsNat
  <2> QED BY <1>4, <2>1 DEF SentInv
<1> QED BY <1>2, <1>6, <1>7, <1>8, <1>9, <1>10, <1>11

\* A watcher whose descriptor epoll looks at anew.
LEMMA ModifyStep ==
    ASSUME IInv, NEW w \in Watchers, Modify(w)
    PROVE  IInv'
<1> USE Kinds DEF IInv, queues, flags
<1>1. PICK found \in SUBSET Events :
         /\ ready' = [ready EXCEPT ![w] = found]
         /\ owed' = [owed EXCEPT ![w] = (owed[w] \ ready[w]) \union found]
  BY DEF Modify
<1>2. /\ w \in IOs \intersect started /\ Calling
      /\ UNCHANGED <<started, unread, queues, currentPending, pc, slot, flags, ownOwed, sends>>
  BY DEF Modify
<1>3. TypeOK'
  BY <1>1, <1>2, CallCounted DEF TypeOK
<1>4. QueueInv'
  BY <1>2, QueueKept
<1>5. PassInv'
  BY <1>2 DEF PassInv, last
<1>6. StartedInv'
  BY <1>1, <1>2 DEF StartedInv, TypeOK
<1>7. KeptInv'
  BY <1>1, <1>2 DEF KeptInv, TypeOK
<1>8. CallbackInv'
  BY <1>1, <1>2 DEF CallbackInv, running, last, TypeOK
<1>9. SentInv'
  BY <1>2 DEF SentInv
<1> QED BY <1>3, <1>4, <1>5, <1>6, <1>7, <1>8, <1>9

\* A watcher gets events from a caller, and a slot if it has none.
LEMMA PendingSetStep ==
    ASSUME IInv, NEW w \in IOs, NEW events \in SUBSET Events, events # {}, PendingSet(w, events)
    PROVE  IInv'
<1> USE Kinds DEF IInv, flags, descriptors
<1>1. /\ w \in Watchers /\ w \in started /\ Calling
      /\ UNCHANGED <<descriptors, currentPending, pc, slot, flags, sends>>
      /\ last' = last /\ last \in 0 .. 1
  BY ArrayTypes DEF PendingSet, last
<1>2. /\ owed' \in [IOs -> SUBSET Events] /\ ownOwed' \in [IOs -> SUBSET Events]
      /\ \A v \in IOs : owed'[v] = owed[v]
                        \/ (v = w /\ owed'[v] = owed[v] \union events
                                  /\ ~(pc = "callback" /\ running = w))
  <2>1. CASE pc = "callback" /\ running = w
    <3>1. ownOwed' = [ownOwed EXCEPT ![w] = ownOwed[w] \union events] /\ owed' = owed
      BY <2>1 DEF PendingSet
    <3> QED BY <3>1 DEF TypeOK
  <2>2. CASE ~(pc = "callback" /\ running = w)
    <3>1. owed' = [owed EXCEPT ![w] = owed[w] \union events] /\ ownOwed' = ownOwed
      BY <2>2 DEF PendingSet
    <3> QED BY <2>2, <3>1 DEF TypeOK
  <2> QED BY <2>1, <2>2
<1>3. /\ QueueInv'
      /\ pending' \in [0 .. 1 -> Seq(Slots)] /\ pending'[last] = pending[last]
      /\ place' \in [Watchers -> [array : 0 .. 1, position : Nat \ {0}]]
      /\ pendingEvents' = [pendingEvents EXCEPT ![w] = pendingEvents[w] \union events]
  <2>1. CASE pendingEvents[w] # {}
    <3>1. /\ pendingEvents' = [pendingEvents EXCEPT ![w] = pendingEvents[w] \union events]
          /\ UNCHANGED <<pending, place>>
      BY <2>1 DEF PendingSet
    <3>2. \A v \in Watchers : pendingEvents'[v] = {} <=> pendingEvents[v] = {}
      BY <2>1, <3>1 DEF TypeOK
    <3>3. QueueInv'
      BY <1>1, <3>1, <3>2, QueueKept
    <3> QED BY <3>1, <3>3 DEF TypeOK, Slots
  <2>2. CASE pendingEvents[w] = {}
    <3>1. Enqueue(w, events)
      BY <2>2 DEF PendingSet
    <3>2. pendingEvents[w] \union events = events
      BY <2>2
    <3> QED BY <1>1, <2>2, <3>1, <3>2, EnqueueQueue
  <2> QED BY <2>1, <2>2
<1>4. \A v \in Watchers : pendingEvents'[v] =
         IF v = w THEN pendingEvents[w] \union events ELSE pendingEvents[v]
  BY <1>3 DEF TypeOK
<1>5. TypeOK'
  <2>1. pendingEvents' \in [Watchers -> SUBSET Events]
    BY <1>3 DEF TypeOK
  <2> QED BY <1>1, <1>2, <1>3, <2>1, CallCounted DEF TypeOK, Slots
<1>6. PassInv'
  BY <1>1, <1>3 DEF PassInv
<1>7. StartedInv'
  BY <1>1, <1>4 DEF StartedInv
<1>8. KeptInv'
  BY <1>1, <1>2, <1>4 DEF KeptInv
<1>9. CallbackInv'
  <2>1. running' = running
    BY <1>1, <1>3 DEF running
  <2> QED BY <1>1, <1>2, <2>1 DEF CallbackInv
<1>10. SentInv'
  BY <1>1 DEF SentInv
<1> QED BY <1>3, <1>5, <1>6, <1>7, <1>8, <1>9, <1>10

\* Every call keeps the invariant.
LEMMA CallStep ==
    ASSUME IInv, Call
    PROVE  IInv'
<1> USE Kinds
<1>1. ASSUME NEW w \in Watchers, AsyncStart(w) \/ SignalStart(w)
      PROVE  IInv'
  BY <1>1, StartStep DEF AsyncStart, SignalStart
<1>2. ASSUME NEW w \in Watchers, IOStart(w)
      PROVE  IInv'
  <2>1. PICK found \in SUBSET Events : WatcherAdd(w, found)
    BY <1>2 DEF IOStart
  <2>2. /\ w \in Watchers \ started /\ w \notin Counting /\ Calling
        /\ UNCHANGED <<unread, queues, currentPending, pc, slot, flags, ownOwed, sends>>
    BY <1>2 DEF IOStart
  <2> QED BY <2>1, <2>2, StartStep
<1>3. ASSUME NEW w \in Watchers, TimerStart(w)
      PROVE  IInv'
  <2>1. /\ w \in Counting /\ w \notin IOs /\ Calling
        /\ started' = started \union {w} /\ ready' = [ready EXCEPT ![w] = {}]
        /\ unread' = [unread EXCEPT ![w] = 0]
        /\ UNCHANGED <<place, currentPending, pc, slot, flags, owed, ownOwed, sends>>
    BY <1>3 DEF TimerStart, WatcherAdd
  <2>2. WatcherRemove(w) \/ (pendingEvents[w] = {} /\ UNCHANGED <<pending, pendingEvents>>)
    BY <1>3, NotStarted DEF TimerStart
  <2> QED BY <2>1, <2>2, RemoveStep
<1>4. ASSUME NEW w \in Watchers, AsyncStop(w) \/ SignalStop(w)
      PROVE  IInv'
  <2>1. /\ w \in Counting /\ w \notin IOs /\ Forget(w)
        /\ unread' = [unread EXCEPT ![w] = 0] /\ UNCHANGED <<owed, ownOwed>>
    BY <1>4 DEF AsyncStop, SignalStop
  <2> QED BY <2>1, RemoveStep DEF Forget
<1>5. ASSUME NEW w \in Watchers, IOStop(w)
      PROVE  IInv'
  <2>1. /\ w \notin Counting /\ Forget(w) /\ UNCHANGED unread
        /\ owed' = [owed EXCEPT ![w] = {}] /\ ownOwed' = [ownOwed EXCEPT ![w] = {}]
    BY <1>5 DEF IOStop
  <2> QED BY <2>1, RemoveStep DEF Forget
<1>6. ASSUME Break
      PROVE  IInv'
  <2> USE <1>6 DEF IInv, Break, descriptors, queues, history
  <2>1. TypeOK'
    BY CallCounted DEF TypeOK
  <2>2. QueueInv'
    BY QueueKept
  <2>3. PassInv' /\ StartedInv' /\ KeptInv' /\ CallbackInv' /\ SentInv'
    BY DEF PassInv, StartedInv, KeptInv, CallbackInv, SentInv, running, last
  <2> QED BY <2>1, <2>2, <2>3
<1>7. ASSUME NEW w \in IOs, NEW events \in (SUBSET Events) \ {{}}, PendingSet(w, events)
      PROVE  IInv'
  BY <1>7, PendingSetStep
<1>8. ASSUME NEW w \in Watchers, Modify(w)
      PROVE  IInv'
  BY <1>8, ModifyStep
<1> QED BY <1>1, <1>2, <1>3, <1>4, <1>5, <1>6, <1>7, <1>8 DEF Call

-------------------------------------------------------------------------------
(* What swEdgeLoopRun does.                                                *)

LEMMA RunStep ==
    ASSUME IInv, NEW o \in BOOLEAN, Run(o)
    PROVE  IInv'
<1> USE DEF IInv, Run, descriptors, queues, history
<1>1. TypeOK'
  <2>1. {run', once', shutdown'} \subseteq BOOLEAN
    OBVIOUS
  <2>2. calls' \in 0 .. MaxCalls /\ pc' = "wait"
    BY EdgeLoopAssumption
  <2> QED BY <2>1, <2>2 DEF TypeOK
<1>2. QueueInv'
  BY QueueKept
<1>3. PassInv' /\ StartedInv' /\ KeptInv' /\ CallbackInv' /\ SentInv'
  BY DEF PassInv, StartedInv, KeptInv, CallbackInv, SentInv, last
<1> QED BY <1>1, <1>2, <1>3

LEMMA WaitStep ==
    ASSUME IInv, Wait
    PROVE  IInv'
<1> USE Kinds DEF IInv
<1>1. /\ pc = "wait"
      /\ UNCHANGED <<started, unread, slot, flags, history, calls>>
  BY DEF Wait
<1>2. PICK reported \in Reports :
         /\ \E order \in Orders(Fresh(reported)) :
               QueuesPass(reported, Fresh(reported), order, pending[currentPending] \o order)
         /\ ready' = [w \in Watchers |-> IF w \in reported THEN {} ELSE ready[w]]
  BY DEF Wait, QueuesPass
<1> PICK order \in Orders(Fresh(reported)) :
       QueuesPass(reported, Fresh(reported), order, pending[currentPending] \o order)
  BY <1>2
<1>3. /\ QueueInv' /\ PassInv'
      /\ pending' \in [0 .. 1 -> Seq(Slots)]
      /\ place' \in [Watchers -> [array : 0 .. 1, position : Nat \ {0}]]
      /\ currentPending' \in 0 .. 1
  BY <1>1, WaitQueue
<1>4. \A w \in Watchers :
         /\ ready'[w] = IF w \in reported THEN {} ELSE ready[w]
         /\ pendingEvents'[w] = pendingEvents[w] \union IF w \in reported THEN ready[w] ELSE {}
  BY <1>2 DEF QueuesPass
<1>5. TypeOK'
  <2>1. ready' \in [Watchers -> SUBSET Events]
    BY <1>2, <1>4 DEF TypeOK
  <2>2. pendingEvents' = [w \in Watchers |-> pendingEvents'[w]]
    BY DEF QueuesPass
  <2>3. \A w \in Watchers : pendingEvents'[w] \in SUBSET Events
    BY <1>4 DEF TypeOK
  <2>4. pendingEvents' \in [Watchers -> SUBSET Events]
    BY <2>2, <2>3
  <2>5. pc' \in {"end", "slot"}
    BY DEF QueuesPass, BeginPass
  <2> QED BY <1>1, <1>3, <2>1, <2>4, <2>5 DEF TypeOK, Slots, flags, history
<1>6. StartedInv'
  BY <1>1, <1>4 DEF StartedInv
<1>7. KeptInv'
  BY <1>1, <1>4 DEF KeptInv, history
<1>8. CallbackInv'
  BY DEF CallbackInv, QueuesPass, BeginPass
<1>9. SentInv'
  BY <1>1 DEF SentInv, history
<1> QED BY <1>3, <1>5, <1>6, <1>7, <1>8, <1>9

\* Before a pass all slots are due, whichever array is the current one.
LEMMA WaitFailsStep ==
    ASSUME IInv, WaitFails
    PROVE  IInv'
<1> USE DEF IInv, descriptors, queues, history
<1>1. /\ pc = "wait" /\ run' = FALSE
      /\ UNCHANGED <<descriptors, queues, slot, once, shutdown, history, calls>>
      /\ BeginPass(pending[currentPending])
  BY DEF WaitFails
<1>2. /\ slot = 1 /\ pending[last] = <<>> /\ slot' = 1 /\ pending' = pending
      /\ currentPending \in 0 .. 1 /\ last \in 0 .. 1
      /\ \/ /\ pending[currentPending] = <<>> /\ pc' = "end"
            /\ currentPending' = currentPending /\ last' = last
         \/ pc' = "slot" /\ currentPending' = last /\ last' = currentPending
  BY <1>1, ArrayTypes DEF BeginPass, PassInv, last
<1>3. TypeOK'
  BY <1>1, <1>2 DEF TypeOK
<1>4. \A a \in 0 .. 1 : \A n \in DOMAIN pending[a] : Due(a, n) /\ Due(a, n)'
  <2> TAKE a \in 0 .. 1
  <2> TAKE n \in DOMAIN pending[a]
  <2>1. n >= 1
    BY ArrayTypes
  <2> QED BY <2>1, <1>2 DEF Due
<1>5. QueueInv'
  <2>1. \A w \in Watchers : pendingEvents'[w] # {} =>
           /\ Due(place[w].array, place[w].position)'
           /\ pending'[place'[w].array][place'[w].position] = w
    <3> TAKE w \in Watchers
    <3> HAVE pendingEvents'[w] # {}
    <3>1. PICK a \in 0 .. 1, n \in Nat : a = place[w].array /\ n = place[w].position
      BY ArrayTypes
    <3>2. n \in DOMAIN pending[a] /\ pending[a][n] = w
      BY <3>1, <1>1 DEF QueueInv, Due
    <3> QED BY <3>1, <3>2, <1>1, <1>4 DEF Due
  <2>2. \A a \in 0 .. 1 : \A n \in DOMAIN pending'[a] : Due(a, n)' /\ pending'[a][n] # Null =>
           /\ pendingEvents'[pending'[a][n]] # {}
           /\ place'[pending'[a][n]].array = a /\ place'[pending'[a][n]].position = n
    BY <1>1, <1>4 DEF QueueInv
  <2> QED BY <2>1, <2>2 DEF QueueInv
<1>6. PassInv'
  BY <1>2 DEF PassInv
<1>7. StartedInv' /\ KeptInv' /\ CallbackInv' /\ SentInv'
  BY <1>1, <1>2 DEF StartedInv, KeptInv, CallbackInv, SentInv
<1> QED BY <1>3, <1>5, <1>6, <1>7

\* The slot in work holds a watcher or nothing.
LEMMA SlotInWork ==
    ASSUME TypeOK, slot <= Len(pending[last])
    PROVE  running \in Slots /\ slot \in 1 .. Len(pending[last]) /\ slot + 1 \in Nat \ {0}
BY ArrayTypes DEF running

LEMMA SkipEmptiedStep ==
    ASSUME IInv, SkipEmptied
    PROVE  IInv'
<1> USE DEF IInv, SkipEmptied, descriptors, queues, history
<1>1. TypeOK'
  <2>1. slot' \in Nat \ {0}
    BY SlotInWork
  <2> QED BY <2>1 DEF TypeOK, flags
<1>2. QueueInv'
  BY DoneQueue
<1>3. PassInv' /\ StartedInv' /\ KeptInv' /\ CallbackInv' /\ SentInv'
  BY DEF PassInv, StartedInv, KeptInv, CallbackInv, SentInv
<1> QED BY <1>1, <1>2, <1>3

\* The callback is given what is pending; what remains owed is with the kernel.
LEMMA ProcessIOStep ==
    ASSUME IInv, ProcessIO
    PROVE  IInv'
<1> USE Kinds DEF IInv, descriptors, queues, flags
<1>1. /\ pc' = "callback" /\ running \in IOs /\ slot <= Len(pending[last])
      /\ owed' = [owed EXCEPT ![running] = owed[running] \ pendingEvents[running]]
      /\ ownOwed' = [ownOwed EXCEPT ![running] = ownOwed[running] \ pendingEvents[running]]
      /\ UNCHANGED <<descriptors, queues, currentPending, slot, flags, sends, calls>>
      /\ last' = last /\ running' = running
  BY DEF ProcessIO, running, last
<1>2. PICK r \in IOs : r = running
  BY <1>1
<1>3. /\ owed' \in [IOs -> SUBSET Events] /\ ownOwed' \in [IOs -> SUBSET Events]
      /\ \A v \in IOs : owed'[v] = IF v = r THEN owed[v] \ pendingEvents[v] ELSE owed[v]
  BY <1>1, <1>2 DEF TypeOK
<1>4. TypeOK'
  BY <1>1, <1>3 DEF TypeOK
<1>5. QueueInv'
  BY <1>1, QueueKept
<1>6. PassInv'
  BY <1>1 DEF PassInv
<1>7. StartedInv' /\ SentInv'
  BY <1>1 DEF StartedInv, SentInv
<1>8. KeptInv'
  BY <1>1, <1>3 DEF KeptInv
<1>9. CallbackInv'
  BY <1>1, <1>2, <1>3 DEF CallbackInv, KeptInv
<1> QED BY <1>4, <1>5, <1>6, <1>7, <1>8, <1>9

LEMMA ProcessCountingStep ==
    ASSUME IInv, ProcessCounting
    PROVE  IInv'
<1> USE Kinds DEF IInv, descriptors, queues, flags, history
<1>1. /\ pc' = "callback" /\ running \in Counting /\ slot <= Len(pending[last])
      /\ unread[running] > 0
      /\ unread' = [unread EXCEPT ![running] = IF running \in Signals THEN unread[running] - 1 ELSE 0]
      /\ UNCHANGED <<started, ready, queues, currentPending, slot, flags, history, calls>>
      /\ last' = last /\ running' = running
  BY DEF ProcessCounting, running, last
<1>2. PICK r \in Counting : r = running
  BY <1>1
<1>3. unread[r] \in 1 .. MaxSends
  BY <1>1, <1>2, EdgeLoopAssumption DEF TypeOK
<1>4. \A n \in 1 .. MaxSends : n - 1 \in 0 .. MaxSends /\ 0 \in 0 .. MaxSends /\ n - 1 <= n /\ 0 <= n
  BY EdgeLoopAssumption
<1>5. PICK n \in 0 .. MaxSends : n <= unread[r] /\ unread' = [unread EXCEPT ![r] = n]
  BY <1>1, <1>2, <1>3, <1>4
<1>6. /\ unread' \in [Counting -> 0 .. MaxSends]
      /\ \A v \in Counting : unread'[v] = IF v = r THEN n ELSE unread[v]
  BY <1>5 DEF TypeOK
<1>7. TypeOK'
  BY <1>1, <1>6 DEF TypeOK
<1>8. QueueInv'
  BY <1>1, QueueKept
<1>9. PassInv' /\ StartedInv' /\ CallbackInv'
  BY <1>1 DEF PassInv, StartedInv, CallbackInv
<1>10. KeptInv'
  BY <1>1, <1>2, <1>6 DEF KeptInv
<1>11. SentInv'
  <2>1. n \in Nat /\ unread[r] \in Nat /\ sends \in Nat
    BY CountsNat, EdgeLoopAssumption
  <2> QED BY <2>1, <1>1, <1>5, <1>6 DEF SentInv
<1> QED BY <1>7, <1>8, <1>9, <1>10, <1>11

LEMMA ProcessDrainedStep ==
    ASSUME IInv, ProcessDrained
    PROVE  IInv'
<1> USE Kinds DEF IInv, descriptors, flags, history
<1>1. /\ pc = "slot" /\ running \in Counting /\ slot <= Len(pending[last])
      /\ unread[running] = 0 /\ slot' = slot + 1
      /\ pendingEvents' = [pendingEvents EXCEPT ![running] = {}]
      /\ UNCHANGED <<descriptors, place, pending, currentPending, pc, flags, history, calls>>
  BY DEF ProcessDrained
<1>2. PICK r \in Counting : r = running
  BY <1>1
<1>3. /\ pendingEvents' \in [Watchers -> SUBSET Events]
      /\ \A v \in Watchers : pendingEvents'[v] = IF v = r THEN {} ELSE pendingEvents[v]
  BY <1>1, <1>2 DEF TypeOK
<1>4. TypeOK'
  <2>1. slot' \in Nat \ {0}
    BY <1>1, SlotInWork
  <2> QED BY <1>1, <1>3, <2>1 DEF TypeOK
<1>5. QueueInv'
  BY <1>1, DoneQueue
<1>6. PassInv' /\ CallbackInv' /\ SentInv'
  BY <1>1 DEF PassInv, CallbackInv, SentInv
<1>7. StartedInv'
  BY <1>1, <1>3 DEF StartedInv
<1>8. KeptInv'
  BY <1>1, <1>2, <1>3 DEF KeptInv
<1> QED BY <1>4, <1>5, <1>6, <1>7, <1>8

\* The pending events of an I/O watcher are forgotten: its callback was given them.
LEMMA ReturnStep ==
    ASSUME IInv, Return
    PROVE  IInv'
<1> USE Kinds DEF IInv, descriptors, flags, history
<1>1. /\ pc = "callback" /\ pc' = "slot" /\ calls' = 0
      /\ UNCHANGED <<descriptors, place, pending, currentPending, flags, history>>
      /\ slot <= Len(pending[last])
  BY DEF Return, PassInv
<1>2. PICK r \in Slots : r = running
  BY <1>1, SlotInWork
<1>3. 0 \in 0 .. MaxCalls
  BY EdgeLoopAssumption
<1>4. CASE r \in Counting
  <2>1. UNCHANGED <<slot, pendingEvents>>
    BY <1>2, <1>4 DEF Return
  <2>2. TypeOK'
    BY <1>1, <1>3, <2>1 DEF TypeOK
  <2>3. QueueInv'
    BY <1>1, <2>1, QueueKept
  <2>4. PassInv' /\ StartedInv' /\ KeptInv' /\ CallbackInv' /\ SentInv'
    BY <1>1, <2>1 DEF PassInv, StartedInv, KeptInv, CallbackInv, SentInv
  <2> QED BY <2>2, <2>3, <2>4
<1>5. CASE r \notin Counting
  <2>1. /\ slot' = slot + 1
        /\ pendingEvents' = IF running = Null THEN pendingEvents
                            ELSE [pendingEvents EXCEPT ![running] = {}]
    BY <1>2, <1>5 DEF Return
  <2>2. /\ pendingEvents' \in [Watchers -> SUBSET Events]
        /\ \A v \in Watchers : pendingEvents'[v] = IF v = r THEN {} ELSE pendingEvents[v]
    BY <1>2, <2>1 DEF TypeOK, Slots
  <2>3. TypeOK'
    <3>1. slot' \in Nat \ {0}
      BY <1>1, <2>1, SlotInWork
    <3> QED BY <1>1, <1>3, <2>2, <3>1 DEF TypeOK
  <2>4. QueueInv'
    BY <1>1, <2>1, DoneQueue
  <2>5. PassInv' /\ CallbackInv' /\ SentInv'
    BY <1>1 DEF PassInv, CallbackInv, SentInv
  <2>6. StartedInv'
    BY <1>1, <2>2 DEF StartedInv
  <2>7. r \in IOs => owed[r] \subseteq ready[r]
    BY <1>1, <1>2 DEF CallbackInv
  <2>8. KeptInv'
    BY <1>1, <1>5, <2>2, <2>7 DEF KeptInv
  <2> QED BY <2>3, <2>4, <2>5, <2>6, <2>8
<1> QED BY <1>4, <1>5

\* When all slots were visited, no watcher has its place in them any more.
LEMMA EndPassStep ==
    ASSUME IInv, EndPass
    PROVE  IInv'
<1> USE DEF IInv, descriptors, flags, history
<1>1. /\ pc' = "end" /\ slot' = 1 /\ slot > Len(pending[last])
      /\ pending' = [pending EXCEPT ![last] = <<>>]
      /\ UNCHANGED <<descriptors, pendingEvents, place, currentPending, flags, history, calls>>
  BY DEF EndPass
<1>2. PICK l \in 0 .. 1, c \in 0 .. 1 : /\ l = last /\ c = currentPending /\ l # c
                                       /\ l' = last' /\ \A a \in 0 .. 1 : a \in {l, c}
  BY <1>1, ArrayTypes DEF last
<1>3. /\ pending' \in [0 .. 1 -> Seq(Slots)]
      /\ pending'[l] = <<>> /\ pending'[c] = pending[c]
  <2>1. pending \in [0 .. 1 -> Seq(Slots)] /\ <<>> \in Seq(Slots)
    BY EmptySeq DEF TypeOK, Slots
  <2> QED BY <2>1, <1>1, <1>2
<1>4. TypeOK'
  BY <1>1, <1>3 DEF TypeOK, Slots
<1>5. \A n \in Nat : ~Due(l, n)
  BY <1>1, <1>2, ArrayTypes DEF Due
<1>6. QueueInv'
  <2>1. \A w \in Watchers : pendingEvents'[w] # {} =>
           /\ Due(place[w].array, place[w].position)'
           /\ pending'[place'[w].array][place'[w].position] = w
    <3> TAKE w \in Watchers
    <3> HAVE pendingEvents'[w] # {}
    <3>1. PICK a \in 0 .. 1, n \in Nat : a = place[w].array /\ n = place[w].position
      BY ArrayTypes
    <3>2. Due(a, n) /\ pending[a][n] = w
      BY <3>1, <1>1 DEF QueueInv
    <3>3. a = c
      BY <3>2, <1>2, <1>5
    <3>4. n \in DOMAIN pending'[a] /\ pending'[a][n] = w /\ a # last'
      BY <3>2, <3>3, <1>2, <1>3 DEF Due
    <3> QED BY <3>1, <3>4, <1>1 DEF Due
  <2>2. \A a \in 0 .. 1 : \A n \in DOMAIN pending'[a] : Due(a, n)' /\ pending'[a][n] # Null =>
           /\ pendingEvents'[pending'[a][n]] # {}
           /\ place'[pending'[a][n]].array = a /\ place'[pending'[a][n]].position = n
    <3> TAKE a \in 0 .. 1
    <3> TAKE n \in DOMAIN pending'[a]
    <3>1. a = c
      BY <1>2, <1>3
    <3>2. n \in DOMAIN pending[a] /\ Due(a, n) /\ pending'[a][n] = pending[a][n]
      BY <3>1, <1>2, <1>3 DEF Due
    <3> QED BY <3>2, <1>1 DEF QueueInv
  <2> QED BY <2>1, <2>2 DEF QueueInv
<1>7. PassInv'
  BY <1>1, <1>2, <1>3 DEF PassInv
<1>8. StartedInv' /\ KeptInv' /\ CallbackInv' /\ SentInv'
  BY <1>1 DEF StartedInv, KeptInv, CallbackInv, SentInv
<1> QED BY <1>4, <1>6, <1>7, <1>8

LEMMA EndRoundStep ==
    ASSUME IInv, EndRound
    PROVE  IInv'
<1> USE DEF IInv, descriptors, queues, history
<1>1. /\ pc = "end" /\ pc' \in {"wait", "out"} /\ shutdown' = shutdown
      /\ run' = (run /\ ~shutdown /\ ~once) /\ once' = (once /\ run')
      /\ UNCHANGED <<descriptors, queues, currentPending, slot, history, calls>>
  BY DEF EndRound
<1>2. run' \in BOOLEAN /\ once' \in BOOLEAN
  BY <1>1
<1>3. TypeOK'
  <2>1. {run', once', shutdown'} \subseteq BOOLEAN
    BY <1>1, <1>2 DEF TypeOK
  <2> HIDE <1>2
  <2> QED BY <1>1, <2>1 DEF TypeOK
<1>4. QueueInv'
  BY <1>1, QueueKept
<1>5. PassInv' /\ StartedInv' /\ KeptInv' /\ CallbackInv' /\ SentInv'
  BY <1>1 DEF PassInv, StartedInv, KeptInv, CallbackInv, SentInv, last
<1> QED BY <1>3, <1>4, <1>5

-------------------------------------------------------------------------------
(* The theorems.                                                           *)

LEMMA IInvInit == Init => IInv
<1> SUFFICES ASSUME Init PROVE IInv
  OBVIOUS
<1> USE Kinds, EdgeLoopAssumption DEF Init
<1>1. TypeOK
  <2>1. <<>> \in Seq(Watchers \union {Null})
    BY EmptySeq
  <2>2. pending \in [0 .. 1 -> Seq(Watchers \union {Null})]
    BY <2>1
  <2>3. unread \in [Counting -> 0 .. MaxSends] /\ sends \in 0 .. MaxSends /\ calls \in 0 .. MaxCalls
    OBVIOUS
  <2>4. {run, once, shutdown} \subseteq BOOLEAN
    OBVIOUS
  <2>5. place \in [Watchers -> [array : 0 .. 1, position : Nat \ {0}]]
    OBVIOUS
  <2>6. /\ ready \in [Watchers -> SUBSET Events] /\ pendingEvents \in [Watchers -> SUBSET Events]
        /\ owed \in [IOs -> SUBSET Events] /\ ownOwed \in [IOs -> SUBSET Events]
    OBVIOUS
  <2> QED BY <2>2, <2>3, <2>5, <2>6, <2>4 DEF TypeOK
<1>2. QueueInv
  BY DEF QueueInv, Due
<1>3. PassInv
  BY DEF PassInv, last
<1>4. StartedInv /\ KeptInv /\ CallbackInv /\ SentInv
  BY DEF StartedInv, KeptInv, CallbackInv, SentInv
<1> QED BY <1>1, <1>2, <1>3, <1>4 DEF IInv

LEMMA IInvNext == IInv /\ [Next]_vars => IInv'
<1> SUFFICES ASSUME IInv, [Next]_vars PROVE IInv'
  OBVIOUS
<1>1. CASE Loop
  BY <1>1, WaitStep, SkipEmptiedStep, ProcessIOStep, ProcessCountingStep, ProcessDrainedStep,
     ReturnStep, EndPassStep, EndRoundStep DEF Loop
<1>2. CASE WaitFails
  BY <1>2, WaitFailsStep
<1>3. CASE Call
  BY <1>3, CallStep
<1>4. CASE \E o \in BOOLEAN : Run(o)
  BY <1>4, RunStep
<1>5. CASE \E w \in Counting : Raise(w)
  BY <1>5, RaiseStep
<1>6. CASE \E w \in IOs, e \in Events : Edge(w, e)
  BY <1>6, EdgeStep
<1>7. CASE UNCHANGED vars
  <2> USE <1>7 DEF vars, IInv, descriptors, queues, flags, history
  <2>1. TypeOK' /\ PassInv' /\ StartedInv' /\ KeptInv' /\ CallbackInv' /\ SentInv'
    BY DEF TypeOK, PassInv, StartedInv, KeptInv, CallbackInv, SentInv, running, last
  <2>2. QueueInv'
    BY QueueKept
  <2> QED BY <2>1, <2>2
<1> QED BY <1>1, <1>2, <1>3, <1>4, <1>5, <1>6, <1>7 DEF Next

\* The inductive invariant of the loop.
THEOREM LoopInvariant == Spec => []IInv
<1> QED BY IInvInit, IInvNext, PTL DEF Spec

\* The slots ahead of the second pass, as pairs and with array and position apart.
LEMMA AheadDue ==
    ASSUME TypeOK
    PROVE  /\ \A a \in 0 .. 1, n \in Nat : Due(a, n) => <<a, n>> \in Ahead
           /\ \A s \in Ahead : \E a \in 0 .. 1, n \in Nat :
                 /\ s = <<a, n>> /\ Due(a, n) /\ Held(s) = pending[a][n]
                 /\ pending[a][n] \in Slots
<1>1. \A a \in 0 .. 1, n \in Nat : Due(a, n) => <<a, n>> \in Ahead
  BY ArrayTypes DEF Due, Ahead, last
<1>2. ASSUME NEW s \in Ahead
      PROVE  \E a \in 0 .. 1, n \in Nat :
                /\ s = <<a, n>> /\ Due(a, n) /\ Held(s) = pending[a][n]
                /\ pending[a][n] \in Slots
  <2>1. PICK a \in 0 .. 1, n \in Nat : s = <<a, n>> /\ Due(a, n)
    BY <1>2, ArrayTypes DEF Ahead, Due
  <2>2. Held(s) = pending[a][n] /\ pending[a][n] \in Slots
    BY <2>1, ArrayTypes DEF Held, Due
  <2> QED BY <2>1, <2>2
<1> QED BY <1>1, <1>2

\* A watcher with pending events has its place ahead.
LEMMA PendingAhead ==
    ASSUME IInv, NEW w \in Watchers, pendingEvents[w] # {}
    PROVE  PlaceOf(w) \in Ahead /\ Held(PlaceOf(w)) = w
<1> USE DEF IInv
<1>1. PICK a \in 0 .. 1, n \in Nat : a = place[w].array /\ n = place[w].position
  BY ArrayTypes
<1>2. Due(a, n) /\ pending[a][n] = w
  BY <1>1 DEF QueueInv
<1>3. PlaceOf(w) = <<a, n>>
  BY <1>1 DEF PlaceOf
<1> QED BY <1>2, <1>3, AheadDue DEF Held

\* What swEdgeLoopWatcherRemove relies on, whatever callbacks did before: pending watchers
\* and the slots yet to be processed stand for each other, one to one.
THEOREM PlacesRight == Spec => []Consistent
<1>1. ASSUME IInv
      PROVE  Consistent
  <2> USE <1>1 DEF IInv
  <2>1. ASSUME NEW s \in Ahead, Held(s) # Null
        PROVE  pendingEvents[Held(s)] # {} /\ PlaceOf(Held(s)) = s
    <3>1. PICK a \in 0 .. 1, n \in Nat :
             s = <<a, n>> /\ Due(a, n) /\ Held(s) = pending[a][n] /\ pending[a][n] \in Slots
      BY AheadDue
    <3>2. /\ pendingEvents[pending[a][n]] # {}
          /\ place[pending[a][n]].array = a /\ place[pending[a][n]].position = n
      BY <2>1, <3>1 DEF QueueInv, Due
    <3> QED BY <3>1, <3>2 DEF PlaceOf
  <2> QED BY <2>1, PendingAhead DEF Consistent, PendingConsistent
<1> QED BY <1>1, LoopInvariant, PTL

\* The loop calls no callback of a watcher that was stopped.
THEOREM CallbacksFresh == Spec => []NoStaleCallback
<1>1. ASSUME IInv
      PROVE  NoStaleCallback
  <2> USE <1>1 DEF IInv
  <2> SUFFICES ASSUME NEW s \in Ahead PROVE Held(s) \in started \union {Null}
    BY DEF NoStaleCallback
  <2>1. PICK a \in 0 .. 1, n \in Nat :
           s = <<a, n>> /\ Due(a, n) /\ Held(s) = pending[a][n] /\ pending[a][n] \in Slots
    BY AheadDue
  <2>2. pending[a][n] # Null => pendingEvents[pending[a][n]] # {}
    BY <2>1 DEF QueueInv, Due
  <2> QED BY <2>1, <2>2 DEF StartedInv, Slots
<1> QED BY <1>1, LoopInvariant, PTL

\* Until a callback was given an event, the kernel or the loop has it.
THEOREM NoEdgeLost == Spec => []EdgesKept
<1>1. ASSUME IInv
      PROVE  EdgesKept
  <2> USE <1>1, Kinds DEF IInv
  <2>1. \A w \in Watchers : Coming(w) = ready[w] \union pendingEvents[w]
    BY PendingAhead DEF Coming
  <2> QED BY <2>1 DEF EdgesKept, KeptInv
<1> QED BY <1>1, LoopInvariant, PTL

\* The loop blocks in epoll_wait only when nothing is pending.
THEOREM BlocksIdle == Spec => []WaitsOnlyIdle
<1>1. ASSUME IInv
      PROVE  WaitsOnlyIdle
  <2> USE <1>1 DEF IInv
  <2> SUFFICES ASSUME pc = "wait", pending[currentPending] = <<>>,
                      NEW w \in Watchers, pendingEvents[w] # {}
               PROVE  FALSE
    BY DEF WaitsOnlyIdle
  <2>1. PICK a \in 0 .. 1, n \in Nat : a = place[w].array /\ n = place[w].position
    BY ArrayTypes
  <2>2. Due(a, n)
    BY <2>1 DEF QueueInv
  <2>3. pending[a] = <<>>
    BY ArrayTypes DEF PassInv, last
  <2> QED BY <2>2, <2>3 DEF Due
<1> QED BY <1>1, LoopInvariant, PTL

===============================================================================

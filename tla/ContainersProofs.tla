--------------------------- MODULE ContainersProofs ---------------------------
(***************************************************************************)
(* Proofs about the memory that grows with its content (Growable), the bit  *)
(* maps (BitMap), and the hash map and set (HashMapLinear, HashSetLinear),   *)
(* each for its own specification.                                          *)
(***************************************************************************)
EXTENDS Containers, SequenceTheorems, FiniteSetTheorems, FunctionTheorems,
        WellFoundedInduction, TLAPS

\* A set of numbers that is not empty has a least one.
LEMMA LeastNumber ==
  ASSUME NEW S, S \subseteq Nat, S # {}
  PROVE  \E q \in S : \A r \in S : q <= r
<1>1. IsWellFoundedOn(OpToRel(<, Nat), Nat)
  BY NatLessThanWellFounded
<1>2. PICK q \in S : \A r \in S : ~(<<r, q>> \in OpToRel(<, Nat))
  BY <1>1, WFMin
<1>3. \A r \in S : r < q => <<r, q>> \in OpToRel(<, Nat)
  BY <1>2 DEF OpToRel
<1>4. \A r \in S : ~(r < q)
  BY <1>2, <1>3, Zenon
<1>5. \A r \in S : q <= r
  BY <1>4
<1> QED  BY <1>5

-------------------------------------------------------------------------------
(* Powers of two: the recursive function is there, and grows.                *)

\* A function that holds the powers up to a number.
PowersTo(n, f) ==
  /\ DOMAIN f = 0 .. n /\ f[0] = 1
  /\ \A i \in 0 .. n : f[i] \in Nat
  /\ \A i \in 1 .. n : f[i] = 2 * f[i - 1]

\* There is such a function for every number.
LEMMA PowersThere ==
  ASSUME NEW n \in Nat PROVE \E f : PowersTo(n, f)
<1> DEFINE Without == {k \in Nat : ~ \E f : PowersTo(k, f)}
<1>1. Without = {}
  <2> SUFFICES ASSUME Without # {} PROVE FALSE
    OBVIOUS
  <2>1. PICK k \in Without : \A j \in Without : k <= j
    BY LeastNumber
  <2>2. k # 0
    <3>1. PowersTo(0, [i \in 0 .. 0 |-> 1])
      BY DEF PowersTo
    <3> QED  BY <2>1, <3>1
  <2>3. k \in Nat /\ k - 1 \in Nat /\ k - 1 \notin Without
    BY <2>1, <2>2
  <2>4. PICK f : PowersTo(k - 1, f)
    BY <2>3
  <2> DEFINE g == [i \in 0 .. k |-> IF i = k THEN 2 * f[k - 1] ELSE f[i]]
  <2>5. /\ f[0] = 1 /\ \A i \in 0 .. k - 1 : f[i] \in Nat
        /\ \A i \in 1 .. k - 1 : f[i] = 2 * f[i - 1]
    BY <2>4 DEF PowersTo
  <2>6. /\ DOMAIN g = 0 .. k /\ g[k] = 2 * f[k - 1]
        /\ \A i \in 0 .. k - 1 : g[i] = f[i]
    BY <2>3
  <2> HIDE DEF g
  <2>7. g[0] = 1
    BY <2>2, <2>3, <2>5, <2>6
  <2>8. ASSUME NEW i \in 0 .. k PROVE g[i] \in Nat
    <3>1. i = k \/ i \in 0 .. k - 1
      BY <2>3
    <3>2. k - 1 \in 0 .. k - 1 /\ f[k - 1] \in Nat
      BY <2>3, <2>5
    <3>3. g[k] \in Nat
      BY <2>6, <3>2
    <3> QED  BY <2>5, <2>6, <3>1, <3>3
  <2>9. ASSUME NEW i \in 1 .. k PROVE g[i] = 2 * g[i - 1]
    <3>1. (i = k \/ i \in 1 .. k - 1) /\ i - 1 \in 0 .. k - 1
      BY <2>3
    <3>2. g[i - 1] = f[i - 1]
      BY <2>6, <3>1
    <3> QED  BY <2>3, <2>5, <2>6, <3>1, <3>2
  <2>10. PowersTo(k, g)
    BY <2>6, <2>7, <2>8, <2>9 DEF PowersTo
  <2> QED  BY <2>1, <2>10
<1> QED  BY <1>1

\* Two such functions agree where both are defined.
LEMMA PowersOne ==
  ASSUME NEW m \in Nat, NEW n \in Nat, m <= n, NEW f, NEW g, PowersTo(m, f), PowersTo(n, g)
  PROVE  \A i \in 0 .. m : f[i] = g[i]
<1> DEFINE Apart == {i \in 0 .. m : f[i] # g[i]}
<1>1. Apart = {}
  <2> SUFFICES ASSUME Apart # {} PROVE FALSE
    OBVIOUS
  <2>1. PICK i \in Apart : \A j \in Apart : i <= j
    <3>1. Apart \subseteq Nat
      OBVIOUS
    <3> QED  BY <3>1, LeastNumber
  <2>2. i # 0
    BY <2>1 DEF PowersTo
  <2>3. i \in 1 .. m /\ i \in 1 .. n /\ i - 1 \in 0 .. m /\ i - 1 \notin Apart
    BY <2>1, <2>2
  <2>4. f[i - 1] = g[i - 1]
    BY <2>3
  <2>5. f[i] = 2 * f[i - 1] /\ g[i] = 2 * g[i - 1]
    BY <2>3 DEF PowersTo
  <2> QED  BY <2>1, <2>4, <2>5
<1> QED  BY <1>1

\* What the shift by a number is.
LEMMA PowerDoubles ==
  /\ Memory!Power[0] = 1
  /\ \A n \in Nat : Memory!Power[n] \in Nat
  /\ \A n \in Nat \ {0} : Memory!Power[n] = 2 * Memory!Power[n - 1]
<1> DEFINE upTo(n) == CHOOSE f : PowersTo(n, f)
           all == [n \in Nat |-> upTo(n)[n]]
<1>1. \A n \in Nat : PowersTo(n, upTo(n))
  BY PowersThere
<1> HIDE DEF upTo
<1>2. all[0] = 1
  BY <1>1 DEF PowersTo
<1>3. ASSUME NEW n \in Nat PROVE all[n] \in Nat
  <2>1. n \in 0 .. n /\ PowersTo(n, upTo(n))
    BY <1>1
  <2> QED  BY <2>1 DEF PowersTo
<1>4. ASSUME NEW n \in Nat \ {0} PROVE all[n] = 2 * all[n - 1]
  <2>1. n \in 1 .. n /\ n - 1 \in Nat /\ n - 1 <= n /\ n - 1 \in 0 .. n - 1
    OBVIOUS
  <2>2. PowersTo(n, upTo(n)) /\ PowersTo(n - 1, upTo(n - 1))
    BY <1>1, <2>1
  <2>3. upTo(n)[n] = 2 * upTo(n)[n - 1]
    BY <2>1, <2>2 DEF PowersTo
  <2>4. upTo(n - 1)[n - 1] = upTo(n)[n - 1]
    BY <2>1, <2>2, PowersOne
  <2> QED  BY <2>1, <2>3, <2>4
<1>5. all = [n \in Nat |-> IF n = 0 THEN 1 ELSE 2 * all[n - 1]]
  <2> DEFINE next == [n \in Nat |-> IF n = 0 THEN 1 ELSE 2 * all[n - 1]]
  <2>1. \A n \in Nat : all[n] = next[n]
    <3> HIDE DEF all
    <3> QED  BY <1>2, <1>4
  <2>2. all = [n \in Nat |-> all[n]] /\ next = [n \in Nat |-> next[n]]
    OBVIOUS
  <2> HIDE DEF all, next
  <2>3. all = next
    BY <2>1, <2>2
  <2> QED  BY <2>3 DEF next
<1> HIDE DEF all
<1>6. Memory!Power = [n \in Nat |-> IF n = 0 THEN 1 ELSE 2 * Memory!Power[n - 1]]
  BY <1>5 DEF Memory!Power
<1> DEFINE p == Memory!Power
<1>7. p = [n \in Nat |-> IF n = 0 THEN 1 ELSE 2 * p[n - 1]]
  BY <1>6
<1> HIDE DEF p
<1>8. p[0] = 1 /\ \A n \in Nat \ {0} : p[n] = 2 * p[n - 1]
  BY <1>7
<1>9. \A n \in Nat : p[n] \in Nat
  <2> DEFINE Not == {n \in Nat : p[n] \notin Nat}
  <2> SUFFICES ASSUME Not # {} PROVE FALSE
    OBVIOUS
  <2>1. PICK k \in Not : \A j \in Not : k <= j
    BY LeastNumber
  <2>2. k \in Nat \ {0} /\ k - 1 \in Nat /\ k - 1 \notin Not
    BY <1>8, <2>1
  <2>3. p[k - 1] \in Nat /\ p[k] = 2 * p[k - 1]
    BY <1>8, <2>2
  <2> QED  BY <2>1, <2>3
<1> QED  BY <1>8, <1>9 DEF p

\* A power is above its exponent.
LEMMA PowerAbove ==
  ASSUME NEW n \in Nat PROVE Memory!Power[n] > n
<1> DEFINE p == Memory!Power
           Not == {k \in Nat : ~(p[k] > k)}
<1>1. p[0] = 1 /\ (\A k \in Nat : p[k] \in Nat) /\ \A k \in Nat \ {0} : p[k] = 2 * p[k - 1]
  BY PowerDoubles
<1> HIDE DEF p
<1>2. Not = {}
  <2> SUFFICES ASSUME Not # {} PROVE FALSE
    OBVIOUS
  <2>1. PICK k \in Not : \A j \in Not : k <= j
    BY LeastNumber
  <2>2. k \in Nat \ {0} /\ k - 1 \in Nat /\ k - 1 \notin Not
    BY <1>1, <2>1
  <2>3. p[k - 1] \in Nat /\ p[k - 1] > k - 1 /\ p[k] = 2 * p[k - 1] /\ ~(p[k] > k)
    BY <1>1, <2>1, <2>2
  <2> QED  BY <2>2, <2>3
<1> QED  BY <1>2 DEF p

\* Shifting one by the number of bits of a number gives more than the number.
LEMMA BitsAbove ==
  ASSUME NEW n \in Nat
  PROVE  /\ Memory!Bits(n) \in Nat
         /\ Memory!Power[Memory!Bits(n)] \in Nat /\ Memory!Power[Memory!Bits(n)] > n
         /\ Memory!Bits(n) > 0 => Memory!Power[Memory!Bits(n) - 1] <= n
<1> DEFINE p == Memory!Power
           Above == {k \in Nat : p[k] > n}
<1>1. (\A k \in Nat : p[k] \in Nat) /\ p[n] > n
  BY PowerDoubles, PowerAbove
<1> HIDE DEF p
<1>2. PICK i \in Above : \A j \in Above : i <= j
  BY <1>1, LeastNumber
<1>3. i \in Nat /\ i <= n /\ p[i] > n
  BY <1>1, <1>2
<1>4. i > 0 => p[i - 1] <= n
  <2> SUFFICES ASSUME i > 0 PROVE p[i - 1] <= n
    OBVIOUS
  <2>1. i - 1 \in Nat /\ i - 1 \notin Above
    BY <1>2, <1>3
  <2>2. ~(p[i - 1] > n) /\ p[i - 1] \in Nat
    BY <1>1, <2>1
  <2> QED  BY <2>2
<1>5. \E k \in 0 .. n : p[k] > n /\ (k > 0 => p[k - 1] <= n)
  BY <1>3, <1>4
<1>6. /\ Memory!Bits(n) \in 0 .. n /\ p[Memory!Bits(n)] > n
      /\ Memory!Bits(n) > 0 => p[Memory!Bits(n) - 1] <= n
  BY <1>5 DEF Memory!Bits, p
<1>7. Memory!Bits(n) \in Nat
  BY <1>6
<1> QED  BY <1>1, <1>6, <1>7 DEF p

-------------------------------------------------------------------------------
(* Memory that grows                                                         *)

Blocks == [memory : Seq(Bytes), size : Nat, used : Nat]

\* The block has all the memory of its size, and its first items are the content.
Holds(block, inside) ==
  /\ block \in Blocks /\ inside \in Seq(Bytes)
  /\ block.size = Len(block.memory) /\ block.used = Len(inside) /\ block.used <= block.size
  /\ \A i \in 1 .. block.used : block.memory[i] = inside[i]

\* What is held is kept.
LEMMA HeldIsKept ==
  ASSUME NEW block, NEW inside, Holds(block, inside)
  PROVE  Memory!Keeps(block, inside) /\ block.size = Len(block.memory)
<1> DEFINE m == block.memory  n == block.used  part == SubSeq(m, 1, n)
<1>1. /\ m \in Seq(Bytes) /\ n \in Nat /\ n <= Len(m) /\ inside \in Seq(Bytes)
      /\ Len(inside) = n /\ \A i \in 1 .. n : m[i] = inside[i]
      /\ block.size = Len(m)
  BY DEF Holds, Blocks
<1> HIDE DEF m, n
<1>2. part \in Seq(Bytes) /\ Len(part) = n /\ \A i \in 1 .. n : part[i] = m[i]
  BY <1>1
<1> HIDE DEF part
<1>3. part = inside
  BY <1>1, <1>2, SeqEqual
<1> QED  BY <1>1, <1>3 DEF m, n, part, Memory!Keeps, Memory!Content

\* Memory that is new holds nothing.
LEMMA AllocatedHolds ==
  ASSUME NEW n \in Nat
  PROVE  /\ Holds(Memory!Allocated(n), <<>>) /\ Memory!Allocated(n).used = 0
         /\ Memory!Allocated(n).size = n
<1> DEFINE m == [i \in 1 .. n |-> Junk]
<1>1. m \in Seq(Bytes) /\ Len(m) = n
  <2>1. Junk \in Bytes
    BY DEF Bytes
  <2> QED  BY <2>1
<1> HIDE DEF m
<1>2. Memory!Allocated(n) = [memory |-> m, size |-> n, used |-> 0]
  BY DEF Memory!Allocated, m
<1>3. <<>> \in Seq(Bytes) /\ Len(<<>>) = 0
  OBVIOUS
<1> QED  BY <1>1, <1>2, <1>3 DEF Holds, Blocks

\* Memory that is moved keeps the content that it has room for.
LEMMA ReallocHolds ==
  ASSUME NEW block, NEW inside, Holds(block, inside), NEW n \in Nat, block.used <= n
  PROVE  /\ Holds(Memory!Realloc(block, n, n), inside)
         /\ Memory!Realloc(block, n, n).used = block.used
         /\ Memory!Realloc(block, n, n).size = n
         /\ \A i \in 1 .. n :
               i <= block.size => Memory!Realloc(block, n, n).memory[i] = block.memory[i]
<1> DEFINE old == block.memory  m == [i \in 1 .. n |-> IF i <= Len(old) THEN old[i] ELSE Junk]
           new == Memory!Realloc(block, n, n)
<1>1. /\ block \in Blocks /\ old \in Seq(Bytes) /\ Len(old) \in Nat /\ block.used \in Nat
      /\ block.used <= Len(old) /\ inside \in Seq(Bytes) /\ block.used = Len(inside)
      /\ block.size = Len(old)
      /\ \A i \in 1 .. block.used : old[i] = inside[i]
  BY DEF Holds, Blocks
<1>2. new = [block EXCEPT !.size = n, !.memory = m]
  BY DEF Memory!Realloc
<1>3. /\ m \in Seq(Bytes) /\ Len(m) = n
      /\ \A i \in 1 .. n : i <= Len(old) => m[i] = old[i]
  <2>1. Junk \in Bytes
    BY DEF Bytes
  <2>2. \A i \in 1 .. n : (IF i <= Len(old) THEN old[i] ELSE Junk) \in Bytes
    BY <1>1, <2>1
  <2>3. m \in Seq(Bytes) /\ Len(m) = n
    BY <2>2
  <2> QED  BY <1>1, <2>3
<1> HIDE DEF m
<1>4. new.memory = m /\ new.size = n /\ new.used = block.used /\ new \in Blocks
  BY <1>1, <1>2, <1>3 DEF Blocks
<1> HIDE DEF new
<1>5. Holds(new, inside)
  BY <1>1, <1>3, <1>4 DEF Holds
<1> QED  BY <1>1, <1>3, <1>4, <1>5 DEF new

\* The block once a piece is put at an offset, and so many items are in use.
Overwritten(block, offset, piece, n) == [Memory!Put(block, offset, piece) EXCEPT !.used = n]

\* The content then.
Overlays(whole, inside, piece, offset, n) ==
  /\ whole \in Seq(Bytes) /\ Len(whole) = n
  /\ n <= Len(inside) \/ n <= offset + Len(piece)
  /\ \A i \in 1 .. n : whole[i] = IF i \in offset + 1 .. offset + Len(piece)
                                 THEN piece[i - offset] ELSE inside[i]

\* A piece that is put where there is room for it is there, and the rest stays.
LEMMA PutHolds ==
  ASSUME NEW block, NEW inside, Holds(block, inside), NEW piece \in Seq(Bytes),
         NEW offset \in Nat, offset <= block.used, NEW n \in Nat, n <= block.size,
         offset + Len(piece) <= block.size,
         NEW whole, Overlays(whole, inside, piece, offset, n)
  PROVE  Holds(Overwritten(block, offset, piece, n), whole)
<1> DEFINE old == block.memory
           Of(i) == i \in offset + 1 .. offset + Len(piece)
           m == [i \in 1 .. Len(old) |-> IF Of(i) THEN piece[i - offset] ELSE old[i]]
           new == Overwritten(block, offset, piece, n)
<1>1. /\ block \in Blocks /\ old \in Seq(Bytes) /\ Len(old) \in Nat /\ block.used \in Nat
      /\ block.size = Len(old) /\ block.used <= Len(old)
      /\ \A i \in 1 .. block.used : old[i] = inside[i]
      /\ n <= block.used \/ n <= offset + Len(piece)
      /\ whole \in Seq(Bytes) /\ Len(whole) = n
      /\ \A i \in 1 .. n : whole[i] = IF Of(i) THEN piece[i - offset] ELSE inside[i]
  BY DEF Holds, Blocks, Overlays
<1>2. new = [[block EXCEPT !.memory = m] EXCEPT !.used = n]
  BY DEF Overwritten, Memory!Put
<1>3. m \in Seq(Bytes) /\ Len(m) = Len(old)
  <2>1. \A i \in 1 .. Len(old) : (IF Of(i) THEN piece[i - offset] ELSE old[i]) \in Bytes
    <3>1. \A i \in 1 .. Len(piece) : piece[i] \in Bytes
      OBVIOUS
    <3>2. \A i \in 1 .. Len(old) : Of(i) => i - offset \in 1 .. Len(piece)
      OBVIOUS
    <3>3. \A i \in 1 .. Len(old) : old[i] \in Bytes
      BY <1>1
    <3> HIDE DEF Of
    <3> QED  BY <3>1, <3>2, <3>3
  <2> HIDE DEF Of
  <2> QED  BY <1>1, <2>1
<1>4. ASSUME NEW i \in 1 .. n PROVE m[i] = whole[i]
  <2>1. i \in 1 .. Len(old)
    BY <1>1
  <2>2. m[i] = IF Of(i) THEN piece[i - offset] ELSE old[i]
    <3> HIDE DEF Of
    <3> QED  BY <2>1
  <2>3. CASE Of(i)
    BY <1>1, <2>2, <2>3
  <2>4. CASE ~Of(i)
    <3>1. i \in 1 .. block.used
      BY <1>1, <2>4
    <3> QED  BY <1>1, <2>2, <2>4, <3>1
  <2> QED  BY <2>3, <2>4
<1> HIDE DEF m
<1>5. new.memory = m /\ new.size = block.size /\ new.used = n /\ new \in Blocks
  BY <1>1, <1>2, <1>3 DEF Blocks
<1> HIDE DEF new
<1>6. Holds(new, whole)
  BY <1>1, <1>3, <1>4, <1>5 DEF Holds
<1> QED  BY <1>6 DEF new

\* A piece put behind the content.
LEMMA ExtendHolds ==
  ASSUME NEW block, NEW inside, Holds(block, inside), NEW piece \in Seq(Bytes),
         block.used + Len(piece) <= block.size
  PROVE  Holds(Memory!Extend(block, piece), inside \o piece)
<1> DEFINE whole == inside \o piece
<1>1. PICK k \in Nat : k = block.used
  BY DEF Holds, Blocks
<1>2. PICK n \in Nat : n = k + Len(piece)
  OBVIOUS
<1>3. /\ Len(inside) = k /\ inside \in Seq(Bytes) /\ k <= block.used /\ n <= block.size
      /\ k + Len(piece) <= block.size
  BY <1>1, <1>2 DEF Holds
<1>4. /\ whole \in Seq(Bytes) /\ Len(whole) = n
      /\ \A i \in 1 .. n : whole[i] = IF i <= k THEN inside[i] ELSE piece[i - k]
  BY <1>2, <1>3, ConcatProperties
<1> HIDE DEF whole
<1>5. ASSUME NEW i \in 1 .. n
      PROVE  whole[i] = IF i \in k + 1 .. k + Len(piece) THEN piece[i - k] ELSE inside[i]
  BY <1>2, <1>4
<1>6. n <= Len(inside) \/ n <= k + Len(piece)
  BY <1>2
<1>7. Holds(Overwritten(block, k, piece, n), whole)
  <2>1. Overlays(whole, inside, piece, k, n)
    BY <1>3, <1>4, <1>5, <1>6 DEF Overlays
  <2> QED  BY <1>3, <2>1, PutHolds
<1> QED  BY <1>1, <1>2, <1>7 DEF Memory!Extend, Overwritten, whole

\* The last item is dropped, or all are.
LEMMA DropHolds ==
  ASSUME NEW block, NEW inside, Holds(block, inside), block.used > 0
  PROVE  Holds([block EXCEPT !.used = @ - 1], SubSeq(inside, 1, Len(inside) - 1))
<1> DEFINE n == block.used - 1  part == SubSeq(inside, 1, Len(inside) - 1)
           new == [block EXCEPT !.used = @ - 1]
<1>1. /\ block \in Blocks /\ inside \in Seq(Bytes) /\ block.used = Len(inside) /\ n \in Nat
      /\ block.used \in Nat
      /\ block.size = Len(block.memory) /\ block.used <= block.size /\ block.size \in Nat
      /\ \A i \in 1 .. block.used : block.memory[i] = inside[i]
  BY DEF Holds, Blocks
<1>2. part \in Seq(Bytes) /\ Len(part) = n /\ \A i \in 1 .. n : part[i] = inside[i]
  <2>1. part = SubSeq(inside, 1, n) /\ n <= Len(inside)
    BY <1>1
  <2> HIDE DEF n, part
  <2> QED  BY <1>1, <2>1
<1>3. new \in Blocks /\ new.memory = block.memory /\ new.size = block.size /\ new.used = n
  BY <1>1 DEF Blocks
<1> HIDE DEF part, new
<1>4. Holds(new, part)
  BY <1>1, <1>2, <1>3 DEF Holds
<1> QED  BY <1>4 DEF new, part

\* Memory that is cleared holds nothing.
LEMMA ClearHolds ==
  ASSUME NEW block, NEW inside, Holds(block, inside)
  PROVE  Holds([block EXCEPT !.used = 0], <<>>)
<1> DEFINE new == [block EXCEPT !.used = 0]
<1>1. /\ block \in Blocks /\ block.size = Len(block.memory) /\ block.size \in Nat
  BY DEF Holds, Blocks
<1>2. new \in Blocks /\ new.memory = block.memory /\ new.size = block.size /\ new.used = 0
  BY <1>1 DEF Blocks
<1>3. <<>> \in Seq(Bytes) /\ Len(<<>>) = 0
  OBVIOUS
<1> HIDE DEF new
<1> QED  BY <1>1, <1>2, <1>3 DEF Holds, new

\* An array is given room for an index, or more.
LEMMA ResizeHolds ==
  ASSUME NEW block, NEW inside, Holds(block, inside), NEW n \in Nat, block.used <= n
  PROVE  /\ Holds(Memory!Resize(block, n), inside)
         /\ Memory!Resize(block, n).used = block.used /\ Memory!Resize(block, n).size > n
<1> DEFINE room == Memory!Capacity(n)
<1>1. room \in Nat /\ room > n
  <2>1. n + 1 \in Nat
    OBVIOUS
  <2>2. Memory!Power[Memory!Bits(n + 1)] \in Nat /\ Memory!Power[Memory!Bits(n + 1)] > n + 1
    BY <2>1, BitsAbove
  <2> QED  BY <2>2 DEF Memory!Capacity
<1> HIDE DEF room
<1>2. block.used \in Nat /\ block.used <= room
  BY <1>1 DEF Holds, Blocks
<1>3. CASE room = block.size
  BY <1>1, <1>3 DEF Memory!Resize, room
<1>4. CASE room # block.size
  <2>1. Memory!Resize(block, n) = Memory!Realloc(block, room, room)
    BY <1>4 DEF Memory!Resize, room
  <2> QED  BY <1>1, <1>2, <2>1, ReallocHolds
<1> QED  BY <1>3, <1>4

\* Memory that is made to fit a size keeps what it holds, and has that size.
LEMMA FittedHolds ==
  ASSUME NEW block, NEW inside, Holds(block, inside), NEW n \in Nat, block.used <= n
  PROVE  /\ Holds(Memory!Fitted(block, n), inside)
         /\ Memory!Fitted(block, n).used = block.used /\ Memory!Fitted(block, n).size >= n
<1>1. block.size \in Nat
  BY DEF Holds, Blocks
<1>2. CASE n <= block.size
  BY <1>1, <1>2 DEF Memory!Fitted
<1>3. CASE ~(n <= block.size)
  <2>1. Memory!Fitted(block, n) = Memory!Resize(block, n)
    BY <1>3 DEF Memory!Fitted
  <2>2. /\ Holds(Memory!Resize(block, n), inside)
        /\ Memory!Resize(block, n).used = block.used /\ Memory!Resize(block, n).size > n
    BY ResizeHolds
  <2>3. Memory!Resize(block, n).size \in Nat
    BY <2>2 DEF Holds, Blocks
  <2> QED  BY <2>1, <2>2, <2>3
<1> QED  BY <1>2, <1>3

\* A buffer or a string is given room.
LEMMA LargerHolds ==
  ASSUME NEW block, NEW inside, Holds(block, inside), NEW n \in Nat
  PROVE  /\ Holds(Memory!Larger(block, n), inside)
         /\ Memory!Larger(block, n).used = block.used /\ Memory!Larger(block, n).size >= n
         /\ Memory!Larger(block, n).size >= block.size
         /\ \A i \in 1 .. block.size : Memory!Larger(block, n).memory[i] = block.memory[i]
<1>1. block.size \in Nat /\ block.used \in Nat /\ block.used <= block.size
  BY DEF Holds, Blocks
<1>2. CASE block.size < n
  <2> DEFINE new == Memory!Realloc(block, n, n)
  <2>1. /\ Holds(new, inside) /\ new.used = block.used /\ new.size = n
        /\ \A i \in 1 .. n : i <= block.size => new.memory[i] = block.memory[i]
    BY <1>1, <1>2, ReallocHolds
  <2>2. Memory!Larger(block, n) = new
    BY <1>2 DEF Memory!Larger
  <2> HIDE DEF new
  <2> QED  BY <1>1, <1>2, <2>1, <2>2
<1>3. CASE ~(block.size < n)
  BY <1>1, <1>3 DEF Memory!Larger
<1> QED  BY <1>2, <1>3

\* A piece is appended to an array.
LEMMA AppendHolds ==
  ASSUME NEW block, NEW inside, Holds(block, inside), NEW piece \in Seq(Bytes)
  PROVE  Holds(Memory!Extend(Memory!Fitted(block, block.used + Len(piece)), piece),
               inside \o piece)
<1>1. block.used \in Nat /\ Len(piece) \in Nat
  BY DEF Holds, Blocks
<1>2. PICK n \in Nat : n = block.used + Len(piece)
  BY <1>1
<1> DEFINE fitted == Memory!Fitted(block, n)
<1>3. Holds(fitted, inside) /\ fitted.used = block.used /\ fitted.size >= n
  BY <1>1, <1>2, FittedHolds
<1> HIDE DEF fitted
<1>4. Holds(Memory!Extend(fitted, piece), inside \o piece)
  BY <1>2, <1>3, ExtendHolds
<1> QED  BY <1>2, <1>4 DEF fitted

\* Content that is put in new memory.
LEMMA FilledHolds ==
  ASSUME NEW n \in Nat, NEW piece \in Seq(Bytes), Len(piece) <= n
  PROVE  Holds(Memory!Extend(Memory!Allocated(n), piece), piece)
<1> DEFINE new == Memory!Allocated(n)
<1>1. Holds(new, <<>>) /\ new.used = 0 /\ new.size = n
  BY AllocatedHolds
<1> HIDE DEF new
<1>2. Holds(Memory!Extend(new, piece), <<>> \o piece)
  <2>1. new.used + Len(piece) <= new.size
    BY <1>1
  <2> QED  BY <1>1, <2>1, ExtendHolds
<1>3. <<>> \o piece = piece
  BY ConcatEmptySeq
<1> QED  BY <1>2, <1>3 DEF new

\* The zero behind the last byte in use.
Ends(block) == block.used < block.size /\ block.memory[block.used + 1] = Zero

\* A piece that a string ends with.
LEMMA EndedHolds ==
  ASSUME NEW block, NEW inside, Holds(block, inside), NEW piece \in Seq(Bytes),
         NEW offset \in Nat, offset <= block.used,
         NEW whole \in Seq(Bytes), Len(whole) = offset + Len(piece),
         \A i \in 1 .. Len(whole) : whole[i] = IF i <= offset THEN inside[i] ELSE piece[i - offset]
  PROVE  Holds(Memory!Ended(block, offset, piece), whole) /\ Ends(Memory!Ended(block, offset, piece))
<1>1. PICK end \in Nat : end = offset + Len(piece)
  OBVIOUS
<1> DEFINE roomy == IF end >= block.size THEN Memory!Realloc(block, end + 1, end + 1) ELSE block
           last == piece \o <<Zero>>
           new == Overwritten(roomy, offset, last, end)
<1>2. Holds(roomy, inside) /\ roomy.used = block.used /\ roomy.size > end
  <2>1. block.size \in Nat /\ block.used \in Nat /\ block.used <= block.size
    BY DEF Holds, Blocks
  <2>2. CASE end >= block.size
    <3>1. PICK n \in Nat : n = end + 1
      OBVIOUS
    <3>2. /\ Holds(Memory!Realloc(block, n, n), inside)
          /\ Memory!Realloc(block, n, n).used = block.used /\ Memory!Realloc(block, n, n).size = n
      BY <2>1, <2>2, <3>1, ReallocHolds
    <3>3. roomy = Memory!Realloc(block, n, n)
      BY <2>2, <3>1
    <3> QED  BY <3>1, <3>2, <3>3
  <2>3. CASE ~(end >= block.size)
    BY <2>1, <2>3
  <2> QED  BY <2>2, <2>3
<1> HIDE DEF roomy
<1>3. roomy \in Blocks /\ roomy.size \in Nat /\ roomy.size = Len(roomy.memory)
  BY <1>2 DEF Holds, Blocks
<1>4. /\ last \in Seq(Bytes) /\ Len(last) = Len(piece) + 1 /\ last[Len(piece) + 1] = Zero
      /\ \A i \in 1 .. Len(piece) : last[i] = piece[i]
  <2>1. Zero \in Bytes
    BY DEF Bytes
  <2>2. <<Zero>> \in Seq(Bytes) /\ Len(<<Zero>>) = 1 /\ <<Zero>>[1] = Zero
    BY <2>1
  <2> QED  BY <2>2
<1> HIDE DEF last
<1>5. Overlays(whole, inside, last, offset, end)
  <2>1. ASSUME NEW i \in 1 .. end
        PROVE  whole[i] = IF i \in offset + 1 .. offset + Len(last)
                          THEN last[i - offset] ELSE inside[i]
    <3>1. CASE i <= offset
      BY <1>1, <3>1
    <3>2. CASE i > offset
      <4>1. i - offset \in 1 .. Len(piece) /\ i \in offset + 1 .. offset + Len(last)
        BY <1>1, <1>4, <3>2
      <4> QED  BY <1>1, <1>4, <3>2, <4>1
    <3> QED  BY <3>1, <3>2
  <2> QED  BY <1>1, <1>4, <2>1 DEF Overlays
<1>6. Holds(new, whole)
  <2>1. offset <= roomy.used /\ end <= roomy.size /\ offset + Len(last) <= roomy.size
    BY <1>1, <1>2, <1>3, <1>4
  <2> QED  BY <1>2, <1>4, <1>5, <2>1, PutHolds
<1>7. Memory!Ended(block, offset, piece) = new
  BY <1>1 DEF Memory!Ended, Overwritten, roomy, last
<1>8. Ends(new)
  <2> DEFINE m == [i \in 1 .. Len(roomy.memory) |->
                     IF i \in offset + 1 .. offset + Len(last) THEN last[i - offset]
                     ELSE roomy.memory[i]]
  <2>1. new = [[roomy EXCEPT !.memory = m] EXCEPT !.used = end]
    BY DEF Overwritten, Memory!Put
  <2>2. m[end + 1] = Zero
    <3>1. /\ end + 1 \in 1 .. Len(roomy.memory) /\ end + 1 \in offset + 1 .. offset + Len(last)
          /\ (end + 1) - offset = Len(piece) + 1
      BY <1>1, <1>2, <1>3, <1>4
    <3> QED  BY <1>4, <3>1
  <2> HIDE DEF m
  <2>3. new.used = end /\ new.size = roomy.size /\ new.memory = m
    BY <1>3, <2>1 DEF Blocks
  <2> HIDE DEF new
  <2> QED  BY <1>2, <2>2, <2>3 DEF Ends
<1> QED  BY <1>6, <1>7, <1>8

\* A piece is a sequence of bytes.
LEMMA PieceIs ==
  ASSUME NEW piece \in Memory!Pieces PROVE piece \in Seq(Bytes)
<1>1. PICK n \in 0 .. 2 : piece \in [1 .. n -> Items]
  BY DEF Memory!Pieces
<1>2. n \in Nat /\ Items \subseteq Bytes
  BY DEF Bytes
<1>3. piece \in [1 .. n -> Bytes]
  BY <1>1, <1>2
<1> QED  BY <1>2, <1>3

\* An item is a sequence of one byte.
LEMMA ItemIs ==
  ASSUME NEW item \in Items PROVE <<item>> \in Seq(Bytes) /\ Len(<<item>>) = 1
<1>1. item \in Bytes
  BY DEF Bytes
<1> QED  BY <1>1

\* Every operation of the dynamic array keeps its invariant.
LEMMA ArrayStep ==
  ASSUME Holds(array, listed), Memory!ArrayNext
  PROVE  Holds(array', listed')
<1>1. array.used \in Nat /\ array.size \in Nat /\ array.used <= array.size
  BY DEF Holds, Blocks
<1>2. CASE Memory!ArrayClear
  <2>1. array' = [array EXCEPT !.used = 0] /\ listed' = <<>>
    BY <1>2 DEF Memory!ArrayClear, Memory!Becomes
  <2> QED  BY <2>1, ClearHolds
<1>3. CASE Memory!ArrayPop
  <2>1. /\ array.used > 0 /\ listed' = SubSeq(listed, 1, Len(listed) - 1)
        /\ array' = [Memory!Fitted(array, array.used - 1) EXCEPT !.used = @ - 1]
    BY <1>3 DEF Memory!ArrayPop, Memory!Becomes
  <2>2. Memory!Fitted(array, array.used - 1) = array
    BY <1>1, <2>1 DEF Memory!Fitted
  <2> QED  BY <2>1, <2>2, DropHolds
<1>4. ASSUME NEW piece \in Memory!Pieces, Memory!ArraySetFromStatic(piece)
      PROVE  Holds(array', listed')
  <2>1. array' = Memory!Extend(Memory!Allocated(Len(piece)), piece) /\ listed' = piece
    BY <1>4 DEF Memory!ArraySetFromStatic, Memory!Becomes
  <2>2. piece \in Seq(Bytes) /\ Len(piece) \in Nat /\ Len(piece) <= Len(piece)
    BY PieceIs
  <2> QED  BY <2>1, <2>2, FilledHolds
<1>5. ASSUME NEW piece \in Memory!Pieces, Memory!ArrayAppendStatic(piece)
      PROVE  Holds(array', listed')
  <2>1. /\ array' = Memory!Extend(Memory!Fitted(array, array.used + Len(piece)), piece)
        /\ listed' = listed \o piece
    BY <1>5 DEF Memory!ArrayAppendStatic, Memory!Becomes
  <2> QED  BY <2>1, PieceIs, AppendHolds
<1>6. ASSUME NEW n \in 1 .. MaxItems, Memory!ArrayEnsureCapacity(n)
      PROVE  Holds(array', listed')
  <2>1. array.used <= n /\ array' = Memory!Resize(array, n) /\ listed' = listed
    BY <1>6 DEF Memory!ArrayEnsureCapacity, Memory!Becomes
  <2>2. n \in Nat
    BY MemoryAssumption
  <2> QED  BY <2>1, <2>2, ResizeHolds
<1>7. ASSUME NEW item \in Items, Memory!ArrayPush(item) \/ Memory!ArrayGetNext(item)
      PROVE  Holds(array', listed')
  <2>1. /\ array' = Memory!Extend(Memory!Fitted(array, array.used + 1), <<item>>)
        /\ listed' = listed \o <<item>>
    BY <1>7 DEF Memory!ArrayPush, Memory!ArrayGetNext, Memory!Becomes
  <2>2. Holds(Memory!Extend(Memory!Fitted(array, array.used + Len(<<item>>)), <<item>>),
              listed \o <<item>>)
    BY ItemIs, AppendHolds
  <2> QED  BY <2>1, <2>2, ItemIs
<1>8. ASSUME NEW item \in Items, NEW position \in 0 .. MaxItems, Memory!ArraySet(position, item)
      PROVE  Holds(array', listed')
  <2>1. PICK count \in Nat : count = array.used + IF position = array.used THEN 1 ELSE 0
    BY <1>1
  <2> DEFINE fitted == Memory!Fitted(array, count)
             whole == [i \in 1 .. count |-> IF i = position + 1 THEN item ELSE listed[i]]
  <2>2. position <= array.used /\ array' = Overwritten(fitted, position, <<item>>, count)
        /\ listed' = whole
    BY <1>8, <2>1 DEF Memory!ArraySet, Memory!Becomes, Overwritten
  <2>3. position \in Nat
    BY MemoryAssumption
  <2>4. Holds(fitted, listed) /\ fitted.used = array.used /\ fitted.size >= count
    BY <1>1, <2>1, FittedHolds
  <2> HIDE DEF fitted
  <2>5. fitted.size \in Nat /\ listed \in Seq(Bytes) /\ Len(listed) = array.used
    BY <2>4 DEF Holds, Blocks
  <2>6. whole \in Seq(Bytes) /\ Len(whole) = count
    <3>1. \A i \in 1 .. count : (IF i = position + 1 THEN item ELSE listed[i]) \in Bytes
      <4>1. item \in Bytes /\ \A i \in 1 .. count : i = position + 1 \/ i \in 1 .. Len(listed)
        BY <1>1, <2>1, <2>2, <2>3, <2>5 DEF Bytes
      <4> QED  BY <2>5, <4>1
    <3> QED  BY <3>1
  <2>7. ASSUME NEW i \in 1 .. count
        PROVE  whole[i] = IF i \in position + 1 .. position + Len(<<item>>)
                          THEN <<item>>[i - position] ELSE listed[i]
    <3>1. i \in position + 1 .. position + Len(<<item>>) <=> i = position + 1
      BY <2>3
    <3>2. <<item>>[(position + 1) - position] = item
      BY <2>3
    <3> QED  BY <3>1, <3>2
  <2> HIDE DEF whole
  <2>8. count <= Len(listed) \/ count <= position + Len(<<item>>)
    BY <1>1, <2>1, <2>3, <2>5
  <2>9. Overlays(whole, listed, <<item>>, position, count)
    BY <2>6, <2>7, <2>8 DEF Overlays
  <2>10. /\ position <= fitted.used /\ count <= fitted.size
         /\ position + Len(<<item>>) <= fitted.size
    BY <1>1, <2>1, <2>2, <2>3, <2>4, <2>5
  <2>11. <<item>> \in Seq(Bytes)
    BY ItemIs
  <2>12. Holds(Overwritten(fitted, position, <<item>>, count), whole)
    BY <2>3, <2>4, <2>9, <2>10, <2>11, PutHolds
  <2> QED  BY <2>2, <2>12
<1> QED  BY <1>2, <1>3, <1>4, <1>5, <1>6, <1>7, <1>8 DEF Memory!ArrayNext

\* Every operation of the fast array keeps its invariant.
LEMMA FastStep ==
  ASSUME Holds(fast, quick), Memory!FastNext
  PROVE  Holds(fast', quick')
<1>1. fast.used \in Nat /\ fast.size \in Nat /\ fast.used <= fast.size
  BY DEF Holds, Blocks
<1>2. CASE Memory!FastClear
  <2>1. fast' = Memory!Allocated(0) /\ quick' = <<>>
    BY <1>2 DEF Memory!FastClear, Memory!FastBecomes, Memory!Released
  <2> QED  BY <2>1, AllocatedHolds
<1>3. CASE Memory!FastPop
  <2>1. /\ fast.used > 0 /\ quick' = SubSeq(quick, 1, Len(quick) - 1)
        /\ fast' = [fast EXCEPT !.used = @ - 1]
    BY <1>3 DEF Memory!FastPop, Memory!FastBecomes
  <2> QED  BY <2>1, DropHolds
<1>4. CASE Memory!FastInitFromArray
  <2> DEFINE few == IF fast.used > 0 THEN fast.used ELSE 8
             n == Memory!Power[Memory!Bits(few)]
  <2>1. few \in Nat /\ fast.used <= few
    BY <1>1
  <2> HIDE DEF few
  <2>2. n \in Nat /\ n > few
    BY <2>1, BitsAbove
  <2>3. fast' = Memory!Extend(Memory!Allocated(n), Memory!Content(fast)) /\ quick' = quick
    BY <1>4 DEF Memory!FastInitFromArray, Memory!FastBecomes, few
  <2>4. Memory!Content(fast) = quick
    BY HeldIsKept DEF Memory!Keeps
  <2>5. quick \in Seq(Bytes) /\ Len(quick) = fast.used
    BY DEF Holds
  <2> HIDE DEF n
  <2> QED  BY <1>1, <2>1, <2>2, <2>3, <2>4, <2>5, FilledHolds
<1>5. ASSUME NEW n \in 1 .. MaxItems, Memory!FastInit(n) PROVE Holds(fast', quick')
  <2>1. n \in Nat
    BY MemoryAssumption
  <2>2. Memory!Power[Memory!Bits(n)] \in Nat
    BY <2>1, BitsAbove
  <2> QED  BY <1>5, <2>2, AllocatedHolds DEF Memory!FastInit, Memory!FastBecomes
<1>6. ASSUME NEW item \in Items, Memory!FastPush(item) PROVE Holds(fast', quick')
  <2> DEFINE room == Memory!Capacity(fast.used)
             roomy == IF fast.size > fast.used THEN fast ELSE Memory!Realloc(fast, room, room)
  <2>1. fast' = Memory!Extend(roomy, <<item>>) /\ quick' = quick \o <<item>>
    BY <1>6 DEF Memory!FastPush, Memory!FastBecomes
  <2>2. room \in Nat /\ room > fast.used
    <3>1. PICK n \in Nat : n = fast.used + 1
      BY <1>1
    <3>2. Memory!Power[Memory!Bits(n)] \in Nat /\ Memory!Power[Memory!Bits(n)] > n
      BY BitsAbove
    <3> QED  BY <1>1, <3>1, <3>2 DEF Memory!Capacity
  <2> HIDE DEF room
  <2>3. Holds(roomy, quick) /\ roomy.used = fast.used /\ roomy.size > fast.used
    <3>1. CASE fast.size > fast.used
      BY <3>1
    <3>2. CASE ~(fast.size > fast.used)
      BY <1>1, <2>2, <3>2, ReallocHolds
    <3> QED  BY <3>1, <3>2
  <2> HIDE DEF roomy
  <2>4. roomy.size \in Nat
    BY <2>3 DEF Holds, Blocks
  <2>5. roomy.used + Len(<<item>>) <= roomy.size
    BY <1>1, <2>3, <2>4
  <2> QED  BY <2>1, <2>3, <2>5, ItemIs, ExtendHolds
<1>7. ASSUME NEW i \in 1 .. MaxItems, Memory!FastRemove(i) PROVE Holds(fast', quick')
  <2> DEFINE moved == [quick EXCEPT ![i] = quick[Len(quick)]]
             m == [fast.memory EXCEPT ![i] = fast.memory[fast.used]]
             there == [fast EXCEPT !.memory = m]
  <2>1. i \in Nat /\ i >= 1 /\ i <= fast.used
    BY <1>7, MemoryAssumption DEF Memory!FastRemove
  <2>2. /\ fast \in Blocks /\ fast.memory \in Seq(Bytes) /\ quick \in Seq(Bytes)
        /\ Len(quick) = fast.used /\ fast.size = Len(fast.memory)
        /\ \A j \in 1 .. fast.used : fast.memory[j] = quick[j]
    BY DEF Holds, Blocks
  <2>3. /\ fast' = [fast EXCEPT !.used = @ - 1, !.memory[i] = fast.memory[fast.used]]
        /\ quick' = SubSeq(moved, 1, Len(quick) - 1)
    BY <1>7 DEF Memory!FastRemove, Memory!FastBecomes
  <2>4. /\ moved \in Seq(Bytes) /\ Len(moved) = Len(quick)
        /\ \A j \in 1 .. Len(quick) :
              moved[j] = IF j = i THEN quick[fast.used] ELSE quick[j]
    BY <1>1, <2>1, <2>2
  <2>5. /\ m \in Seq(Bytes) /\ Len(m) = Len(fast.memory)
        /\ \A j \in 1 .. Len(fast.memory) :
              m[j] = IF j = i THEN fast.memory[fast.used] ELSE fast.memory[j]
    BY <1>1, <2>1, <2>2
  <2>6. fast' = [there EXCEPT !.used = @ - 1]
    BY <2>2, <2>3 DEF Blocks
  <2> HIDE DEF moved, m
  <2>7. /\ there \in Blocks /\ there.memory = m /\ there.size = fast.size
        /\ there.used = fast.used
    BY <2>2, <2>5 DEF Blocks
  <2> HIDE DEF there
  <2>8. ASSUME NEW j \in 1 .. there.used PROVE m[j] = moved[j]
    <3>1. j \in 1 .. fast.used /\ j \in 1 .. Len(fast.memory) /\ j \in 1 .. Len(quick)
          /\ fast.used \in 1 .. fast.used
      BY <1>1, <2>1, <2>2, <2>7
    <3> QED  BY <2>2, <2>4, <2>5, <3>1
  <2>9. Holds(there, moved)
    BY <1>1, <2>2, <2>4, <2>5, <2>7, <2>8 DEF Holds
  <2>10. there.used > 0 /\ Len(quick) = Len(moved)
    BY <1>1, <2>1, <2>4, <2>7
  <2>11. Holds([there EXCEPT !.used = @ - 1], SubSeq(moved, 1, Len(moved) - 1))
    BY <2>9, <2>10, DropHolds
  <2> QED  BY <2>3, <2>6, <2>10, <2>11
<1> QED  BY <1>2, <1>3, <1>4, <1>5, <1>6, <1>7 DEF Memory!FastNext

\* Every operation of the dynamic buffer keeps its invariant.
LEMMA BufferStep ==
  ASSUME ~overstated => Holds(buffer, bytes), Memory!BufferNext
  PROVE  ~overstated' => Holds(buffer', bytes')
<1>1. CASE Memory!BufferRelease
  BY <1>1, AllocatedHolds DEF Memory!BufferRelease, Memory!Released
<1>2. CASE ~Memory!BufferRelease
  <2>1. overstated => overstated'
    BY <1>2 DEF Memory!BufferNext, Memory!BufferClear, Memory!BufferSet, Memory!BufferAppendC,
                Memory!BufferAppendStatic, Memory!BufferEnsureCapacity, Memory!BufferBecomes
  <2> SUFFICES ASSUME ~overstated, ~overstated', Holds(buffer, bytes)
               PROVE  Holds(buffer', bytes')
    BY <2>1
  <2>2. buffer.used \in Nat /\ buffer.size \in Nat /\ buffer.used <= buffer.size
    BY DEF Holds, Blocks
  <2>3. CASE Memory!BufferClear
    <3>1. buffer' = [buffer EXCEPT !.used = 0] /\ bytes' = <<>>
      BY <2>3 DEF Memory!BufferClear, Memory!BufferBecomes
    <3> QED  BY <3>1, ClearHolds
  <2>4. ASSUME NEW piece \in Memory!Pieces, Memory!BufferSet(piece)
        PROVE  Holds(buffer', bytes')
    <3>1. PICK n \in Nat : n = Len(piece)
      BY PieceIs
    <3> DEFINE larger == Memory!Larger(buffer, n)
    <3>2. buffer' = Overwritten(larger, 0, piece, n) /\ bytes' = piece
      BY <2>4, <3>1 DEF Memory!BufferSet, Memory!BufferBecomes, Overwritten
    <3>3. Holds(larger, bytes) /\ larger.used = buffer.used /\ larger.size >= n
      BY LargerHolds
    <3> HIDE DEF larger
    <3>4. piece \in Seq(Bytes) /\ larger.size \in Nat
      BY <3>3, PieceIs DEF Holds, Blocks
    <3>5. Overlays(piece, bytes, piece, 0, n)
      BY <3>1, <3>4 DEF Overlays
    <3>6. 0 <= larger.used /\ n <= larger.size /\ 0 + Len(piece) <= larger.size
      BY <2>2, <3>1, <3>3, <3>4
    <3>7. Holds(Overwritten(larger, 0, piece, n), piece)
      BY <3>3, <3>4, <3>5, <3>6, PutHolds
    <3> QED  BY <3>2, <3>7
  <2>5. ASSUME NEW piece \in Memory!Pieces, Memory!BufferAppendC(piece)
        PROVE  Holds(buffer', bytes')
    <3>1. PICK n \in Nat : n = buffer.used + Len(piece)
      BY <2>2, PieceIs
    <3> DEFINE larger == Memory!Larger(buffer, n)
    <3>2. buffer' = Memory!Extend(larger, piece) /\ bytes' = bytes \o piece
      BY <2>5, <3>1 DEF Memory!BufferAppendC, Memory!BufferBecomes
    <3>3. Holds(larger, bytes) /\ larger.used = buffer.used /\ larger.size >= n
      BY LargerHolds
    <3> HIDE DEF larger
    <3>4. larger.size \in Nat
      BY <3>3 DEF Holds, Blocks
    <3>5. larger.used + Len(piece) <= larger.size
      BY <3>1, <3>3, <3>4
    <3> QED  BY <3>2, <3>3, <3>5, PieceIs, ExtendHolds
  <2>6. ASSUME NEW piece \in Memory!Pieces, Memory!BufferAppendStatic(piece)
        PROVE  Holds(buffer', bytes')
    <3>1. PICK n \in Nat : n = buffer.used + Len(piece)
      BY <2>2, PieceIs
    <3>2. ~(n > buffer.size) /\ buffer' = Memory!Extend(buffer, piece) /\ bytes' = bytes \o piece
      BY <2>6, <3>1 DEF Memory!BufferAppendStatic
    <3>3. buffer.used + Len(piece) <= buffer.size
      BY <2>2, <3>1, <3>2
    <3> QED  BY <3>2, <3>3, PieceIs, ExtendHolds
  <2>7. ASSUME NEW n \in 1 .. MaxItems, Memory!BufferEnsureCapacity(n)
        PROVE  Holds(buffer', bytes')
    <3>1. n \in Nat
      BY MemoryAssumption
    <3>2. buffer' = Memory!Larger(buffer, n) /\ bytes' = bytes
      BY <2>7 DEF Memory!BufferEnsureCapacity, Memory!BufferBecomes
    <3> QED  BY <3>1, <3>2, LargerHolds
  <2> QED  BY <1>2, <2>3, <2>4, <2>5, <2>6, <2>7 DEF Memory!BufferNext
<1> QED  BY <1>1, <1>2

StringInv == Holds(string, text) /\ (text # <<>> => Ends(string))

\* Every operation of the dynamic string keeps its invariant.
LEMMA StringStep ==
  ASSUME StringInv, Memory!StringNext
  PROVE  StringInv'
<1>1. /\ Holds(string, text) /\ string.used \in Nat /\ string.size \in Nat
      /\ string.used <= string.size /\ text \in Seq(Bytes) /\ Len(text) = string.used
  BY DEF StringInv, Holds, Blocks
<1>2. CASE Memory!StringClear
  <2>1. string' = [string EXCEPT !.used = 0] /\ text' = <<>>
    BY <1>2 DEF Memory!StringClear, Memory!StringBecomes
  <2> QED  BY <1>1, <2>1, ClearHolds DEF StringInv
<1>3. CASE Memory!StringRelease
  <2>1. string' = Memory!Allocated(0) /\ text' = <<>>
    BY <1>3 DEF Memory!StringRelease, Memory!StringBecomes, Memory!Released
  <2> QED  BY <2>1, AllocatedHolds DEF StringInv
<1>4. ASSUME NEW piece \in Seq(Bytes), string' = Memory!Ended(string, 0, piece), text' = piece
      PROVE  StringInv'
  <2>1. /\ Len(piece) = 0 + Len(piece) /\ 0 <= string.used
        /\ \A i \in 1 .. Len(piece) : piece[i] = IF i <= 0 THEN text[i] ELSE piece[i - 0]
    BY <1>1
  <2>2. Holds(Memory!Ended(string, 0, piece), piece) /\ Ends(Memory!Ended(string, 0, piece))
    BY <1>1, <2>1, EndedHolds
  <2> QED  BY <1>4, <2>2 DEF StringInv, Ends
<1>5. ASSUME NEW piece \in Seq(Bytes), string' = Memory!Ended(string, string.used, piece),
             text' = text \o piece
      PROVE  StringInv'
  <2> DEFINE whole == text \o piece
  <2>1. PICK k \in Nat : k = string.used
    BY <1>1
  <2>2. /\ whole \in Seq(Bytes) /\ Len(whole) = k + Len(piece)
        /\ \A i \in 1 .. Len(whole) : whole[i] = IF i <= k THEN text[i] ELSE piece[i - k]
    <3>1. text \in Seq(Bytes) /\ Len(text) = k
      BY <1>1, <2>1
    <3>2. /\ text \o piece \in Seq(Bytes) /\ Len(text \o piece) = Len(text) + Len(piece)
          /\ \A i \in 1 .. Len(text) + Len(piece) :
                (text \o piece)[i] = IF i <= Len(text) THEN text[i] ELSE piece[i - Len(text)]
      BY <3>1, ConcatProperties
    <3> HIDE DEF whole
    <3>3. whole = text \o piece
      BY DEF whole
    <3> QED  BY <3>1, <3>2, <3>3
  <2> HIDE DEF whole
  <2>3. Holds(Memory!Ended(string, k, piece), whole) /\ Ends(Memory!Ended(string, k, piece))
    <3>1. k <= string.used
      BY <1>1, <2>1
    <3> QED  BY <1>1, <2>2, <3>1, EndedHolds
  <2> QED  BY <1>5, <2>1, <2>3 DEF StringInv, Ends, whole
<1>6. ASSUME NEW piece \in Memory!Pieces,
             \/ Memory!StringSet(piece) \/ Memory!StringSetFromFormat(piece)
             \/ Memory!StringAppend(piece)
      PROVE  StringInv'
  <2>1. piece \in Seq(Bytes)
    BY PieceIs
  <2>2. \/ string' = Memory!Ended(string, 0, piece) /\ text' = piece
        \/ string' = Memory!Ended(string, string.used, piece) /\ text' = text \o piece
    BY <1>6 DEF Memory!StringSet, Memory!StringSetFromFormat, Memory!StringAppend,
                Memory!StringBecomes
  <2> QED  BY <1>4, <1>5, <2>1, <2>2
<1>7. CASE Memory!StringAppendTime
  <2>1. string' = Memory!Ended(string, string.used, Time) /\ text' = text \o Time
    BY <1>7 DEF Memory!StringAppendTime, Memory!StringBecomes
  <2> QED  BY <1>5, <2>1, MemoryAssumption
<1>8. ASSUME NEW n \in 1 .. MaxItems + 1, Memory!StringEnsureSize(n) PROVE StringInv'
  <2>1. n \in Nat
    BY MemoryAssumption
  <2> DEFINE larger == Memory!Larger(string, n)
  <2>2. string' = larger /\ text' = text
    BY <1>8 DEF Memory!StringEnsureSize, Memory!StringBecomes
  <2>3. /\ Holds(larger, text) /\ larger.used = string.used /\ larger.size >= string.size
        /\ \A i \in 1 .. string.size : larger.memory[i] = string.memory[i]
    BY <1>1, <2>1, LargerHolds
  <2> HIDE DEF larger
  <2>4. larger.size \in Nat
    BY <2>3 DEF Holds, Blocks
  <2>5. Ends(string) => Ends(larger)
    BY <1>1, <2>3, <2>4 DEF Ends
  <2> QED  BY <2>2, <2>3, <2>5 DEF StringInv, Ends
<1> QED  BY <1>2, <1>3, <1>6, <1>7, <1>8 DEF Memory!StringNext

\* What all of them keep.
GrowableInv ==
  /\ Holds(array, listed) /\ Holds(fast, quick) /\ StringInv
  /\ ~overstated => Holds(buffer, bytes)

\* However often and in whatever order they grow, shrink and are written, the arrays, the
\* strings, and the buffers that AppendStaticString did not grow, hold in the memory that they
\* have what was put in and not taken out, and strings their zero behind it; for any items and
\* any number of them (dynamic-array.c and fast-array.c in src/src/collections,
\* dynamic-buffer.c and dynamic-string.c in src/src/storage).
THEOREM GrowthKeeps == Memory!Spec => []ContentKept
<1>1. Memory!Init => GrowableInv
  <2> SUFFICES ASSUME Memory!Init PROVE GrowableInv
    OBVIOUS
  <2>1. /\ array = Memory!Allocated(0) /\ fast = Memory!Allocated(0)
        /\ buffer = Memory!Allocated(0) /\ string = Memory!Allocated(0)
        /\ listed = <<>> /\ quick = <<>> /\ bytes = <<>> /\ text = <<>>
    BY DEF Memory!Init, Memory!Released
  <2> QED  BY <2>1, AllocatedHolds DEF GrowableInv, StringInv
<1>2. GrowableInv /\ [Memory!Next]_(Memory!vars) => GrowableInv'
  <2> SUFFICES ASSUME GrowableInv, [Memory!Next]_(Memory!vars) PROVE GrowableInv'
    OBVIOUS
  <2> USE DEF GrowableInv, Memory!arrayVars, Memory!fastVars, Memory!bufferVars,
              Memory!stringVars
  <2>1. CASE UNCHANGED Memory!vars
    BY <2>1 DEF Memory!vars, Holds, StringInv, Ends
  <2>2. CASE Memory!ArrayNext
    <3>1. UNCHANGED <<fast, quick, buffer, bytes, overstated, string, text>>
      BY <2>2 DEF Memory!ArrayNext
    <3> QED  BY <2>2, <3>1, ArrayStep DEF StringInv, Ends
  <2>3. CASE Memory!FastNext
    <3>1. UNCHANGED <<array, listed, buffer, bytes, overstated, string, text>>
      BY <2>3 DEF Memory!FastNext
    <3> QED  BY <2>3, <3>1, FastStep DEF StringInv, Ends
  <2>4. CASE Memory!BufferNext
    <3>1. UNCHANGED <<array, listed, fast, quick, string, text>>
      BY <2>4 DEF Memory!BufferNext
    <3> QED  BY <2>4, <3>1, BufferStep DEF StringInv, Ends
  <2>5. CASE Memory!StringNext
    <3>1. UNCHANGED <<array, listed, fast, quick, buffer, bytes, overstated>>
      BY <2>5 DEF Memory!StringNext
    <3> QED  BY <2>5, <3>1, StringStep
  <2> QED  BY <2>1, <2>2, <2>3, <2>4, <2>5 DEF Memory!Next
<1>3. GrowableInv => Memory!ContentKept
  <2> SUFFICES ASSUME GrowableInv PROVE Memory!ContentKept
    OBVIOUS
  <2>1. /\ Memory!Keeps(array, listed) /\ Memory!Keeps(fast, quick) /\ Memory!Keeps(string, text)
        /\ ~overstated => Memory!Keeps(buffer, bytes) /\ buffer.size = Len(buffer.memory)
        /\ string.size = Len(string.memory)
    BY HeldIsKept DEF GrowableInv, StringInv
  <2>2. string.size \in Nat /\ string.used \in Nat
    BY DEF GrowableInv, StringInv, Holds, Blocks
  <2>3. text # <<>> => Len(string.memory) > string.used /\ string.memory[string.used + 1] = Zero
    BY <2>1, <2>2 DEF GrowableInv, StringInv, Ends
  <2> QED  BY <2>1, <2>3 DEF Memory!ContentKept
<1> QED  BY <1>1, <1>2, <1>3, PTL DEF Memory!Spec, ContentKept

-------------------------------------------------------------------------------
(* Bit maps                                                                  *)

\* The least of a set of numbers, of which there is one, and the numbers it must be in.
LEMMA LeastIs ==
  ASSUME NEW S, S \subseteq Nat, S # {}
  PROVE  /\ BitsOf!Least(S) \in S /\ BitsOf!Least(S) \in Nat
         /\ \A j \in S : BitsOf!Least(S) <= j
<1>1. \E q \in S : \A r \in S : q <= r
  BY LeastNumber
<1> QED  BY <1>1 DEF BitsOf!Least

\* The least is in the part below the rest.
LEMMA LeastOfPart ==
  ASSUME NEW S, S \subseteq Nat, NEW part, part \subseteq S, part # {},
         \A i \in part : \A j \in S \ part : i <= j
  PROVE  BitsOf!Least(S) = BitsOf!Least(part)
<1>1. /\ BitsOf!Least(S) \in S /\ BitsOf!Least(S) \in Nat
      /\ \A j \in S : BitsOf!Least(S) <= j
  BY LeastIs
<1>2. /\ BitsOf!Least(part) \in part /\ BitsOf!Least(part) \in Nat
      /\ \A j \in part : BitsOf!Least(part) <= j
  BY LeastIs
<1>3. BitsOf!Least(part) <= BitsOf!Least(S)
  BY <1>1, <1>2
<1>4. BitsOf!Least(S) <= BitsOf!Least(part)
  BY <1>1, <1>2
<1> QED  BY <1>1, <1>2, <1>3, <1>4

\* A word that is read ends with the bytes at the latest.
LEMMA WidthFits ==
  ASSUME NEW end \in Nat, NEW byte \in 0 .. end, byte # end
  PROVE  BitsOf!Width(byte, end) \in Nat \ {0} /\ byte + BitsOf!Width(byte, end) \in 0 .. end
BY DEF BitsOf!Width

\* A function that is defined from the end of the bytes on by words is known when it is known
\* at the end, and at a byte once it is known behind its word.
LEMMA FromEnd ==
  ASSUME NEW end \in Nat, NEW f, NEW g, f[end] = g[end],
         \A byte \in 0 .. end : byte # end =>
            (f[byte + BitsOf!Width(byte, end)] = g[byte + BitsOf!Width(byte, end)]
               => f[byte] = g[byte])
  PROVE  f[0] = g[0]
<1> DEFINE Apart == {k \in Nat : k <= end /\ f[end - k] # g[end - k]}
<1>1. Apart = {}
  <2> SUFFICES ASSUME Apart # {} PROVE FALSE
    OBVIOUS
  <2>1. PICK k \in Apart : \A j \in Apart : k <= j
    BY LeastNumber
  <2>2. PICK byte \in 0 .. end : byte = end - k
    BY <2>1
  <2>3. f[byte] # g[byte] /\ k \in Nat /\ k = end - byte /\ byte # end
    BY <2>1, <2>2
  <2>4. PICK next \in 0 .. end : next = byte + BitsOf!Width(byte, end) /\ next > byte
    BY <2>3, WidthFits
  <2>5. PICK m \in Nat : m < k /\ m <= end /\ end - m = next
    <3>1. end - next \in Nat /\ end - next < k /\ end - next <= end
          /\ end - (end - next) = next
      BY <2>3, <2>4
    <3> QED  BY <3>1
  <2>6. f[next] = g[next]
    <3>1. m \notin Apart
      BY <2>1, <2>3, <2>5
    <3> QED  BY <2>5, <3>1
  <2> QED  BY <2>3, <2>4, <2>6
<1>2. end - end = 0 /\ end <= end
  OBVIOUS
<1> QED  BY <1>1, <1>2

\* The bytes of a map hold its bits, and not a byte more.
LEMMA BytesOf ==
  ASSUME bitSize \in Nat
  PROVE  /\ BitsOf!WholeBytes \in Nat /\ BitsOf!ByteSize \in Nat
         /\ 8 * BitsOf!WholeBytes <= bitSize /\ bitSize <= 8 * BitsOf!ByteSize
BY DEF BitsOf!WholeBytes, BitsOf!ByteSize

\* SetAll and ClearAll write all bits of all bytes.
LEMMA WrittenIs ==
  ASSUME bitSize \in Nat PROVE BitsOf!Written = 0 .. 8 * BitsOf!ByteSize - 1
<1> DEFINE end == BitsOf!ByteSize
           Word(byte) == 8 * byte .. 8 * (byte + BitsOf!Width(byte, end)) - 1
           bitsFrom == [byte \in 0 .. end |-> 8 * byte .. 8 * end - 1]
           words == BitsOf!WordsFrom
<1>1. end \in Nat
  BY BytesOf
<1>2. ASSUME NEW byte \in 0 .. end, byte # end
      PROVE  8 * byte .. 8 * end - 1
               = Word(byte) \union 8 * (byte + BitsOf!Width(byte, end)) .. 8 * end - 1
  <2>1. PICK n \in Nat \ {0} : n = BitsOf!Width(byte, end) /\ byte + n \in 0 .. end
    BY <1>1, <1>2, WidthFits
  <2> HIDE DEF end
  <2>2. 8 * byte .. 8 * end - 1 = (8 * byte .. 8 * (byte + n) - 1) \union 8 * (byte + n) .. 8 * end - 1
    BY <1>1, <2>1
  <2> QED  BY <2>1, <2>2
<1>3. bitsFrom = [byte \in 0 .. end |->
                    IF byte = end THEN {}
                    ELSE Word(byte) \union bitsFrom[byte + BitsOf!Width(byte, end)]]
  <2>1. ASSUME NEW byte \in 0 .. end
        PROVE  bitsFrom[byte] = IF byte = end THEN {}
                                ELSE Word(byte) \union bitsFrom[byte + BitsOf!Width(byte, end)]
    <3>1. CASE byte = end
      BY <1>1, <3>1
    <3>2. CASE byte # end
      <4>1. byte + BitsOf!Width(byte, end) \in 0 .. end
        BY <1>1, <3>2, WidthFits
      <4> QED  BY <1>2, <3>2, <4>1
    <3> QED  BY <3>1, <3>2
  <2> HIDE DEF Word, end
  <2> QED  BY <2>1
<1>4. words = [byte \in 0 .. end |->
                 IF byte = end THEN {}
                 ELSE Word(byte) \union words[byte + BitsOf!Width(byte, end)]]
  BY <1>3 DEF BitsOf!WordsFrom
<1> HIDE DEF words, end, Word
<1>5. words[0] = bitsFrom[0]
  <2>1. end \in 0 .. end
    BY <1>1
  <2>2. words[end] = {} /\ bitsFrom[end] = {}
    BY <1>1, <1>4, <2>1
  <2>3. ASSUME NEW byte \in 0 .. end, byte # end,
               words[byte + BitsOf!Width(byte, end)] = bitsFrom[byte + BitsOf!Width(byte, end)]
        PROVE  words[byte] = bitsFrom[byte]
    <3> HIDE DEF bitsFrom
    <3>1. words[byte] = Word(byte) \union words[byte + BitsOf!Width(byte, end)]
      BY <1>4, <2>3
    <3>2. bitsFrom[byte] = Word(byte) \union bitsFrom[byte + BitsOf!Width(byte, end)]
      BY <1>3, <2>3
    <3> QED  BY <2>3, <3>1, <3>2
  <2> HIDE DEF bitsFrom
  <2> QED  BY <1>1, <2>2, <2>3, FromEnd
<1>6. bitsFrom[0] = 0 .. 8 * end - 1
  BY <1>1
<1> QED  BY <1>5, <1>6 DEF BitsOf!Written, words, end

\* The first of some numbers, if there are any.
FirstOf(S) == IF S = {} THEN BitsOf!None ELSE BitsOf!Least(S)

\* The first of two parts, one below the other.
LEMMA FirstOfParts ==
  ASSUME NEW S, NEW T, S \subseteq Nat, T \subseteq Nat, \A i \in S : \A j \in T : i <= j
  PROVE  FirstOf(S \union T) = IF S # {} THEN BitsOf!Least(S) ELSE FirstOf(T)
<1>1. CASE S = {}
  BY <1>1
<1>2. CASE S # {}
  <2>1. BitsOf!Least(S \union T) = BitsOf!Least(S)
    BY <1>2, LeastOfPart
  <2> QED  BY <1>2, <2>1 DEF FirstOf
<1> QED  BY <1>1, <1>2

\* The words that are read find the first match in the whole bytes.
LEMMA WordsFind ==
  ASSUME bitSize \in Nat, NEW match, match \subseteq Nat
  PROVE  BitsOf!SearchWords(match) = FirstOf(match \intersect 0 .. 8 * BitsOf!WholeBytes - 1)
<1> DEFINE end == BitsOf!WholeBytes
           Width(byte) == BitsOf!Width(byte, end)
           Word(byte) == BitsOf!Hits(match, byte, Width(byte))
           Rest(byte) == match \intersect 8 * byte .. 8 * end - 1
           Step(byte, f) == IF byte = end THEN BitsOf!None
                            ELSE IF Word(byte) # {} THEN BitsOf!Least(Word(byte))
                            ELSE f[byte + Width(byte)]
           found == [byte \in 0 .. end |-> FirstOf(Rest(byte))]
           from == CHOOSE f : f = [byte \in 0 .. end |-> Step(byte, f)]
<1>1. end \in Nat
  BY BytesOf
<1>2. ASSUME NEW byte \in 0 .. end, byte # end
      PROVE  /\ byte + Width(byte) \in 0 .. end
             /\ Rest(byte) = Word(byte) \union Rest(byte + Width(byte))
             /\ \A i \in Word(byte) : \A j \in Rest(byte + Width(byte)) : i <= j
             /\ Word(byte) \subseteq Nat /\ Rest(byte + Width(byte)) \subseteq Nat
  <2>1. PICK n \in Nat \ {0} : n = Width(byte) /\ byte + n \in 0 .. end
    BY <1>1, <1>2, WidthFits
  <2> HIDE DEF end, Width
  <2>2. 8 * byte .. 8 * end - 1 = (8 * byte .. 8 * (byte + n) - 1) \union 8 * (byte + n) .. 8 * end - 1
    BY <1>1, <2>1
  <2>3. \A i \in 8 * byte .. 8 * (byte + n) - 1 : \A j \in 8 * (byte + n) .. 8 * end - 1 : i <= j
    BY <1>1, <2>1
  <2>4. Word(byte) = match \intersect 8 * byte .. 8 * (byte + n) - 1
    BY <2>1 DEF BitsOf!Hits
  <2>5. Rest(byte + Width(byte)) = match \intersect 8 * (byte + n) .. 8 * end - 1
    BY <2>1
  <2> HIDE DEF Word
  <2> QED  BY <2>1, <2>2, <2>3, <2>4, <2>5
<1> HIDE DEF Word, Width, Rest, end
<1>3. ASSUME NEW byte \in 0 .. end PROVE found[byte] = Step(byte, found)
  <2>1. CASE byte = end
    <3>1. Rest(end) = {}
      BY <1>1 DEF Rest
    <3> QED  BY <2>1, <3>1 DEF FirstOf
  <2>2. CASE byte # end
    <3>1. FirstOf(Rest(byte)) = IF Word(byte) # {} THEN BitsOf!Least(Word(byte))
                                ELSE FirstOf(Rest(byte + Width(byte)))
      BY <1>2, <2>2, FirstOfParts
    <3> QED  BY <1>2, <2>2, <3>1
  <2> QED  BY <2>1, <2>2
<1>4. found = [byte \in 0 .. end |-> Step(byte, found)]
  <2> HIDE DEF Step
  <2> QED  BY <1>3
<1>5. from = [byte \in 0 .. end |-> Step(byte, from)]
  <2> HIDE DEF found, Step
  <2> QED  BY <1>4
<1>6. BitsOf!SearchWords(match) = from[0]
  BY DEF BitsOf!SearchWords, Word, Width, end
<1> HIDE DEF from, found
<1>7. from[0] = found[0]
  <2>1. end \in 0 .. end
    BY <1>1
  <2>2. from[end] = found[end]
    BY <1>3, <1>5, <2>1
  <2>3. ASSUME NEW byte \in 0 .. end, byte # end,
               from[byte + Width(byte)] = found[byte + Width(byte)]
        PROVE  from[byte] = found[byte]
    BY <1>3, <1>5, <2>3
  <2> QED  BY <1>1, <2>2, <2>3, FromEnd DEF Width
<1>8. found[0] = FirstOf(match \intersect 0 .. 8 * end - 1)
  BY <1>1 DEF found, Rest
<1> QED  BY <1>6, <1>7, <1>8 DEF end

\* A search finds the first match among the bits of the map.
LEMMA SearchFinds ==
  ASSUME bitSize \in Nat, NEW match, match \subseteq Nat
  PROVE  BitsOf!Search(match) = FirstOf(match \intersect BitsOf!AllBits)
<1> DEFINE whole == BitsOf!WholeBytes
           S == match \intersect 0 .. 8 * whole - 1
           T == match \intersect 8 * whole .. bitSize - 1
<1>1. whole \in Nat /\ 8 * whole <= bitSize
  BY BytesOf
<1>2. BitsOf!SearchWords(match) = FirstOf(S)
  BY WordsFind
<1> HIDE DEF whole
<1>3. 0 .. bitSize - 1 = (0 .. 8 * whole - 1) \union 8 * whole .. bitSize - 1
  BY <1>1
<1>4. match \intersect BitsOf!AllBits = S \union T
  BY <1>3 DEF BitsOf!AllBits
<1>5. \A i \in S : \A j \in T : i <= j
  BY <1>1
<1>6. BitsOf!Search(match) = IF FirstOf(S) # BitsOf!None THEN FirstOf(S) ELSE FirstOf(T)
  BY <1>2 DEF BitsOf!Search, FirstOf, whole
<1> HIDE DEF S, T
<1>7. S \subseteq Nat /\ T \subseteq Nat
  BY DEF S, T
<1>8. FirstOf(S \union T) = IF S # {} THEN BitsOf!Least(S) ELSE FirstOf(T)
  BY <1>5, <1>7, FirstOfParts
<1>9. FirstOf(S) # BitsOf!None <=> S # {}
  <2>1. S # {} => BitsOf!Least(S) \in Nat
    BY <1>7, LeastIs
  <2> QED  BY <2>1 DEF FirstOf, BitsOf!None
<1>10. S # {} => FirstOf(S) = BitsOf!Least(S)
  BY DEF FirstOf
<1> QED  BY <1>4, <1>6, <1>8, <1>9, <1>10

BitInv ==
  /\ bitSize \in Nat /\ bits \subseteq Nat
  /\ bits \intersect BitsOf!AllBits = marked
  /\ bitCount = BitsOf!Cardinality(marked)

\* The cardinality of the module is that of the library.
LEMMA SameCardinality == \A S : BitsOf!Cardinality(S) = Cardinality(S)
BY DEF BitsOf!Cardinality, Cardinality

\* For a map of any size and any order of calls, the count is right, and the searches, with their
\* words of four widths and their tail of bits, find the first bit that is set or clear
\* (swBitMapFindFirstSet and swBitMapFindFirstClear, src/src/collections/bit-map.c).
THEOREM BitMapSound == BitsOf!Spec => []BitMapAgrees
<1> DEFINE all == BitsOf!AllBits
<1>1. BitsOf!Init => BitInv
  <2> SUFFICES ASSUME BitsOf!Init PROVE BitInv
    OBVIOUS
  <2>1. bitSize \in Nat /\ bits = {} /\ bitCount = 0 /\ marked = {}
    BY BitMapAssumption DEF BitsOf!Init
  <2> QED  BY <2>1, FS_EmptySet, SameCardinality DEF BitInv
<1>2. BitInv /\ [BitsOf!Next]_(BitsOf!bitVars) => BitInv'
  <2> SUFFICES ASSUME BitInv, [BitsOf!Next]_(BitsOf!bitVars) PROVE BitInv'
    OBVIOUS
  <2>1. /\ IsFiniteSet(all) /\ Cardinality(all) = bitSize /\ all \subseteq Nat
        /\ IsFiniteSet(marked) /\ marked \subseteq all
        /\ bitCount = Cardinality(marked) /\ Cardinality(marked) \in Nat
    <3>1. bitSize \in Nat /\ marked \subseteq all
      BY DEF BitInv
    <3>2. IsFiniteSet(all) /\ Cardinality(all) = bitSize /\ all \subseteq Nat
      BY <3>1, FS_Interval DEF BitsOf!AllBits
    <3>3. IsFiniteSet(marked)
      BY <3>1, <3>2, FS_Subset
    <3> QED  BY <3>1, <3>2, <3>3, FS_CardinalityType, SameCardinality DEF BitInv
  <2>2. all \subseteq BitsOf!Written /\ BitsOf!Written \subseteq Nat
    <3>1. bitSize \in Nat /\ BitsOf!ByteSize \in Nat /\ bitSize <= 8 * BitsOf!ByteSize
      BY BytesOf DEF BitInv
    <3> QED  BY <3>1, WrittenIs DEF BitsOf!AllBits
  <2>3. CASE UNCHANGED BitsOf!bitVars
    BY <2>3 DEF BitsOf!bitVars, BitInv, BitsOf!AllBits
  <2>4. CASE BitsOf!SetAll
    <3>1. /\ bits' = bits \union BitsOf!Written /\ bitCount' = bitSize /\ marked' = all
          /\ bitSize' = bitSize
      BY <2>4 DEF BitsOf!SetAll
    <3>2. all' = all
      BY <3>1 DEF BitsOf!AllBits
    <3> HIDE DEF all
    <3> QED  BY <2>1, <2>2, <3>1, <3>2, SameCardinality DEF BitInv, all
  <2>5. CASE BitsOf!ClearAll
    <3>1. /\ bits' = bits \ BitsOf!Written /\ bitCount' = 0 /\ marked' = {}
          /\ bitSize' = bitSize
      BY <2>5 DEF BitsOf!ClearAll
    <3>2. all' = all
      BY <3>1 DEF BitsOf!AllBits
    <3>3. Cardinality({}) = 0
      BY FS_EmptySet
    <3> HIDE DEF all
    <3> QED  BY <2>1, <2>2, <3>1, <3>2, <3>3, SameCardinality DEF BitInv, all
  <2>6. ASSUME NEW position \in all, BitsOf!Set(position) PROVE BitInv'
    <3>1. /\ bitCount' = bitCount + IF position \in bits THEN 0 ELSE 1
          /\ bits' = bits \union {position} /\ marked' = marked \union {position}
          /\ bitSize' = bitSize
      BY <2>6 DEF BitsOf!Set
    <3>2. all' = all
      BY <3>1 DEF BitsOf!AllBits
    <3>3. position \in bits <=> position \in marked
      BY DEF BitInv
    <3>4. bitCount' = Cardinality(marked \union {position})
      <4>1. Cardinality(marked \union {position})
              = IF position \in marked THEN Cardinality(marked) ELSE Cardinality(marked) + 1
        BY <2>1, FS_AddElement
      <4>2. CASE position \in marked
        BY <2>1, <3>1, <3>3, <4>1, <4>2
      <4>3. CASE position \notin marked
        BY <2>1, <3>1, <3>3, <4>1, <4>3
      <4> QED  BY <4>2, <4>3
    <3>5. bits' \intersect all = marked' /\ bits' \subseteq Nat
      BY <2>1, <3>1 DEF BitInv
    <3> QED  BY <3>1, <3>2, <3>4, <3>5, SameCardinality DEF BitInv
  <2>7. ASSUME NEW position \in all, BitsOf!Clear(position) PROVE BitInv'
    <3>1. /\ bitCount' = bitCount - IF position \in bits THEN 1 ELSE 0
          /\ bits' = bits \ {position} /\ marked' = marked \ {position}
          /\ bitSize' = bitSize
      BY <2>7 DEF BitsOf!Clear
    <3>2. all' = all
      BY <3>1 DEF BitsOf!AllBits
    <3>3. position \in bits <=> position \in marked
      BY DEF BitInv
    <3>4. bitCount' = Cardinality(marked \ {position})
      <4>1. Cardinality(marked \ {position})
              = IF position \in marked THEN Cardinality(marked) - 1 ELSE Cardinality(marked)
        BY <2>1, FS_RemoveElement
      <4>2. CASE position \in marked
        BY <2>1, <3>1, <3>3, <4>1, <4>2
      <4>3. CASE position \notin marked
        BY <2>1, <3>1, <3>3, <4>1, <4>3
      <4> QED  BY <4>2, <4>3
    <3>5. bits' \intersect all = marked' /\ bits' \subseteq Nat
      BY <2>1, <3>1 DEF BitInv
    <3> QED  BY <3>1, <3>2, <3>4, <3>5, SameCardinality DEF BitInv
  <2> QED  BY <2>3, <2>4, <2>5, <2>6, <2>7 DEF BitsOf!Next
<1>3. BitInv => BitsOf!BitMapAgrees
  <2> SUFFICES ASSUME BitInv PROVE BitsOf!BitMapAgrees
    OBVIOUS
  <2>1. /\ bitSize \in Nat /\ bits \subseteq Nat /\ bits \intersect all = marked
        /\ bitCount = Cardinality(marked) /\ marked \subseteq all
    BY SameCardinality DEF BitInv
  <2>2. IsFiniteSet(all) /\ Cardinality(all) = bitSize /\ all \subseteq Nat
    BY <2>1, FS_Interval DEF BitsOf!AllBits
  <2>3. IsFiniteSet(marked) /\ Cardinality(marked) \in Nat
    BY <2>1, <2>2, FS_Subset, FS_CardinalityType
  <2>4. bitCount > 0 <=> marked # {}
    BY <2>1, <2>3, FS_EmptySet
  <2>5. bitCount < bitSize <=> marked # all
    BY <2>1, <2>2, <2>3, FS_Subset
  <2>6. BitsOf!FindFirstSet = FirstOf(marked)
    <3>1. BitsOf!Search(bits) = FirstOf(marked)
      BY <2>1, SearchFinds
    <3> QED  BY <2>4, <3>1 DEF BitsOf!FindFirstSet, FirstOf
  <2>7. BitsOf!FindFirstClear = FirstOf(all \ marked)
    <3> DEFINE clear == (0 .. 8 * BitsOf!ByteSize - 1) \ bits
    <3>1. clear \intersect all = all \ marked /\ clear \subseteq Nat
      <4>1. BitsOf!ByteSize \in Nat /\ bitSize <= 8 * BitsOf!ByteSize
        BY <2>1, BytesOf
      <4>2. all \subseteq 0 .. 8 * BitsOf!ByteSize - 1
        BY <2>1, <4>1 DEF BitsOf!AllBits
      <4>3. 0 .. 8 * BitsOf!ByteSize - 1 \subseteq Nat
        BY <4>1
      <4> DEFINE positions == 0 .. 8 * BitsOf!ByteSize - 1
      <4> HIDE DEF all, positions
      <4>4. positions \subseteq Nat /\ all \subseteq positions
        BY <4>2, <4>3 DEF positions
      <4>5. (positions \ bits) \intersect all = all \ marked
        BY <2>1, <4>4
      <4> QED  BY <4>4, <4>5 DEF positions
    <3>2. BitsOf!Search(clear) = FirstOf(all \ marked)
      BY <2>1, <3>1, SearchFinds
    <3>3. marked = all <=> all \ marked = {}
      BY <2>1
    <3> QED  BY <2>5, <3>2, <3>3 DEF BitsOf!FindFirstClear, FirstOf
  <2>8. marked = all <=> all \ marked = {}
    BY <2>1
  <2> QED  BY <2>1, <2>6, <2>7, <2>8, SameCardinality DEF BitsOf!BitMapAgrees, FirstOf
<1> QED  BY <1>1, <1>2, <1>3, PTL DEF BitsOf!Spec, BitMapAgrees

-------------------------------------------------------------------------------
(* The hash map and the hash set, which share their tables (HashLinear).     *)

\* Powers of two, as the tables use them.
Pow == Map!Power

\* The powers start at 1, double, and are above their exponents.
LEMMA PowIs ==
  /\ Pow[0] = 1 /\ \A n \in Nat : Pow[n] \in Nat /\ Pow[n] > n
  /\ \A n \in Nat : Pow[n + 1] = 2 * Pow[n]
<1>1. Pow = Memory!Power
  BY DEF Pow, Map!Power, Memory!Power
<1>2. ASSUME NEW n \in Nat PROVE Memory!Power[n + 1] = 2 * Memory!Power[n]
  <2>1. n + 1 \in Nat \ {0} /\ (n + 1) - 1 = n
    OBVIOUS
  <2> QED  BY <2>1, PowerDoubles
<1> QED  BY <1>1, <1>2, PowerDoubles, PowerAbove

\* A number is even or odd.
LEMMA Halves ==
  ASSUME NEW n \in Nat
  PROVE  \E m \in Nat : n = 2 * m \/ n = 2 * m + 1
<1>1. n \div 2 \in Nat /\ (n = 2 * (n \div 2) \/ n = 2 * (n \div 2) + 1)
  OBVIOUS
<1> QED  BY <1>1

Divides(d, x) == \E q \in Nat : x = d * q
Odd(x) == \E m \in Nat : x = 2 * m + 1

\* A power of two that divides a product with an odd number divides the other factor.
LEMMA OddFactor ==
  ASSUME NEW n \in Nat
  PROVE  \A x, b \in Nat : Odd(x) /\ Divides(Pow[n], x * b) => Divides(Pow[n], b)
<1> DEFINE Factors(k) == \A x, b \in Nat : Odd(x) /\ Divides(Pow[k], x * b) => Divides(Pow[k], b)
           Not == {k \in Nat : ~Factors(k)}
<1>1. Not = {}
  <2> SUFFICES ASSUME Not # {} PROVE FALSE
    OBVIOUS
  <2>1. PICK k \in Not : \A j \in Not : k <= j
    <3>1. Not \subseteq Nat
      OBVIOUS
    <3> HIDE DEF Not
    <3> QED  BY <3>1, LeastNumber
  <2>2. PICK x \in Nat, b \in Nat : Odd(x) /\ Divides(Pow[k], x * b) /\ ~Divides(Pow[k], b)
    <3>1. ~Factors(k)
      BY <2>1
    <3> QED  BY <3>1, Zenon
  <2>3. PICK m \in Nat, q \in Nat : x = 2 * m + 1 /\ x * b = Pow[k] * q
    BY <2>2 DEF Odd, Divides
  <2>4. k # 0
    <3>1. ASSUME k = 0 PROVE b = Pow[k] * b
      BY <3>1, PowIs
    <3> QED  BY <2>2, <3>1 DEF Divides
  <2>5. k - 1 \in Nat /\ k - 1 \notin Not /\ Pow[k] = 2 * Pow[k - 1] /\ Pow[k - 1] \in Nat
    <3>1. k - 1 \in Nat /\ (k - 1) + 1 = k
      BY <2>1, <2>4
    <3>2. ~(k <= k - 1)
      BY <2>1
    <3> QED  BY <2>1, <3>1, <3>2, PowIs
  <2>6. PICK h \in Nat : b = 2 * h \/ b = 2 * h + 1
    BY Halves
  <2> DEFINE p == Pow[k - 1]
  <2>7. p \in Nat /\ Pow[k] = 2 * p
    BY <2>5
  <2> HIDE DEF p
  <2>8. (2 * m + 1) * b = 2 * (p * q)
    BY <2>3, <2>7
  <2>9. b = 2 * h
    <3> SUFFICES ASSUME b = 2 * h + 1 PROVE FALSE
      BY <2>6
    <3>1. (2 * m + 1) * (2 * h + 1) = 2 * (2 * (m * h) + m + h) + 1
      OBVIOUS
    <3>2. p * q \in Nat /\ 2 * (m * h) + m + h \in Nat
      BY <2>7
    <3> QED  BY <2>8, <3>1, <3>2
  <2>10. x * h = p * q
    <3>1. (2 * m + 1) * (2 * h) = 2 * ((2 * m + 1) * h)
      OBVIOUS
    <3>2. p * q \in Nat /\ (2 * m + 1) * h \in Nat
      BY <2>7
    <3> QED  BY <2>3, <2>8, <2>9, <3>1, <3>2
  <2>11. Divides(Pow[k - 1], h)
    <3>1. Factors(k - 1)
      BY <2>5
    <3>2. Divides(Pow[k - 1], x * h)
      BY <2>10 DEF p, Divides
    <3> QED  BY <2>2, <3>1, <3>2
  <2>12. PICK d \in Nat : h = p * d
    BY <2>11 DEF p, Divides
  <2>13. b = Pow[k] * d
    BY <2>7, <2>9, <2>12
  <2> QED  BY <2>2, <2>13 DEF Divides
<1> QED  BY <1>1

\* What is left of a division.
LEMMA DivMod ==
  ASSUME NEW x \in Nat, NEW d \in Nat \ {0}
  PROVE  x \div d \in Nat /\ x % d \in 0 .. d - 1 /\ x = d * (x \div d) + (x % d)
<1>1. x \div d \in Nat
  OBVIOUS
<1>2. x % d \in 0 .. d - 1
  OBVIOUS
<1>3. x = d * (x \div d) + (x % d)
  OBVIOUS
<1> QED  BY <1>1, <1>2, <1>3

\* Triangular numbers are halves of products.
LEMMA Triangle ==
  ASSUME NEW s \in Nat
  PROVE  (s * (s + 1)) \div 2 \in Nat /\ s * (s + 1) = 2 * ((s * (s + 1)) \div 2)
<1>1. PICK m \in Nat : s = 2 * m \/ s = 2 * m + 1
  BY Halves
<1>2. CASE s = 2 * m
  <2>1. s * (s + 1) = 2 * (m * (s + 1)) /\ m * (s + 1) \in Nat
    BY <1>2
  <2> DEFINE x == m * (s + 1)
  <2>2. x \in Nat /\ s * (s + 1) = 2 * x
    BY <2>1
  <2> HIDE DEF x
  <2>3. (2 * x) \div 2 = x
    BY <2>2
  <2> QED  BY <2>2, <2>3
<1>3. CASE s = 2 * m + 1
  <2>1. s * (s + 1) = 2 * (s * (m + 1)) /\ s * (m + 1) \in Nat
    BY <1>3
  <2> DEFINE x == s * (m + 1)
  <2>2. x \in Nat /\ s * (s + 1) = 2 * x
    BY <2>1
  <2> HIDE DEF x
  <2>3. (2 * x) \div 2 = x
    BY <2>2
  <2> QED  BY <2>2, <2>3
<1> QED  BY <1>1, <1>2, <1>3

\* The steps of one search visit different slots.
LEMMA TrianglesApart ==
  ASSUME NEW k \in Nat, NEW a \in Nat, NEW r \in 0 .. Pow[k] - 1, NEW s \in 0 .. Pow[k] - 1, r < s,
         (a + ((s * (s + 1)) \div 2)) % Pow[k] = (a + ((r * (r + 1)) \div 2)) % Pow[k]
  PROVE  FALSE
<1> DEFINE p == Pow[k]
           u == (s * (s + 1)) \div 2
           v == (r * (r + 1)) \div 2
<1>1. p \in Nat \ {0} /\ Pow[k + 1] = 2 * p /\ k + 1 \in Nat
  BY PowIs
<1>2. r \in Nat /\ s \in Nat /\ s < p /\ r < p
  BY <1>1
<1>3. u \in Nat /\ v \in Nat /\ s * (s + 1) = 2 * u /\ r * (r + 1) = 2 * v
  BY <1>2, Triangle
<1>4. (a + u) % p = (a + v) % p
  OBVIOUS
<1> HIDE DEF p, u, v
<1> DEFINE e == s - r
<1>5. e \in Nat /\ e > 0 /\ s = r + e
  BY <1>2
<1> HIDE DEF e
<1>6. e * (s + r + 1) = 2 * (u - v)
  <2>1. e * (s + r + 1) = s * (s + 1) - r * (r + 1)
    BY <1>2, <1>5
  <2> QED  BY <1>3, <2>1
<1>7. u > v
  <2>1. e * (s + r + 1) > 0
    BY <1>2, <1>5
  <2> QED  BY <1>3, <1>6, <2>1
<1>8. PICK d \in Nat : u - v = p * d
  <2> DEFINE x == (a + u) \div p
             y == (a + v) \div p
             z == (a + v) % p
  <2>1. /\ a + u = p * x + z /\ a + v = p * y + z /\ x \in Nat /\ y \in Nat /\ z \in Nat
    <3>1. a + u \in Nat /\ a + v \in Nat
      BY <1>3
    <3>2. x \in Nat /\ (a + u) % p \in 0 .. p - 1 /\ a + u = p * x + ((a + u) % p)
      BY <1>1, <3>1, DivMod
    <3>3. y \in Nat /\ z \in 0 .. p - 1 /\ a + v = p * y + z
      BY <1>1, <3>1, DivMod
    <3> HIDE DEF x, y, z
    <3>4. (a + u) % p = z
      BY <1>4 DEF z
    <3> QED  BY <1>1, <3>2, <3>3, <3>4
  <2> HIDE DEF x, y, z
  <2>2. u - v = p * (x - y)
    BY <1>1, <1>3, <2>1
  <2>3. x - y \in Nat
    <3> SUFFICES ASSUME x < y PROVE FALSE
      BY <2>1
    <3>1. p * (x - y) <= 0
      BY <1>1, <2>1
    <3> QED  BY <1>3, <1>7, <2>2, <3>1
  <2> QED  BY <2>2, <2>3
<1>9. e * (s + r + 1) = Pow[k + 1] * d
  BY <1>1, <1>6, <1>8
<1>10. PICK m \in Nat : e = 2 * m \/ e = 2 * m + 1
  BY <1>5, Halves
<1>11. CASE e = 2 * m + 1
  <2>1. s + r + 1 \in Nat
    BY <1>2
  <2>2. PICK f \in Nat : s + r + 1 = Pow[k + 1] * f
    <3>1. Odd(e) /\ Divides(Pow[k + 1], e * (s + r + 1))
      BY <1>9, <1>11 DEF Odd, Divides
    <3>2. Divides(Pow[k + 1], s + r + 1)
      BY <1>1, <1>5, <2>1, <3>1, OddFactor
    <3> QED  BY <3>2 DEF Divides
  <2>3. f # 0
    BY <1>1, <1>2, <2>2
  <2>4. Pow[k + 1] * f >= Pow[k + 1]
    BY <1>1, <2>3
  <2> QED  BY <1>1, <1>2, <2>2, <2>4
<1>12. CASE e = 2 * m
  <2>1. s + r + 1 = 2 * (m + r) + 1 /\ m + r \in Nat
    BY <1>2, <1>5, <1>12
  <2>2. (2 * (m + r) + 1) * e = Pow[k + 1] * d
    <3>1. (s + r + 1) * e = e * (s + r + 1)
      BY <1>2, <1>5
    <3> QED  BY <1>9, <2>1, <3>1
  <2>3. PICK f \in Nat : e = Pow[k + 1] * f
    <3>1. Odd(2 * (m + r) + 1) /\ Divides(Pow[k + 1], (2 * (m + r) + 1) * e)
      BY <2>1, <2>2 DEF Odd, Divides
    <3>2. Divides(Pow[k + 1], e)
      <4>1. 2 * (m + r) + 1 \in Nat
        BY <2>1
      <4> QED  BY <1>1, <1>5, <3>1, <4>1, OddFactor
    <3> QED  BY <3>2 DEF Divides
  <2>4. f # 0
    BY <1>1, <1>5, <2>3
  <2>5. Pow[k + 1] * f >= Pow[k + 1]
    BY <1>1, <2>4
  <2> QED  BY <1>1, <1>2, <1>5, <2>3, <2>5
<1> QED  BY <1>10, <1>11, <1>12

-------------------------------------------------------------------------------
(* The tables of the hash map and set: what makes one sound.                 *)

Slot(W) ==
  [hash : Nat \ {0, 1}, key : Keys, value : W] \cup {Map!Unused, Map!Tombstone}

Shaped(t, W) ==
  /\ t.shift \in 3 .. 30 /\ t.size = Pow[t.shift]
  /\ t \in [shift : Nat, size : Nat, slots : [0 .. t.size - 1 -> Slot(W)],
            count : Nat, used : Nat]

Entries(t) == {i \in 0 .. t.size - 1 : t.slots[i].hash > 1}
Marked(t) == {i \in 0 .. t.size - 1 : t.slots[i].hash > 0}
Held(t) == {t.slots[i] : i \in Entries(t)}

\* No free slot lies before an entry on its way.
Reached(t, i) ==
  \E step \in 0 .. t.size :
     /\ Map!Probe(t, t.slots[i].hash, step) = i
     /\ \A e \in 0 .. step - 1 : t.slots[Map!Probe(t, t.slots[i].hash, e)].hash # 0

Core(t, W) ==
  /\ Shaped(t, W)
  /\ \A i \in Entries(t) : t.slots[i].hash = Map!HashGet(t.slots[i].key) /\ Reached(t, i)
  /\ \A i, j \in Entries(t) : t.slots[i].key = t.slots[j].key => i = j

Counted(t) == t.count = Cardinality(Entries(t)) /\ t.used = Cardinality(Marked(t))

Roomy(t) == t.used + (t.size \div 4) <= t.size /\ (t.size = 8 \/ t.size <= 4 * t.count)

Sound(t, W) == Core(t, W) /\ Counted(t) /\ Roomy(t)

\* There is a prime for every size of a table, and it is not 0.
LEMMA PrimesThere ==
  /\ Len(Map!PrimeMod) = 30
  /\ \A n \in 1 .. 30 : Map!PrimeMod[n] \in Nat \ {0}
  /\ Map!MinShift = 3
BY DEF Map!PrimeMod, Map!MinShift

\* The hash of a key is that of an entry.
LEMMA HashIs ==
  ASSUME NEW key \in Keys
  PROVE  Map!HashGet(key) \in Nat /\ Map!HashGet(key) > 1
BY KeysAssumption DEF Map!HashGet

\* What the shape says of a slot.
LEMMA ShapedIs ==
  ASSUME NEW t, NEW W, Shaped(t, W)
  PROVE  /\ t.shift \in 3 .. 30 /\ t.size \in Nat /\ t.size >= 8 /\ t.size = Pow[t.shift]
         /\ t.count \in Nat /\ t.used \in Nat
         /\ DOMAIN t.slots = 0 .. t.size - 1
         /\ \A i \in 0 .. t.size - 1 : t.slots[i] \in Slot(W) /\ t.slots[i].hash \in Nat
         /\ \A i \in Entries(t) : t.slots[i].key \in Keys /\ t.slots[i].value \in W
         /\ Map!Size(t) = t.size
<1>1. /\ t.shift \in 3 .. 30 /\ t.size \in Nat /\ t.size = Pow[t.shift]
      /\ t.count \in Nat /\ t.used \in Nat
      /\ t.slots \in [0 .. t.size - 1 -> Slot(W)]
  BY DEF Shaped
<1>2. t.size >= 8
  <2>1. Pow[3] = 8
    <3>1. /\ Pow[0] = 1 /\ Pow[0 + 1] = 2 * Pow[0]
          /\ Pow[1 + 1] = 2 * Pow[1] /\ Pow[2 + 1] = 2 * Pow[2]
      BY PowIs
    <3> QED  BY <3>1
  <2>2. \A n \in Nat : n >= 3 => Pow[n] >= 8
    <3> DEFINE Less == {n \in Nat : n >= 3 /\ ~(Pow[n] >= 8)}
    <3>1. Less = {}
      <4> SUFFICES ASSUME Less # {} PROVE FALSE
        OBVIOUS
      <4>1. PICK n \in Less : \A m \in Less : n <= m
        <5>1. Less \subseteq Nat
          OBVIOUS
        <5> HIDE DEF Less
        <5> QED  BY <5>1, LeastNumber
      <4>2. n # 3
        BY <2>1, <4>1
      <4>3. n - 1 \in Nat /\ n - 1 >= 3 /\ (n - 1) + 1 = n /\ ~(n <= n - 1)
        BY <4>1, <4>2
      <4>4. Pow[n - 1] >= 8 /\ Pow[n - 1] \in Nat /\ Pow[n] = 2 * Pow[n - 1]
        BY <4>1, <4>3, PowIs
      <4> QED  BY <4>1, <4>4
    <3> QED  BY <3>1
  <2>3. t.shift \in Nat /\ t.shift >= 3
    <3>1. t.shift \in 3 .. 30
      BY <1>1
    <3> QED  BY <3>1
  <2> QED  BY <1>1, <2>2, <2>3
<1>3. \A i \in 0 .. t.size - 1 : t.slots[i] \in Slot(W) /\ t.slots[i].hash \in Nat
  BY <1>1 DEF Slot, Map!Unused, Map!Tombstone
<1>4. \A i \in Entries(t) : t.slots[i].key \in Keys /\ t.slots[i].value \in W
  BY <1>3 DEF Slot, Map!Unused, Map!Tombstone, Entries
<1> QED  BY <1>1, <1>2, <1>3, <1>4 DEF Map!Size

\* The size of a table is the number of its slots.
LEMMA SizeIs ==
  ASSUME NEW t, NEW W, Shaped(t, W)
  PROVE  /\ t.shift \in 3 .. 30 /\ t.shift \in Nat
         /\ t.size \in Nat /\ t.size >= 8 /\ t.size = Pow[t.shift]
         /\ Map!Size(t) = t.size /\ DOMAIN t.slots = 0 .. t.size - 1
<1>1. t.shift \in 3 .. 30 => t.shift \in Nat
  OBVIOUS
<1> QED  BY <1>1, ShapedIs

\* Entries are the entries of the model.
LEMMA EntriesAre ==
  ASSUME NEW t, NEW W, Shaped(t, W)
  PROVE  Map!Entries(t) = Entries(t)
BY ShapedIs DEF Map!Entries, Map!Real, Entries

\* A search stays in the table ...
LEMMA ProbeIn ==
  ASSUME NEW t, NEW W, Shaped(t, W), NEW h \in Nat, NEW step \in Nat
  PROVE  Map!Probe(t, h, step) \in 0 .. t.size - 1
<1> DEFINE a == h % Map!PrimeMod[t.shift]
           u == (step * (step + 1)) \div 2
<1>1. a \in Nat /\ u \in Nat
  <2>1. Map!PrimeMod[t.shift] \in Nat \ {0}
    <3>1. t.shift \in 3 .. 30
      BY SizeIs
    <3>2. t.shift \in 1 .. 30
      BY <3>1
    <3> QED  BY <3>2, PrimesThere
  <2> QED  BY <2>1, DivMod, Triangle
<1>2. Map!Probe(t, h, step) = (a + u) % t.size
  BY SizeIs DEF Map!Probe
<1> HIDE DEF a, u
<1>3. a + u \in Nat /\ t.size \in Nat \ {0}
  BY <1>1, SizeIs
<1> QED  BY <1>2, <1>3, DivMod

\* ... and comes to every slot of it.
LEMMA ProbeCovers ==
  ASSUME NEW t, NEW W, Shaped(t, W), NEW h \in Nat, NEW i \in 0 .. t.size - 1
  PROVE  \E step \in 0 .. t.size - 1 : Map!Probe(t, h, step) = i
<1> DEFINE a == h % Map!PrimeMod[t.shift]
           S == 0 .. t.size - 1
           f == [step \in S |-> Map!Probe(t, h, step)]
<1>1. a \in Nat
  <2>1. Map!PrimeMod[t.shift] \in Nat \ {0}
    <3>1. t.shift \in 3 .. 30
      BY SizeIs
    <3>2. t.shift \in 1 .. 30
      BY <3>1
    <3> QED  BY <3>2, PrimesThere
  <2> QED  BY <2>1, DivMod
<1>2. \A step \in Nat : Map!Probe(t, h, step) = (a + ((step * (step + 1)) \div 2)) % Pow[t.shift]
  BY SizeIs DEF Map!Probe
<1> HIDE DEF a
<1>3. f \in [S -> S]
  <2> SUFFICES \A step \in S : Map!Probe(t, h, step) \in S
    OBVIOUS
  <2>1. \A step \in S : step \in Nat
    BY SizeIs
  <2> QED  BY <2>1, ProbeIn
<1>4. ASSUME NEW r \in S, NEW s \in S, f[r] = f[s], r < s PROVE FALSE
  <2>1. /\ (a + ((s * (s + 1)) \div 2)) % Pow[t.shift] = (a + ((r * (r + 1)) \div 2)) % Pow[t.shift]
        /\ t.shift \in Nat /\ r \in 0 .. Pow[t.shift] - 1 /\ s \in 0 .. Pow[t.shift] - 1
    <3>1. t.shift \in Nat /\ t.size = Pow[t.shift] /\ t.size \in Nat
      BY SizeIs
    <3>2. r \in Nat /\ s \in Nat
      BY <3>1
    <3>3. f[r] = Map!Probe(t, h, r) /\ f[s] = Map!Probe(t, h, s)
      OBVIOUS
    <3> QED  BY <1>2, <1>4, <3>1, <3>2, <3>3
  <2> QED  BY <1>1, <1>4, <2>1, TrianglesApart
<1>5. ASSUME NEW r \in S, NEW s \in S, f[r] = f[s] PROVE r = s
  <2>1. r \in Nat /\ s \in Nat
    BY SizeIs
  <2> HIDE DEF f, S
  <2> QED  BY <1>4, <1>5, <2>1
<1>6. IsFiniteSet(S)
  <2>1. 0 \in Int /\ t.size - 1 \in Int
    BY SizeIs
  <2> QED  BY <2>1, FS_Interval
<1>7. f \in Injection(S, S)
  <2> HIDE DEF f, S
  <2> QED  BY <1>3, <1>5, Fun_IsInj
<1>8. f \in Surjection(S, S)
  <2> HIDE DEF f, S
  <2> QED  BY <1>6, <1>7, FS_Injection
<1>9. PICK step \in S : f[step] = i
  <2> HIDE DEF f
  <2> QED  BY <1>8 DEF Surjection
<1> QED  BY <1>9

\* Where a search stops: at the first slot on its way that it looks for.
LEMMA StopIs ==
  ASSUME NEW t, NEW W, Shaped(t, W), NEW h, NEW stops,
         NEW s \in 0 .. t.size, stops[Map!Probe(t, h, s)]
  PROVE  \E last \in 0 .. s :
            /\ Map!FirstStop(t, h, stops) = Map!Probe(t, h, last)
            /\ stops[Map!Probe(t, h, last)]
            /\ \A e \in 0 .. last - 1 : ~stops[Map!Probe(t, h, e)]
<1> DEFINE P(n) == /\ n > t.size \/ stops[Map!Probe(t, h, n)]
                   /\ \A e \in 0 .. n - 1 : ~stops[Map!Probe(t, h, e)]
           S == {n \in 0 .. t.size + 1 : stops[Map!Probe(t, h, n)]}
           last == CHOOSE n \in 0 .. t.size + 1 : P(n)
<1>1. t.size \in Nat
  BY SizeIs
<1>2. PICK m \in S : \A n \in S : m <= n
  <2>1. s \in S /\ S \subseteq Nat
    BY <1>1
  <2> HIDE DEF S
  <2> QED  BY <2>1, LeastNumber
<1>3. m <= s /\ m \in 0 .. s /\ m \in 0 .. t.size + 1
  BY <1>1, <1>2
<1>4. \A e \in 0 .. m - 1 : ~stops[Map!Probe(t, h, e)]
  <2> TAKE e \in 0 .. m - 1
  <2>1. e \in 0 .. t.size + 1 /\ ~(m <= e)
    BY <1>1, <1>3
  <2> QED  BY <1>2, <2>1
<1>5. P(m)
  BY <1>2, <1>4
<1>6. last \in 0 .. t.size + 1 /\ P(last)
  <2> HIDE DEF P
  <2> QED  BY <1>3, <1>5
<1>7. Map!FirstStop(t, h, stops) = IF last > t.size THEN Map!None ELSE Map!Probe(t, h, last)
  <2>1. Map!Size(t) = t.size
    BY SizeIs
  <2> QED  BY <2>1 DEF Map!FirstStop
<1> HIDE DEF last
<1>8. last <= m
  <2> SUFFICES ASSUME last > m PROVE FALSE
    BY <1>1, <1>3, <1>6
  <2>1. m \in 0 .. last - 1
    BY <1>1, <1>3, <1>6
  <2> QED  BY <1>2, <1>6, <2>1
<1>9. last \in 0 .. s /\ ~(last > t.size)
  BY <1>1, <1>3, <1>6, <1>8
<1>10. stops[Map!Probe(t, h, last)] /\ \A e \in 0 .. last - 1 : ~stops[Map!Probe(t, h, e)]
  BY <1>6, <1>9
<1> QED  BY <1>7, <1>9, <1>10

\* A set has as many members as a set that it is the image of, one by one.
LEMMA ImageSize ==
  ASSUME NEW S, IsFiniteSet(S), NEW T, NEW f \in [S -> T],
         \A a, b \in S : f[a] = f[b] => a = b, \A y \in T : \E a \in S : f[a] = y
  PROVE  IsFiniteSet(T) /\ Cardinality(T) = Cardinality(S)
<1>1. f \in Injection(S, T) /\ f \in Surjection(S, T)
  BY Fun_IsInj, Fun_IsSurj
<1> QED  BY <1>1, FS_Surjection

\* Slots in the table are finitely many.
LEMMA SlotsFinite ==
  ASSUME NEW t, NEW W, Shaped(t, W)
  PROVE  /\ IsFiniteSet(0 .. t.size - 1) /\ Cardinality(0 .. t.size - 1) = t.size
         /\ IsFiniteSet(Entries(t)) /\ Cardinality(Entries(t)) \in Nat
         /\ IsFiniteSet(Marked(t)) /\ Cardinality(Marked(t)) \in Nat
<1>1. IsFiniteSet(0 .. t.size - 1) /\ Cardinality(0 .. t.size - 1) = t.size
  <2>1. t.size \in Nat /\ t.size >= 8
    BY SizeIs
  <2>2. 0 \in Int /\ t.size - 1 \in Int /\ ~(0 > t.size - 1) /\ (t.size - 1) - 0 + 1 = t.size
    BY <2>1
  <2> QED  BY <2>2, FS_Interval
<1>2. Entries(t) \in SUBSET (0 .. t.size - 1) /\ Marked(t) \in SUBSET (0 .. t.size - 1)
  BY DEF Entries, Marked
<1> QED  BY <1>1, <1>2, FS_Subset, FS_CardinalityType

\* An entry is all there is of its key, so there are as many as slots with one, at most as
\* many as keys.
LEMMA HeldSize ==
  ASSUME NEW t, NEW W, Core(t, W)
  PROVE  /\ IsFiniteSet(Held(t)) /\ Cardinality(Held(t)) = Cardinality(Entries(t))
         /\ Cardinality(Entries(t)) <= Cardinality(Keys)
<1>1. Shaped(t, W) /\ \A i, j \in Entries(t) : t.slots[i].key = t.slots[j].key => i = j
  BY DEF Core
<1>2. IsFiniteSet(Entries(t))
  BY <1>1, SlotsFinite
<1> DEFINE f == [i \in Entries(t) |-> t.slots[i]]
           g == [i \in Entries(t) |-> t.slots[i].key]
<1>3. f \in [Entries(t) -> Held(t)] /\ \A y \in Held(t) : \E a \in Entries(t) : f[a] = y
  BY DEF Held
<1>4. \A a, b \in Entries(t) : f[a] = f[b] => a = b
  BY <1>1
<1>5. IsFiniteSet(Held(t)) /\ Cardinality(Held(t)) = Cardinality(Entries(t))
  <2> HIDE DEF f
  <2> QED  BY <1>2, <1>3, <1>4, ImageSize
<1>6. g \in [Entries(t) -> Keys]
  BY <1>1, ShapedIs
<1>7. \A a, b \in Entries(t) : g[a] = g[b] => a = b
  BY <1>1
<1>8. g \in Injection(Entries(t), Keys)
  <2> HIDE DEF g
  <2> QED  BY <1>6, <1>7, Fun_IsInj
<1>9. Cardinality(Entries(t)) <= Cardinality(Keys)
  <2> HIDE DEF g
  <2> QED  BY <1>8, KeysAssumption, FS_Injection
<1> QED  BY <1>5, <1>9

\* A table that is not full has a slot without an entry.
LEMMA VacantThere ==
  ASSUME NEW t, NEW W, Shaped(t, W), Cardinality(Entries(t)) < t.size
  PROVE  \E i \in 0 .. t.size - 1 : ~(t.slots[i].hash > 1)
<1> SUFFICES ASSUME \A i \in 0 .. t.size - 1 : t.slots[i].hash > 1 PROVE FALSE
  OBVIOUS
<1>1. Entries(t) = 0 .. t.size - 1
  BY DEF Entries
<1>2. Cardinality(0 .. t.size - 1) = t.size /\ t.size \in Nat
  BY SlotsFinite, SizeIs
<1> QED  BY <1>1, <1>2

\* A table with room has a slot that never had an entry, and one without an entry at least.
LEMMA FreeThere ==
  ASSUME NEW t, NEW W, Sound(t, W)
  PROVE  /\ \E i \in 0 .. t.size - 1 : t.slots[i].hash = 0
         /\ Cardinality(Entries(t)) < t.size
<1>1. Shaped(t, W) /\ Counted(t) /\ t.used + (t.size \div 4) <= t.size
  BY DEF Sound, Core, Roomy
<1>2. t.size \in Nat /\ t.size >= 8
  BY <1>1, SizeIs
<1>3. t.used \in Nat /\ \A i \in 0 .. t.size - 1 : t.slots[i].hash \in Nat
  BY <1>1, ShapedIs
<1>4. t.used < t.size
  <2>1. t.size \div 4 \in Nat /\ t.size \div 4 > 0
    BY <1>2
  <2> QED  BY <1>1, <1>2, <1>3, <2>1
<1>5. t.used = Cardinality(Marked(t))
  BY <1>1 DEF Counted
<1>6. \E i \in 0 .. t.size - 1 : t.slots[i].hash = 0
  <2> SUFFICES ASSUME \A i \in 0 .. t.size - 1 : t.slots[i].hash # 0 PROVE FALSE
    OBVIOUS
  <2>1. Marked(t) = 0 .. t.size - 1
    BY <1>3 DEF Marked
  <2>2. Cardinality(0 .. t.size - 1) = t.size
    BY <1>1, SlotsFinite
  <2> QED  BY <1>2, <1>4, <1>5, <2>1, <2>2
<1>7. Cardinality(Entries(t)) <= Cardinality(Marked(t))
  <2>1. Entries(t) \in SUBSET Marked(t)
    BY <1>3 DEF Entries, Marked
  <2> QED  BY <1>1, <2>1, SlotsFinite, FS_Subset
<1>8. Cardinality(Entries(t)) \in Nat /\ Cardinality(Marked(t)) \in Nat
  BY <1>1, SlotsFinite
<1> QED  BY <1>2, <1>4, <1>5, <1>6, <1>7, <1>8

\* Where a key is inserted: at the first slot on its way without an entry, unless an entry
\* with an equal key comes before.
LEMMA InsertIs ==
  ASSUME NEW t, NEW W, Shaped(t, W), Cardinality(Entries(t)) < t.size, NEW key \in Keys
  PROVE  \E p \in 0 .. t.size - 1 :
            /\ \A replace \in BOOLEAN :
                  Map!FindToInsert(t, key, replace) =
                     IF t.slots[p].hash > 1 /\ ~replace THEN Map!None ELSE p
            /\ t.slots[p].hash > 1 => Map!Matches(t.slots[p], key)
            /\ \E last \in 0 .. t.size :
                  /\ p = Map!Probe(t, Map!HashGet(key), last)
                  /\ \A e \in 0 .. last - 1 :
                        t.slots[Map!Probe(t, Map!HashGet(key), e)].hash > 1
<1> DEFINE h == Map!HashGet(key)
           stops == Map!VacantOrEqual(t, key)
<1>1. t.size \in Nat /\ DOMAIN t.slots = 0 .. t.size - 1
  BY SizeIs
<1>2. h \in Nat
  BY HashIs
<1>3. /\ stops \in [0 .. t.size - 1 -> BOOLEAN]
      /\ \A i \in 0 .. t.size - 1 :
            stops[i] <=> ~(t.slots[i].hash > 1) \/ Map!Matches(t.slots[i], key)
  BY <1>1 DEF Map!VacantOrEqual, Map!Real
<1>4. \A step \in Nat : Map!Probe(t, h, step) \in 0 .. t.size - 1
  BY <1>2, ProbeIn
<1>5. PICK i \in 0 .. t.size - 1 : ~(t.slots[i].hash > 1)
  BY VacantThere
<1>6. PICK s \in 0 .. t.size - 1 : Map!Probe(t, h, s) = i
  BY <1>2, ProbeCovers
<1>7. s \in 0 .. t.size /\ stops[Map!Probe(t, h, s)]
  BY <1>1, <1>3, <1>5, <1>6
<1> HIDE DEF stops
<1>8. PICK last \in 0 .. s :
            /\ Map!FirstStop(t, h, stops) = Map!Probe(t, h, last)
            /\ stops[Map!Probe(t, h, last)]
            /\ \A e \in 0 .. last - 1 : ~stops[Map!Probe(t, h, e)]
  BY <1>7, StopIs
<1> DEFINE p == Map!Probe(t, h, last)
<1>9. p \in 0 .. t.size - 1 /\ last \in 0 .. t.size /\ last \in Nat
  <2>1. last \in 0 .. t.size /\ last \in Nat
    BY <1>1, <1>7
  <2> QED  BY <1>4, <2>1
<1>10. p # Map!None
  BY <1>1, <1>9 DEF Map!None
<1>11. \A replace \in BOOLEAN :
         Map!FindToInsert(t, key, replace) =
            IF t.slots[p].hash > 1 /\ ~replace THEN Map!None ELSE p
  BY <1>8, <1>10 DEF Map!FindToInsert, Map!Real, stops
<1>12. t.slots[p].hash > 1 => Map!Matches(t.slots[p], key)
  BY <1>3, <1>8, <1>9
<1>13. \A e \in 0 .. last - 1 : t.slots[Map!Probe(t, h, e)].hash > 1
  <2> TAKE e \in 0 .. last - 1
  <2>1. e \in Nat /\ Map!Probe(t, h, e) \in 0 .. t.size - 1
    BY <1>4, <1>9
  <2> QED  BY <1>3, <1>8, <2>1
<1> QED  BY <1>9, <1>11, <1>12, <1>13

\* Whether a slot holds an equal key: equal keys have equal hashes.
LEMMA MatchIs ==
  ASSUME NEW t, NEW W, Core(t, W), NEW key \in Keys, NEW i \in 0 .. t.size - 1
  PROVE  Map!Matches(t.slots[i], key)
            <=> i \in Entries(t) /\ NameOf[t.slots[i].key] = NameOf[key]
BY HashIs DEF Core, Entries, Map!Matches, Map!HashGet

\* A search for a key finds an entry with an equal one, when there is one.
LEMMA FindIs ==
  ASSUME NEW t, NEW W, Core(t, W), \E i \in 0 .. t.size - 1 : t.slots[i].hash = 0,
         NEW key \in Keys
  PROVE  \/ /\ Map!Find(t, key) = Map!None
            /\ \A i \in Entries(t) : NameOf[t.slots[i].key] # NameOf[key]
         \/ /\ Map!Find(t, key) \in Entries(t)
            /\ Map!Find(t, key) # Map!None
            /\ NameOf[t.slots[Map!Find(t, key)].key] = NameOf[key]
<1> DEFINE h == Map!HashGet(key)
           stops == Map!FreeOrEqual(t, key)
           Equal(i) == i \in Entries(t) /\ NameOf[t.slots[i].key] = NameOf[key]
           found == Map!FirstStop(t, h, stops)
<1>1. Shaped(t, W) /\ t.size \in Nat /\ DOMAIN t.slots = 0 .. t.size - 1
  BY SizeIs DEF Core
<1>2. h \in Nat
  BY HashIs
<1>3. /\ stops \in [0 .. t.size - 1 -> BOOLEAN]
      /\ \A i \in 0 .. t.size - 1 : stops[i] <=> t.slots[i].hash = 0 \/ Equal(i)
  <2>1. /\ stops \in [0 .. t.size - 1 -> BOOLEAN]
        /\ \A i \in 0 .. t.size - 1 :
              stops[i] <=> t.slots[i].hash = 0 \/ Map!Matches(t.slots[i], key)
    BY <1>1 DEF Map!FreeOrEqual
  <2> HIDE DEF stops
  <2> QED  BY <2>1, MatchIs
<1>4. \A step \in Nat : Map!Probe(t, h, step) \in 0 .. t.size - 1
  BY <1>1, <1>2, ProbeIn
<1>5. Map!Find(t, key) = IF found # Map!None /\ t.slots[found].hash > 1 THEN found ELSE Map!None
  BY DEF Map!Find, Map!Real
<1> HIDE DEF stops
<1>6. PICK i \in 0 .. t.size - 1 : t.slots[i].hash = 0
  OBVIOUS
<1>7. PICK s \in 0 .. t.size - 1 : Map!Probe(t, h, s) = i
  BY <1>1, <1>2, ProbeCovers
<1>8. s \in 0 .. t.size /\ stops[Map!Probe(t, h, s)]
  BY <1>1, <1>3, <1>6, <1>7
<1>9. PICK last \in 0 .. s : found = Map!Probe(t, h, last) /\ stops[Map!Probe(t, h, last)]
  BY <1>1, <1>8, StopIs
<1>10. found \in 0 .. t.size - 1 /\ found # Map!None /\ (t.slots[found].hash = 0 \/ Equal(found))
  <2>1. last \in Nat
    BY <1>1, <1>8, <1>9
  <2>2. found \in 0 .. t.size - 1
    BY <1>4, <1>9, <2>1
  <2>3. found # Map!None
    BY <1>1, <2>2 DEF Map!None
  <2> HIDE DEF Equal
  <2> QED  BY <1>3, <1>9, <2>2, <2>3
<1>11. CASE Equal(found)
  <2>1. t.slots[found].hash > 1
    BY <1>11 DEF Entries
  <2>2. Map!Find(t, key) = found
    BY <1>5, <1>10, <2>1
  <2> QED  BY <1>10, <1>11, <2>2
<1>12. CASE t.slots[found].hash = 0
  <2>1. Map!Find(t, key) = Map!None
    BY <1>5, <1>12
  <2>2. ASSUME NEW j \in Entries(t), NameOf[t.slots[j].key] = NameOf[key] PROVE FALSE
    <3>1. t.slots[j].hash = h /\ Reached(t, j) /\ j \in 0 .. t.size - 1
      BY <2>2 DEF Core, Map!HashGet, Entries
    <3>2. PICK step \in 0 .. t.size :
             /\ Map!Probe(t, h, step) = j
             /\ \A e \in 0 .. step - 1 : t.slots[Map!Probe(t, h, e)].hash # 0
      BY <3>1 DEF Reached
    <3>3. Equal(j)
      BY <2>2
    <3> HIDE DEF Equal, found
    <3>4. stops[Map!Probe(t, h, step)]
      BY <1>3, <3>1, <3>2, <3>3
    <3>5. PICK first \in 0 .. step : found = Map!Probe(t, h, first)
      BY <1>1, <3>4, StopIs DEF found
    <3>6. first # step
      <4> SUFFICES ASSUME first = step PROVE FALSE
        OBVIOUS
      <4>1. found = j
        BY <3>2, <3>5
      <4>2. t.slots[j].hash > 1
        BY <2>2 DEF Entries
      <4> QED  BY <1>12, <4>1, <4>2
    <3>7. first \in 0 .. step - 1
      BY <1>1, <3>2, <3>5, <3>6
    <3> QED  BY <1>12, <3>2, <3>5, <3>7
  <2> QED  BY <2>1, <2>2
<1> QED  BY <1>10, <1>11, <1>12

-------------------------------------------------------------------------------
(* What writing a slot changes.                                              *)

\* t2 is t with s in slot p, and with counters of its own.
Writes(t, t2, W, p, s) ==
  /\ t2 \in [shift : Nat, size : Nat, slots : [0 .. t.size - 1 -> Slot(W)],
             count : Nat, used : Nat]
  /\ t2.shift = t.shift /\ t2.size = t.size /\ t2.slots = [t.slots EXCEPT ![p] = s]

\* An entry may be in slot p of t.
Fits(t, p, s) ==
  /\ s.hash = Map!HashGet(s.key)
  /\ \A i \in Entries(t) : i # p => t.slots[i].key # s.key
  /\ \E last \in 0 .. t.size :
        /\ Map!Probe(t, s.hash, last) = p
        /\ \A e \in 0 .. last - 1 : t.slots[Map!Probe(t, s.hash, e)].hash # 0

\* What is in t2 then.
Written(t, t2, W, p, s) ==
  /\ Core(t2, W)
  /\ \A i : i \in Entries(t2) <=> IF i = p THEN s.hash > 1 ELSE i \in Entries(t)
  /\ \A i : i \in Marked(t2) <=> i = p \/ i \in Marked(t)
  /\ \A i \in 0 .. t.size - 1 : i # p => t2.slots[i] = t.slots[i]
  /\ t2.slots[p] = s

\* Where a write at a fitting slot leaves the entries and the counted slots.
LEMMA WriteKeeps ==
  ASSUME NEW t, NEW W, Core(t, W), NEW t2, NEW p \in 0 .. t.size - 1, NEW s \in Slot(W),
         Writes(t, t2, W, p, s), s.hash # 0,
         s.hash > 1 => Fits(t, p, s)
  PROVE  Written(t, t2, W, p, s)
<1>1. /\ Shaped(t, W) /\ t.size \in Nat /\ t.size = Pow[t.shift] /\ t.shift \in 3 .. 30
      /\ DOMAIN t.slots = 0 .. t.size - 1
  BY SizeIs DEF Core
<1>2. /\ t2.shift = t.shift /\ t2.size = t.size /\ t2.slots = [t.slots EXCEPT ![p] = s]
      /\ t2 \in [shift : Nat, size : Nat, slots : [0 .. t2.size - 1 -> Slot(W)],
                 count : Nat, used : Nat]
  BY DEF Writes
<1>3. Shaped(t2, W)
  BY <1>1, <1>2 DEF Shaped
<1>4. (\A i \in 0 .. t.size - 1 : i # p => t2.slots[i] = t.slots[i]) /\ t2.slots[p] = s
  BY <1>1, <1>2
<1>5. /\ \A i \in 0 .. t.size - 1 : t.slots[i].hash \in Nat /\ t2.slots[i].hash \in Nat
      /\ s.hash \in Nat
  <2>1. \A i \in 0 .. t.size - 1 : t.slots[i].hash \in Nat
    BY <1>1, ShapedIs
  <2>2. \A i \in 0 .. t2.size - 1 : t2.slots[i].hash \in Nat
    BY <1>3, ShapedIs
  <2> QED  BY <1>2, <1>4, <2>1, <2>2
<1>6. \A i : i \in Entries(t2) <=> IF i = p THEN s.hash > 1 ELSE i \in Entries(t)
  <2>1. \A i \in 0 .. t.size - 1 : t2.slots[i].hash > 1 <=>
           IF i = p THEN s.hash > 1 ELSE t.slots[i].hash > 1
    BY <1>4
  <2> QED  BY <1>2, <2>1 DEF Entries
<1>7. \A i : i \in Marked(t2) <=> i = p \/ i \in Marked(t)
  <2>1. \A i \in 0 .. t.size - 1 : t2.slots[i].hash > 0 <=> i = p \/ t.slots[i].hash > 0
    BY <1>4, <1>5
  <2> QED  BY <1>2, <2>1 DEF Marked
<1>8. \A h, step : Map!Probe(t2, h, step) = Map!Probe(t, h, step)
  BY <1>2 DEF Map!Probe, Map!Size
<1>9. \A i \in 0 .. t.size - 1 : t.slots[i].hash # 0 => t2.slots[i].hash # 0
  BY <1>4
<1>10. ASSUME NEW h \in Nat, NEW last \in 0 .. t.size, NEW i \in 0 .. t.size - 1,
              Map!Probe(t, h, last) = i, t2.slots[i].hash = h,
              \A e \in 0 .. last - 1 : t.slots[Map!Probe(t, h, e)].hash # 0
       PROVE  Reached(t2, i)
  <2>1. \A e \in 0 .. last - 1 : t2.slots[Map!Probe(t, h, e)].hash # 0
    <3> TAKE e \in 0 .. last - 1
    <3>1. e \in Nat
      BY <1>1
    <3>2. Map!Probe(t, h, e) \in 0 .. t.size - 1
      BY <1>1, <3>1, ProbeIn
    <3> QED  BY <1>9, <1>10, <3>2
  <2>2. \A e \in 0 .. last - 1 : t2.slots[Map!Probe(t2, t2.slots[i].hash, e)].hash # 0
    BY <1>8, <1>10, <2>1
  <2>3. last \in 0 .. t2.size /\ Map!Probe(t2, t2.slots[i].hash, last) = i
    BY <1>2, <1>8, <1>10
  <2> QED  BY <2>2, <2>3 DEF Reached
<1>11. ASSUME NEW i \in Entries(t2)
       PROVE  t2.slots[i].hash = Map!HashGet(t2.slots[i].key) /\ Reached(t2, i)
  <2>1. i \in 0 .. t.size - 1 /\ (i = p => s.hash > 1) /\ (i # p => i \in Entries(t))
    BY <1>2, <1>6, <1>11 DEF Entries
  <2>2. CASE i = p
    <3>1. s.hash > 1 /\ t2.slots[i] = s
      BY <1>4, <2>1, <2>2
    <3>2. PICK last \in 0 .. t.size :
             /\ Map!Probe(t, s.hash, last) = p
             /\ \A e \in 0 .. last - 1 : t.slots[Map!Probe(t, s.hash, e)].hash # 0
      BY <3>1 DEF Fits
    <3>3. Reached(t2, i)
      BY <1>5, <1>10, <2>2, <3>1, <3>2
    <3> QED  BY <3>1, <3>3 DEF Fits
  <2>3. CASE i # p
    <3>1. t2.slots[i] = t.slots[i] /\ i \in Entries(t) /\ t.slots[i].hash \in Nat
      BY <1>4, <1>5, <2>1, <2>3
    <3>2. t.slots[i].hash = Map!HashGet(t.slots[i].key) /\ Reached(t, i)
      BY <3>1 DEF Core
    <3>3. PICK last \in 0 .. t.size :
             /\ Map!Probe(t, t.slots[i].hash, last) = i
             /\ \A e \in 0 .. last - 1 : t.slots[Map!Probe(t, t.slots[i].hash, e)].hash # 0
      BY <3>2 DEF Reached
    <3>4. Reached(t2, i)
      BY <1>10, <2>1, <3>1, <3>3
    <3> QED  BY <3>1, <3>2, <3>4
  <2> QED  BY <2>2, <2>3
<1>12. ASSUME NEW i \in Entries(t2), NEW j \in Entries(t2), t2.slots[i].key = t2.slots[j].key
       PROVE  i = j
  <2>1. /\ i \in 0 .. t.size - 1 /\ (i = p => s.hash > 1) /\ (i # p => i \in Entries(t))
        /\ j \in 0 .. t.size - 1 /\ (j = p => s.hash > 1) /\ (j # p => j \in Entries(t))
    BY <1>2, <1>6, <1>12 DEF Entries
  <2>2. \A m, n \in Entries(t) : t.slots[m].key = t.slots[n].key => m = n
    BY DEF Core
  <2> QED  BY <1>4, <1>12, <2>1, <2>2 DEF Fits
<1> QED  BY <1>3, <1>4, <1>6, <1>7, <1>11, <1>12 DEF Core, Written

\* A new table is empty.
LEMMA BlankIs ==
  ASSUME NEW k \in 3 .. 30, NEW W
  PROVE  /\ Core(Map!Blank(k), W) /\ Entries(Map!Blank(k)) = {} /\ Marked(Map!Blank(k)) = {}
         /\ Map!Blank(k).shift = k /\ Map!Blank(k).size = Pow[k]
         /\ Map!Blank(k).count = 0 /\ Map!Blank(k).used = 0
<1> DEFINE t == Map!Blank(k)
<1>1. k \in Nat /\ Pow[k] \in Nat
  BY PowIs
<1>2. /\ t = [shift |-> k, size |-> Pow[k], slots |-> [i \in 0 .. Pow[k] - 1 |-> Map!Unused],
              count |-> 0, used |-> 0]
  BY DEF Map!Blank, Pow
<1>3. Map!Unused \in Slot(W) /\ Map!Unused.hash = 0
  BY DEF Slot, Map!Unused
<1> HIDE DEF t
<1>4. /\ t.shift = k /\ t.size = Pow[k] /\ t.count = 0 /\ t.used = 0
      /\ \A i \in 0 .. t.size - 1 : t.slots[i] = Map!Unused
  BY <1>2
<1>5. Shaped(t, W)
  BY <1>1, <1>2, <1>3 DEF Shaped
<1>6. Entries(t) = {} /\ Marked(t) = {}
  BY <1>3, <1>4 DEF Entries, Marked
<1>7. Core(t, W)
  BY <1>5, <1>6 DEF Core
<1> QED  BY <1>4, <1>6, <1>7 DEF t

\* A table that is not off its size has room.
LEMMA RoomIs ==
  ASSUME NEW t, NEW W, Shaped(t, W)
  PROVE  ~Map!OffSize(t) => Roomy(t)
<1>1. /\ t.size \in Nat /\ t.size >= 8 /\ Map!Size(t) = t.size /\ t.count \in Nat /\ t.used \in Nat
  BY ShapedIs
<1>2. Map!Power[Map!MinShift] = 8
  <2>1. Pow[0] = 1 /\ Pow[0 + 1] = 2 * Pow[0] /\ Pow[1 + 1] = 2 * Pow[1] /\ Pow[2 + 1] = 2 * Pow[2]
    BY PowIs
  <2> QED  BY <2>1, PrimesThere DEF Pow
<1>3. Map!OffSize(t) <=> (t.size > 4 * t.count /\ t.size > 8) \/ t.size < t.used + (t.size \div 4)
  BY <1>1, <1>2 DEF Map!OffSize
<1>4. t.size \div 4 \in Nat
  BY <1>1
<1> QED  BY <1>1, <1>3, <1>4 DEF Roomy

-------------------------------------------------------------------------------
(* Moving the entries to a table of another size.                            *)

NewShift(t) ==
  IF Map!Bits(2 * t.count) > Map!MinShift THEN Map!Bits(2 * t.count) ELSE Map!MinShift

\* A slot's entry moves.
MoveTo(t, new, n) ==
  IF Map!Real(t.slots[n])
  THEN [new EXCEPT !.slots[Map!FirstStop(new, t.slots[n].hash, Map!Vacant(new))] = t.slots[n]]
  ELSE new

\* The tables on the way, up to the one after n slots.
Moves(t, n, f) ==
  /\ DOMAIN f = 0 .. n /\ f[0] = Map!Blank(NewShift(t))
  /\ \A i \in 1 .. n : f[i] = MoveTo(t, f[i - 1], i - 1)

\* The moves of a rehash are a function that the recursive definition determines.
LEMMA MovesThere ==
  ASSUME NEW t, NEW n \in Nat PROVE \E f : Moves(t, n, f)
<1> DEFINE Without == {k \in Nat : ~ \E f : Moves(t, k, f)}
<1>1. Without = {}
  <2> SUFFICES ASSUME Without # {} PROVE FALSE
    OBVIOUS
  <2>1. PICK k \in Without : \A j \in Without : k <= j
    <3>1. Without \subseteq Nat
      OBVIOUS
    <3> HIDE DEF Without
    <3> QED  BY <3>1, LeastNumber
  <2>2. k # 0
    <3>1. Moves(t, 0, [i \in 0 .. 0 |-> Map!Blank(NewShift(t))])
      BY DEF Moves
    <3> QED  BY <2>1, <3>1
  <2>3. k \in Nat /\ k - 1 \in Nat /\ k - 1 \notin Without
    BY <2>1, <2>2
  <2>4. PICK f : Moves(t, k - 1, f)
    BY <2>3
  <2> DEFINE last == MoveTo(t, f[k - 1], k - 1)
             g == [i \in 0 .. k |-> IF i = k THEN last ELSE f[i]]
  <2>5. /\ f[0] = Map!Blank(NewShift(t))
        /\ \A i \in 1 .. k - 1 : f[i] = MoveTo(t, f[i - 1], i - 1)
    BY <2>4 DEF Moves
  <2>6. /\ DOMAIN g = 0 .. k /\ g[k] = last
        /\ \A i \in 0 .. k - 1 : g[i] = f[i]
    <3> HIDE DEF last
    <3> QED  BY <2>3
  <2> HIDE DEF g
  <2>7. g[0] = Map!Blank(NewShift(t))
    <3>1. 0 \in 0 .. k - 1
      BY <2>3
    <3> QED  BY <2>5, <2>6, <3>1
  <2>8. ASSUME NEW i \in 1 .. k PROVE g[i] = MoveTo(t, g[i - 1], i - 1)
    <3>1. (i = k \/ i \in 1 .. k - 1) /\ i - 1 \in 0 .. k - 1
      BY <2>3
    <3>2. g[i - 1] = f[i - 1]
      BY <2>6, <3>1
    <3>3. CASE i = k
      BY <2>6, <3>2, <3>3
    <3>4. CASE i \in 1 .. k - 1
      <4>1. i \in 0 .. k - 1
        BY <3>4
      <4> QED  BY <2>5, <2>6, <3>2, <3>4, <4>1
    <3> QED  BY <3>1, <3>3, <3>4
  <2>9. Moves(t, k, g)
    BY <2>6, <2>7, <2>8 DEF Moves
  <2> QED  BY <2>1, <2>9
<1> QED  BY <1>1

\* A rehash is the last table of the moves, with its counters set.
LEMMA RehashIs ==
  ASSUME NEW t, NEW W, Shaped(t, W)
  PROVE  \E f : /\ Moves(t, t.size, f)
                /\ Map!Rehash(t) = [f[t.size] EXCEPT !.count = t.count, !.used = t.count]
<1> DEFINE Body(f) ==
             [n \in 0 .. Map!Size(t) |->
                IF n = 0
                THEN Map!Blank(IF Map!Bits(2 * t.count) > Map!MinShift
                               THEN Map!Bits(2 * t.count) ELSE Map!MinShift)
                ELSE IF Map!Real(t.slots[n - 1])
                THEN [f[n - 1] EXCEPT !.slots[Map!FirstStop(f[n - 1], t.slots[n - 1].hash,
                                                            Map!Vacant(f[n - 1]))]
                                        = t.slots[n - 1]]
                ELSE f[n - 1]]
           moved == CHOOSE f : f = Body(f)
<1>1. Map!Rehash(t) = [moved[Map!Size(t)] EXCEPT !.count = t.count, !.used = t.count]
  BY DEF Map!Rehash
<1>2. Map!Size(t) = t.size /\ t.size \in Nat
  BY SizeIs
<1>3. \A f : Body(f) = [n \in 0 .. t.size |->
                          IF n = 0 THEN Map!Blank(NewShift(t)) ELSE MoveTo(t, f[n - 1], n - 1)]
  BY <1>2 DEF NewShift, MoveTo
<1> HIDE DEF Body
<1>4. PICK g : Moves(t, t.size, g)
  BY <1>2, MovesThere
<1>5. \E f : f = Body(f)
  <2> DEFINE next == [n \in 0 .. t.size |->
                        IF n = 0 THEN Map!Blank(NewShift(t)) ELSE MoveTo(t, g[n - 1], n - 1)]
             same == [n \in 0 .. t.size |-> g[n]]
  <2>1. DOMAIN same = 0 .. t.size /\ \A n \in 0 .. t.size : same[n] = g[n]
    OBVIOUS
  <2>2. \A n \in 0 .. t.size : n = 0 \/ n - 1 \in 0 .. t.size
    BY <1>2
  <2>3. \A n \in 0 .. t.size :
          g[n] = IF n = 0 THEN Map!Blank(NewShift(t)) ELSE MoveTo(t, same[n - 1], n - 1)
    <3> TAKE n \in 0 .. t.size
    <3>1. n = 0 \/ n \in 1 .. t.size
      BY <1>2
    <3> HIDE DEF same
    <3>2. CASE n = 0
      BY <1>4, <3>2 DEF Moves
    <3>3. CASE n \in 1 .. t.size
      <4>1. n # 0 /\ g[n] = MoveTo(t, g[n - 1], n - 1) /\ same[n - 1] = g[n - 1]
        BY <1>2, <1>4, <2>1, <2>2, <3>3 DEF Moves
      <4> QED  BY <4>1
    <3> QED  BY <3>1, <3>2, <3>3
  <2>4. same = [n \in 0 .. t.size |->
                  IF n = 0 THEN Map!Blank(NewShift(t)) ELSE MoveTo(t, same[n - 1], n - 1)]
    <3> DEFINE other == [n \in 0 .. t.size |->
                  IF n = 0 THEN Map!Blank(NewShift(t)) ELSE MoveTo(t, same[n - 1], n - 1)]
    <3>1. \A n \in 0 .. t.size : other[n] = g[n]
      <4> HIDE DEF same
      <4> QED  BY <2>3
    <3>2. other = [n \in 0 .. t.size |-> other[n]]
      OBVIOUS
    <3> HIDE DEF other
    <3>3. same = other
      BY <3>1, <3>2
    <3> QED  BY <3>3 DEF other
  <2> HIDE DEF same
  <2> QED  BY <1>3, <2>4
<1>6. moved = Body(moved)
  BY <1>5
<1> HIDE DEF moved
<1>7. Moves(t, t.size, moved)
  <2>1. moved = [n \in 0 .. t.size |->
                   IF n = 0 THEN Map!Blank(NewShift(t)) ELSE MoveTo(t, moved[n - 1], n - 1)]
    BY <1>3, <1>6
  <2>2. DOMAIN moved = 0 .. t.size
    BY <2>1
  <2>3. moved[0] = Map!Blank(NewShift(t))
    BY <1>2, <2>1
  <2>4. \A n \in 1 .. t.size : moved[n] = MoveTo(t, moved[n - 1], n - 1)
    <3> TAKE n \in 1 .. t.size
    <3>1. n \in 0 .. t.size /\ n # 0
      BY <1>2
    <3> QED  BY <2>1, <3>1
  <2> QED  BY <2>2, <2>3, <2>4 DEF Moves
<1> QED  BY <1>1, <1>2, <1>7

\* The powers grow.
LEMMA PowersGrow ==
  ASSUME NEW m \in Nat, NEW n \in Nat, m <= n PROVE Pow[m] <= Pow[n]
<1> DEFINE Less == {k \in Nat : k >= m /\ ~(Pow[m] <= Pow[k])}
<1>1. Less = {}
  <2> SUFFICES ASSUME Less # {} PROVE FALSE
    OBVIOUS
  <2>1. PICK k \in Less : \A j \in Less : k <= j
    <3>1. Less \subseteq Nat
      OBVIOUS
    <3> HIDE DEF Less
    <3> QED  BY <3>1, LeastNumber
  <2>2. k # m /\ Pow[m] \in Nat
    BY <2>1, PowIs
  <2>3. k - 1 \in Nat /\ k - 1 >= m /\ (k - 1) + 1 = k /\ ~(k <= k - 1)
    BY <2>1, <2>2
  <2>4. Pow[k - 1] >= Pow[m] /\ Pow[k - 1] \in Nat /\ Pow[k] = 2 * Pow[k - 1]
    BY <2>1, <2>2, <2>3, PowIs
  <2> QED  BY <2>1, <2>2, <2>4
<1> QED  BY <1>1

\* The new table is large enough, but not too large, and of a size that there is.
LEMMA NewShiftIs ==
  ASSUME NEW t, t.count \in Nat, t.count <= Cardinality(Keys)
  PROVE  /\ NewShift(t) \in 3 .. 30
         /\ Pow[NewShift(t)] > 2 * t.count
         /\ Pow[NewShift(t)] = 8 \/ Pow[NewShift(t)] <= 4 * t.count
<1> DEFINE b == Map!Bits(2 * t.count)
<1>1. 2 * t.count \in Nat
  OBVIOUS
<1>2. b \in Nat /\ Pow[b] \in Nat /\ Pow[b] > 2 * t.count /\ (b > 0 => Pow[b - 1] <= 2 * t.count)
  <2>1. Map!Power = Memory!Power
    BY DEF Map!Power, Memory!Power
  <2>2. b = Memory!Bits(2 * t.count)
    BY <2>1 DEF Map!Bits, Memory!Bits
  <2> QED  BY <1>1, <2>1, <2>2, BitsAbove DEF Pow
<1> HIDE DEF b
<1>3. NewShift(t) = IF b > 3 THEN b ELSE 3
  BY PrimesThere DEF NewShift, b
<1>4. Pow[3] = 8
  <2>1. Pow[0] = 1 /\ Pow[0 + 1] = 2 * Pow[0] /\ Pow[1 + 1] = 2 * Pow[1] /\ Pow[2 + 1] = 2 * Pow[2]
    BY PowIs
  <2> QED  BY <2>1
<1>5. b <= 30
  <2> SUFFICES ASSUME b > 30 PROVE FALSE
    BY <1>2
  <2>1. Pow[29] \in Nat /\ Pow[29 + 1] = 2 * Pow[29] /\ 30 <= b - 1 /\ b - 1 \in Nat
    BY <1>2, PowIs
  <2>2. Pow[30] <= Pow[b - 1] /\ Pow[30] \in Nat /\ Pow[b - 1] \in Nat
    BY <2>1, PowersGrow, PowIs
  <2>3. Cardinality(Keys) \in Nat /\ Cardinality(Keys) < Pow[29]
    <3>1. Len(Map!PrimeMod) - 1 = 29
      BY PrimesThere
    <3> QED  BY <3>1, KeysAssumption, FS_CardinalityType DEF Pow
  <2> QED  BY <1>2, <2>1, <2>2, <2>3
<1>6. CASE b > 3
  <2>1. b - 1 \in Nat /\ (b - 1) + 1 = b
    BY <1>2, <1>6
  <2>2. Pow[b] = 2 * Pow[b - 1] /\ Pow[b - 1] \in Nat
    BY <2>1, PowIs
  <2> QED  BY <1>2, <1>3, <1>5, <1>6, <2>2
<1>7. CASE ~(b > 3)
  <2>1. Pow[b] <= Pow[3]
    BY <1>2, <1>7, PowersGrow
  <2> QED  BY <1>2, <1>3, <1>4, <1>7, <2>1
<1> QED  BY <1>6, <1>7

\* An entry that moves comes to the first slot on its way without one.
LEMMA VacantIs ==
  ASSUME NEW t, NEW W, Shaped(t, W), Cardinality(Entries(t)) < t.size, NEW h \in Nat
  PROVE  \E last \in 0 .. t.size, p \in 0 .. t.size - 1 :
            /\ p = Map!Probe(t, h, last) /\ p = Map!FirstStop(t, h, Map!Vacant(t))
            /\ ~(t.slots[p].hash > 1)
            /\ \A e \in 0 .. last - 1 : t.slots[Map!Probe(t, h, e)].hash > 1
<1> DEFINE stops == Map!Vacant(t)
<1>1. t.size \in Nat /\ DOMAIN t.slots = 0 .. t.size - 1
  BY SizeIs
<1>2. /\ stops \in [0 .. t.size - 1 -> BOOLEAN]
      /\ \A i \in 0 .. t.size - 1 : stops[i] <=> ~(t.slots[i].hash > 1)
  BY <1>1 DEF Map!Vacant, Map!Real
<1>3. \A step \in Nat : Map!Probe(t, h, step) \in 0 .. t.size - 1
  BY ProbeIn
<1>4. PICK i \in 0 .. t.size - 1 : ~(t.slots[i].hash > 1)
  BY VacantThere
<1>5. PICK s \in 0 .. t.size - 1 : Map!Probe(t, h, s) = i
  BY ProbeCovers
<1>6. s \in 0 .. t.size /\ stops[Map!Probe(t, h, s)]
  BY <1>1, <1>2, <1>4, <1>5
<1> HIDE DEF stops
<1>7. PICK last \in 0 .. s :
            /\ Map!FirstStop(t, h, stops) = Map!Probe(t, h, last)
            /\ stops[Map!Probe(t, h, last)]
            /\ \A e \in 0 .. last - 1 : ~stops[Map!Probe(t, h, e)]
  BY <1>6, StopIs
<1> DEFINE p == Map!Probe(t, h, last)
<1>8. p \in 0 .. t.size - 1 /\ last \in 0 .. t.size /\ last \in Nat
  <2>1. last \in 0 .. t.size /\ last \in Nat
    BY <1>1, <1>6
  <2> QED  BY <1>3, <2>1
<1>9. \A e \in 0 .. last - 1 : t.slots[Map!Probe(t, h, e)].hash > 1
  <2> TAKE e \in 0 .. last - 1
  <2>1. e \in Nat /\ Map!Probe(t, h, e) \in 0 .. t.size - 1
    BY <1>3, <1>8
  <2> QED  BY <1>2, <1>7, <2>1
<1>10. ~(t.slots[p].hash > 1)
  BY <1>2, <1>7, <1>8
<1> QED  BY <1>7, <1>8, <1>9, <1>10 DEF stops

\* The entries of the first slots.
HeldFrom(t, n) == {t.slots[i] : i \in {j \in Entries(t) : j < n}}

\* The tables on the way hold them.
OnTheWay(t, W, n, m) ==
  /\ Core(m, W) /\ m.shift = NewShift(t) /\ m.size = Pow[NewShift(t)]
  /\ Marked(m) = Entries(m) /\ Held(m) = HeldFrom(t, n)

\* The next entry moves to the new table, which has room for it.
LEMMA MoveKeeps ==
  ASSUME NEW t, NEW W, Core(t, W), t.count = Cardinality(Entries(t)),
         NEW n \in 0 .. t.size - 1, NEW m, OnTheWay(t, W, n, m)
  PROVE  OnTheWay(t, W, n + 1, MoveTo(t, m, n))
<1>1. Shaped(t, W) /\ t.size \in Nat /\ n \in Nat
  BY SizeIs DEF Core
<1>2. /\ Core(m, W) /\ Shaped(m, W) /\ m.shift = NewShift(t) /\ m.size = Pow[NewShift(t)]
      /\ Marked(m) = Entries(m) /\ Held(m) = HeldFrom(t, n)
  BY DEF OnTheWay, Core
<1>3. CASE ~(t.slots[n].hash > 1)
  <2>1. MoveTo(t, m, n) = m
    BY <1>3 DEF MoveTo, Map!Real
  <2>2. {j \in Entries(t) : j < n + 1} = {j \in Entries(t) : j < n}
    <3>1. n \notin Entries(t) /\ \A j \in Entries(t) : j \in Nat
      BY <1>1, <1>3 DEF Entries
    <3>2. \A j \in Nat : j < n + 1 <=> j < n \/ j = n
      BY <1>1
    <3> QED  BY <3>1, <3>2
  <2>3. HeldFrom(t, n + 1) = HeldFrom(t, n)
    BY <2>2 DEF HeldFrom
  <2> QED  BY <2>1, <2>3 DEF OnTheWay
<1>4. CASE t.slots[n].hash > 1
  <2> DEFINE s == t.slots[n]
             new == MoveTo(t, m, n)
  <2>1. n \in Entries(t) /\ s \in Slot(W) /\ s.hash \in Nat /\ s.hash # 0
    <3>1. s \in Slot(W) /\ s.hash \in Nat
      BY <1>1, ShapedIs
    <3>2. s.hash # 0
      BY <1>4
    <3> QED  BY <1>4, <3>1, <3>2 DEF Entries
  <2>2. s.hash = Map!HashGet(s.key)
    BY <2>1 DEF Core
  <2>3. Cardinality(Entries(m)) < m.size
    <3>1. HeldFrom(t, n) \in SUBSET Held(t)
      BY DEF HeldFrom, Held
    <3>2. /\ IsFiniteSet(Held(t)) /\ Cardinality(Held(t)) = t.count
          /\ t.count <= Cardinality(Keys) /\ t.count \in Nat
      BY <1>1, HeldSize, SlotsFinite
    <3>3. Cardinality(Held(m)) <= Cardinality(Held(t))
      BY <1>2, <3>1, <3>2, FS_Subset
    <3>4. Cardinality(Held(m)) = Cardinality(Entries(m)) /\ Cardinality(Entries(m)) \in Nat
      BY <1>2, HeldSize, SlotsFinite
    <3>5. Pow[NewShift(t)] > 2 * t.count
      BY <3>2, NewShiftIs
    <3>6. m.size \in Nat
      BY <1>2, SizeIs
    <3> QED  BY <1>2, <3>2, <3>3, <3>4, <3>5, <3>6
  <2>4. PICK last \in 0 .. m.size, p \in 0 .. m.size - 1 :
            /\ p = Map!Probe(m, s.hash, last) /\ p = Map!FirstStop(m, s.hash, Map!Vacant(m))
            /\ ~(m.slots[p].hash > 1)
            /\ \A e \in 0 .. last - 1 : m.slots[Map!Probe(m, s.hash, e)].hash > 1
    BY <1>2, <2>1, <2>3, VacantIs
  <2>5. new = [m EXCEPT !.slots[p] = s]
    BY <1>4, <2>4 DEF MoveTo, Map!Real
  <2>6. Writes(m, new, W, p, s)
    <3>1. m \in [shift : Nat, size : Nat, slots : [0 .. m.size - 1 -> Slot(W)],
                 count : Nat, used : Nat]
      BY <1>2 DEF Shaped
    <3> HIDE DEF s
    <3> QED  BY <2>1, <2>5, <3>1 DEF Writes
  <2>7. \A i \in Entries(m) : i # p => m.slots[i].key # s.key
    <3> TAKE i \in Entries(m)
    <3>1. m.slots[i] \in HeldFrom(t, n)
      BY <1>2 DEF Held
    <3>2. PICK j \in Entries(t) : j < n /\ m.slots[i] = t.slots[j]
      BY <3>1 DEF HeldFrom
    <3>3. j # n
      BY <1>1, <3>2
    <3>4. t.slots[j].key # t.slots[n].key
      BY <2>1, <3>3 DEF Core
    <3> QED  BY <3>2, <3>4
  <2>8. \A e \in 0 .. last - 1 : m.slots[Map!Probe(m, s.hash, e)].hash # 0
    BY <2>4
  <2> HIDE DEF s, new
  <2>9. /\ Core(new, W)
        /\ \A i : i \in Entries(new) <=> IF i = p THEN s.hash > 1 ELSE i \in Entries(m)
        /\ \A i : i \in Marked(new) <=> i = p \/ i \in Marked(m)
        /\ \A i \in 0 .. m.size - 1 : i # p => new.slots[i] = m.slots[i]
        /\ new.slots[p] = s
    <3>1. s.hash > 1 => Fits(m, p, s)
      BY <2>2, <2>4, <2>7, <2>8 DEF Fits
    <3>2. Core(m, W) /\ p \in 0 .. m.size - 1 /\ s \in Slot(W) /\ s.hash # 0
      BY <1>2, <2>1
    <3>3. Written(m, new, W, p, s)
      BY <2>6, <3>1, <3>2, WriteKeeps
    <3> QED  BY <3>3 DEF Written
  <2>10. Entries(new) = Entries(m) \cup {p} /\ Marked(new) = Entries(new)
    <3>1. s.hash > 1
      BY <1>4 DEF s
    <3> QED  BY <1>2, <2>9, <3>1
  <2>11. p \notin Entries(m) /\ Entries(m) \subseteq 0 .. m.size - 1
    BY <2>4 DEF Entries
  <2>12. Held(new) = Held(m) \cup {s}
    BY <2>9, <2>10, <2>11 DEF Held
  <2>13. HeldFrom(t, n + 1) = HeldFrom(t, n) \cup {s}
    <3>1. {j \in Entries(t) : j < n + 1} = {j \in Entries(t) : j < n} \cup {n}
      <4>1. \A j \in Entries(t) : j \in Nat
        BY <1>1 DEF Entries
      <4>2. \A j \in Nat : j < n + 1 <=> j < n \/ j = n
        BY <1>1
      <4>3. n < n + 1
        BY <1>1
      <4> QED  BY <2>1, <4>1, <4>2, <4>3
    <3> QED  BY <3>1 DEF HeldFrom, s
  <2>14. new.shift = m.shift /\ new.size = m.size
    BY <2>6 DEF Writes
  <2>15. Held(new) = HeldFrom(t, n + 1)
    BY <1>2, <2>12, <2>13
  <2>16. OnTheWay(t, W, n + 1, new)
    BY <1>2, <2>9, <2>10, <2>14, <2>15 DEF OnTheWay
  <2> QED  BY <2>16 DEF new
<1> QED  BY <1>3, <1>4

\* What a table is after it has been given another size: it has the same entries.
LEMMA RehashKeeps ==
  ASSUME NEW t, NEW W, Core(t, W), t.count = Cardinality(Entries(t))
  PROVE  Sound(Map!Rehash(t), W) /\ Held(Map!Rehash(t)) = Held(t)
<1>1. Shaped(t, W) /\ t.size \in Nat
  BY SizeIs DEF Core
<1>2. /\ IsFiniteSet(Held(t)) /\ Cardinality(Held(t)) = t.count
      /\ t.count <= Cardinality(Keys) /\ t.count \in Nat
  BY <1>1, HeldSize, SlotsFinite
<1>3. PICK f : /\ Moves(t, t.size, f)
               /\ Map!Rehash(t) = [f[t.size] EXCEPT !.count = t.count, !.used = t.count]
  BY <1>1, RehashIs
<1>4. /\ f[0] = Map!Blank(NewShift(t))
      /\ \A i \in 1 .. t.size : f[i] = MoveTo(t, f[i - 1], i - 1)
  BY <1>3 DEF Moves
<1>5. OnTheWay(t, W, 0, f[0])
  <2> DEFINE b == Map!Blank(NewShift(t))
  <2>1. /\ Core(b, W) /\ Entries(b) = {} /\ Marked(b) = {}
        /\ b.shift = NewShift(t) /\ b.size = Pow[NewShift(t)]
    BY <1>2, NewShiftIs, BlankIs
  <2>2. HeldFrom(t, 0) = {}
    <3>1. \A j \in Entries(t) : ~(j < 0)
      BY <1>1 DEF Entries
    <3> QED  BY <3>1 DEF HeldFrom
  <2>3. Held(b) = {}
    BY <2>1 DEF Held
  <2> QED  BY <1>4, <2>1, <2>2, <2>3 DEF OnTheWay
<1>6. \A n \in 0 .. t.size : OnTheWay(t, W, n, f[n])
  <2> DEFINE Not == {n \in 0 .. t.size : ~OnTheWay(t, W, n, f[n])}
  <2>1. Not = {}
    <3> SUFFICES ASSUME Not # {} PROVE FALSE
      OBVIOUS
    <3>1. PICK n \in Not : \A j \in Not : n <= j
      <4>1. Not \subseteq Nat
        OBVIOUS
      <4> HIDE DEF Not
      <4> QED  BY <4>1, LeastNumber
    <3>2. n # 0
      BY <1>5, <3>1
    <3>3. n \in 1 .. t.size /\ n - 1 \in 0 .. t.size - 1 /\ n - 1 \in 0 .. t.size /\ ~(n <= n - 1)
      BY <1>1, <3>1, <3>2
    <3>4. OnTheWay(t, W, n - 1, f[n - 1])
      BY <3>1, <3>3
    <3>5. OnTheWay(t, W, (n - 1) + 1, MoveTo(t, f[n - 1], n - 1))
      BY <3>3, <3>4, MoveKeeps
    <3>6. (n - 1) + 1 = n /\ f[n] = MoveTo(t, f[n - 1], n - 1)
      BY <1>4, <3>3
    <3>7. OnTheWay(t, W, n, f[n])
      BY <3>5, <3>6
    <3> QED  BY <3>1, <3>7
  <2> QED  BY <2>1
<1> DEFINE m == f[t.size]
           new == Map!Rehash(t)
<1>7. /\ Core(m, W) /\ Shaped(m, W) /\ m.shift = NewShift(t) /\ m.size = Pow[NewShift(t)]
      /\ Marked(m) = Entries(m) /\ Held(m) = HeldFrom(t, t.size)
  <2>1. t.size \in 0 .. t.size
    BY <1>1
  <2> QED  BY <1>6, <2>1 DEF OnTheWay, Core
<1>8. HeldFrom(t, t.size) = Held(t)
  <2>1. \A j \in Entries(t) : j < t.size
    BY <1>1 DEF Entries
  <2> QED  BY <2>1 DEF HeldFrom, Held
<1>9. /\ new = [m EXCEPT !.count = t.count, !.used = t.count]
      /\ m \in [shift : Nat, size : Nat, slots : [0 .. m.size - 1 -> Slot(W)],
                count : Nat, used : Nat]
  BY <1>3, <1>7 DEF Shaped
<1> HIDE DEF m, new
<1>10. /\ new \in [shift : Nat, size : Nat, slots : [0 .. m.size - 1 -> Slot(W)],
                   count : Nat, used : Nat]
       /\ new.shift = m.shift /\ new.size = m.size /\ new.slots = m.slots
       /\ new.count = t.count /\ new.used = t.count
  BY <1>2, <1>9
<1>11. Entries(new) = Entries(m) /\ Marked(new) = Marked(m) /\ Held(new) = Held(m)
  BY <1>10 DEF Entries, Marked, Held
<1>12. Core(new, W)
  <2>1. Shaped(new, W)
    BY <1>7, <1>10 DEF Shaped
  <2>2. \A h, step : Map!Probe(new, h, step) = Map!Probe(m, h, step)
    BY <1>10 DEF Map!Probe, Map!Size
  <2>3. \A i \in Entries(m) : Reached(m, i) => Reached(new, i)
    BY <1>10, <2>2 DEF Reached
  <2> QED  BY <1>7, <1>10, <1>11, <2>1, <2>3 DEF Core
<1>13. Counted(new)
  <2>1. Cardinality(Entries(m)) = Cardinality(Held(m))
    BY <1>7, HeldSize
  <2> QED  BY <1>2, <1>7, <1>8, <1>10, <1>11, <2>1 DEF Counted
<1>14. Roomy(new)
  <2>1. /\ Pow[NewShift(t)] > 2 * t.count
        /\ Pow[NewShift(t)] = 8 \/ Pow[NewShift(t)] <= 4 * t.count
    BY <1>2, NewShiftIs
  <2>2. new.size \in Nat /\ new.size = Pow[NewShift(t)]
    BY <1>7, <1>10, SizeIs
  <2>3. t.count + (new.size \div 4) <= new.size
    BY <1>2, <2>1, <2>2
  <2> QED  BY <1>10, <2>1, <2>2, <2>3 DEF Roomy
<1> QED  BY <1>7, <1>8, <1>11, <1>12, <1>13, <1>14 DEF Sound, new

\* A table that is resized when it has to be has the same entries, and room.
LEMMA ResizeKeeps ==
  ASSUME NEW t, NEW W, Core(t, W), Counted(t)
  PROVE  Sound(Map!MaybeResize(t), W) /\ Held(Map!MaybeResize(t)) = Held(t)
<1>1. CASE Map!OffSize(t)
  <2>1. t.count = Cardinality(Entries(t))
    BY DEF Counted
  <2> QED  BY <1>1, <2>1, RehashKeeps DEF Map!MaybeResize
<1>2. CASE ~Map!OffSize(t)
  <2>1. Roomy(t)
    BY <1>2, RoomIs DEF Core
  <2> QED  BY <1>2, <2>1 DEF Map!MaybeResize, Sound
<1> QED  BY <1>1, <1>2

\* What a written table holds: what it held elsewhere, and the new entry.
LEMMA WriteHolds ==
  ASSUME NEW t, NEW W, Core(t, W), NEW t2, NEW p \in 0 .. t.size - 1, NEW s \in Slot(W),
         Writes(t, t2, W, p, s), s.hash # 0, s.hash > 1 => Fits(t, p, s)
  PROVE  \A x : x \in Held(t2) <=>
           \/ s.hash > 1 /\ x = s
           \/ x \in Held(t) /\ ~(p \in Entries(t) /\ x = t.slots[p])
<1>1. /\ \A i : i \in Entries(t2) <=> IF i = p THEN s.hash > 1 ELSE i \in Entries(t)
      /\ \A i \in 0 .. t.size - 1 : i # p => t2.slots[i] = t.slots[i]
      /\ t2.slots[p] = s
  <2>1. Written(t, t2, W, p, s)
    BY WriteKeeps
  <2> QED  BY <2>1 DEF Written
<1>2. \A i \in Entries(t) : i \in 0 .. t.size - 1
  BY DEF Entries
<1>3. \A i, j \in Entries(t) : t.slots[i] = t.slots[j] => i = j
  BY DEF Core
<1> TAKE x
<1>4. ASSUME x \in Held(t2)
      PROVE  \/ s.hash > 1 /\ x = s
             \/ x \in Held(t) /\ ~(p \in Entries(t) /\ x = t.slots[p])
  <2>1. PICK i \in Entries(t2) : x = t2.slots[i]
    BY <1>4 DEF Held
  <2>2. CASE i = p
    BY <1>1, <2>1, <2>2
  <2>3. CASE i # p
    <3>1. i \in Entries(t) /\ x = t.slots[i]
      BY <1>1, <1>2, <2>1, <2>3
    <3>2. ~(p \in Entries(t) /\ x = t.slots[p])
      BY <1>3, <2>3, <3>1
    <3> QED  BY <3>1, <3>2 DEF Held
  <2> QED  BY <2>2, <2>3
<1>5. ASSUME s.hash > 1, x = s PROVE x \in Held(t2)
  BY <1>1, <1>5 DEF Held
<1>6. ASSUME x \in Held(t), ~(p \in Entries(t) /\ x = t.slots[p]) PROVE x \in Held(t2)
  <2>1. PICK i \in Entries(t) : x = t.slots[i]
    BY <1>6 DEF Held
  <2>2. i # p
    BY <1>6, <2>1
  <2>3. i \in Entries(t2) /\ x = t2.slots[i]
    BY <1>1, <1>2, <2>1, <2>2
  <2> QED  BY <2>3 DEF Held
<1> QED  BY <1>4, <1>5, <1>6

\* The entry that a call makes of a key.
EntryOf(key, value) == [hash |-> Map!HashGet(key), key |-> key, value |-> value]

\* What an entry of a table is.
LEMMA EntryIs ==
  ASSUME NEW W, NEW key \in Keys, NEW value \in W
  PROVE  /\ EntryOf(key, value) \in Slot(W)
         /\ EntryOf(key, value).hash = Map!HashGet(key) /\ EntryOf(key, value).hash > 1
         /\ EntryOf(key, value).hash # 0
         /\ EntryOf(key, value).key = key /\ EntryOf(key, value).value = value
<1>1. Map!HashGet(key) \in Nat \ {0, 1} /\ Map!HashGet(key) > 1 /\ Map!HashGet(key) # 0
  BY HashIs
<1> QED  BY <1>1 DEF EntryOf, Slot

\* A key is put at a slot without an entry.
LEMMA PutKeeps ==
  ASSUME NEW t, NEW W, Sound(t, W), NEW key \in Keys, NEW value \in W,
         \A i \in Entries(t) : t.slots[i].key # key,
         NEW p \in 0 .. t.size - 1, ~(t.slots[p].hash > 1),
         \E last \in 0 .. t.size :
            /\ p = Map!Probe(t, Map!HashGet(key), last)
            /\ \A e \in 0 .. last - 1 : t.slots[Map!Probe(t, Map!HashGet(key), e)].hash > 1
  PROVE  /\ Sound(Map!Put(t, p, key, value), W)
         /\ \A x : x \in Held(Map!Put(t, p, key, value)) <=>
                     x \in Held(t) \/ x = EntryOf(key, value)
<1> DEFINE s == EntryOf(key, value)
           fresh == t.slots[p].hash = 0
           new == [t EXCEPT !.slots[p] = s, !.count = @ + 1,
                            !.used = @ + IF fresh THEN 1 ELSE 0]
<1>1. Map!Put(t, p, key, value) = IF fresh THEN Map!MaybeResize(new) ELSE new
  BY DEF Map!Put, EntryOf
<1>2. Core(t, W) /\ Shaped(t, W) /\ Counted(t) /\ Roomy(t)
  BY DEF Sound, Core
<1>3. t.count \in Nat /\ t.used \in Nat /\ t.size \in Nat /\ t.slots[p].hash \in Nat
  BY <1>2, ShapedIs
<1>4. /\ s \in Slot(W) /\ s.hash = Map!HashGet(key) /\ s.hash > 1 /\ s.hash # 0
      /\ s.key = key
  BY EntryIs
<1>5. t \in [shift : Nat, size : Nat, slots : [0 .. t.size - 1 -> Slot(W)],
             count : Nat, used : Nat]
  BY <1>2 DEF Shaped
<1> HIDE DEF s
<1>6. /\ new \in [shift : Nat, size : Nat, slots : [0 .. t.size - 1 -> Slot(W)],
                  count : Nat, used : Nat]
      /\ new.shift = t.shift /\ new.size = t.size /\ new.slots = [t.slots EXCEPT ![p] = s]
      /\ new.count = t.count + 1 /\ new.used = t.used + IF fresh THEN 1 ELSE 0
  <2>1. t.count + 1 \in Nat /\ t.used + (IF fresh THEN 1 ELSE 0) \in Nat
    BY <1>3
  <2> HIDE DEF fresh
  <2> QED  BY <1>3, <1>4, <1>5, <2>1
<1> HIDE DEF new
<1>7. Writes(t, new, W, p, s)
  BY <1>6 DEF Writes
<1>8. Fits(t, p, s)
  <2>1. PICK last \in 0 .. t.size :
            /\ p = Map!Probe(t, s.hash, last)
            /\ \A e \in 0 .. last - 1 : t.slots[Map!Probe(t, s.hash, e)].hash > 1
    BY <1>4
  <2>2. \A e \in 0 .. last - 1 : t.slots[Map!Probe(t, s.hash, e)].hash # 0
    BY <2>1
  <2> QED  BY <1>4, <2>1, <2>2 DEF Fits
<1>9. /\ Core(new, W)
      /\ \A i : i \in Entries(new) <=> IF i = p THEN s.hash > 1 ELSE i \in Entries(t)
      /\ \A i : i \in Marked(new) <=> i = p \/ i \in Marked(t)
  <2>1. Written(t, new, W, p, s)
    BY <1>2, <1>4, <1>7, <1>8, WriteKeeps
  <2> QED  BY <2>1 DEF Written
<1>10. \A x : x \in Held(new) <=> x \in Held(t) \/ x = s
  <2>1. \A x : x \in Held(new) <=>
           \/ s.hash > 1 /\ x = s
           \/ x \in Held(t) /\ ~(p \in Entries(t) /\ x = t.slots[p])
    BY <1>2, <1>4, <1>7, <1>8, WriteHolds
  <2>2. p \notin Entries(t)
    BY DEF Entries
  <2> QED  BY <1>4, <2>1, <2>2
<1>11. Counted(new)
  <2>1. p \notin Entries(t) /\ (p \in Marked(t) <=> ~fresh)
    BY <1>3 DEF Entries, Marked
  <2>2. Entries(new) = Entries(t) \cup {p} /\ Marked(new) = Marked(t) \cup {p}
    BY <1>4, <1>9
  <2>3. IsFiniteSet(Entries(t)) /\ IsFiniteSet(Marked(t))
    BY <1>2, SlotsFinite
  <2>4. Cardinality(Entries(new)) = t.count + 1
    <3>1. Cardinality(Entries(t) \cup {p}) = Cardinality(Entries(t)) + 1
      BY <2>1, <2>3, FS_AddElement
    <3> QED  BY <1>2, <2>2, <3>1 DEF Counted
  <2>5. Cardinality(Marked(new)) = IF p \in Marked(t) THEN t.used ELSE t.used + 1
    <3>1. Cardinality(Marked(t) \cup {p})
            = IF p \in Marked(t) THEN Cardinality(Marked(t)) ELSE Cardinality(Marked(t)) + 1
      BY <2>3, FS_AddElement
    <3>2. Cardinality(Marked(t)) = t.used
      BY <1>2 DEF Counted
    <3> QED  BY <2>2, <3>1, <3>2
  <2> HIDE DEF fresh
  <2> QED  BY <1>3, <1>6, <2>1, <2>4, <2>5 DEF Counted
<1>12. CASE fresh
  BY <1>1, <1>9, <1>10, <1>11, <1>12, ResizeKeeps DEF s
<1>13. CASE ~fresh
  <2>1. new.used = t.used /\ new.size = t.size /\ new.count = t.count + 1
    BY <1>3, <1>6, <1>13
  <2>2. Roomy(new)
    BY <1>2, <1>3, <2>1 DEF Roomy
  <2> QED  BY <1>1, <1>9, <1>10, <1>11, <1>13, <2>2 DEF s, Sound
<1> QED  BY <1>12, <1>13

\* A tombstone is put at an entry.
LEMMA ErectKeeps ==
  ASSUME NEW t, NEW W, Sound(t, W), NEW p \in Entries(t)
  PROVE  /\ Sound(Map!Erect(t, p), W)
         /\ \A x : x \in Held(Map!Erect(t, p)) <=> x \in Held(t) /\ x # t.slots[p]
<1> DEFINE s == Map!Tombstone
           new == [t EXCEPT !.slots[p] = s, !.count = @ - 1]
<1>1. Map!Erect(t, p) = Map!MaybeResize(new)
  BY DEF Map!Erect
<1>2. Core(t, W) /\ Shaped(t, W) /\ Counted(t) /\ p \in 0 .. t.size - 1 /\ t.slots[p].hash > 1
  BY DEF Sound, Core, Entries
<1>3. t.count \in Nat /\ t.used \in Nat /\ t.size \in Nat
  BY <1>2, ShapedIs
<1>4. s \in Slot(W) /\ s.hash = 1 /\ ~(s.hash > 1) /\ s.hash # 0
  BY DEF Slot, Map!Tombstone
<1>5. t \in [shift : Nat, size : Nat, slots : [0 .. t.size - 1 -> Slot(W)],
             count : Nat, used : Nat]
  BY <1>2 DEF Shaped
<1>6. IsFiniteSet(Entries(t)) /\ Cardinality(Entries(t)) = t.count /\ t.count - 1 \in Nat
  <2>1. IsFiniteSet(Entries(t)) /\ Cardinality(Entries(t)) = t.count
    BY <1>2, SlotsFinite DEF Counted
  <2>2. t.count # 0
    BY <2>1, FS_EmptySet
  <2> QED  BY <1>3, <2>1, <2>2
<1> HIDE DEF s
<1>7. /\ new \in [shift : Nat, size : Nat, slots : [0 .. t.size - 1 -> Slot(W)],
                  count : Nat, used : Nat]
      /\ new.shift = t.shift /\ new.size = t.size /\ new.slots = [t.slots EXCEPT ![p] = s]
      /\ new.count = t.count - 1 /\ new.used = t.used
  BY <1>3, <1>4, <1>5, <1>6
<1> HIDE DEF new
<1>8. Writes(t, new, W, p, s)
  BY <1>7 DEF Writes
<1>9. /\ Core(new, W)
      /\ \A i : i \in Entries(new) <=> IF i = p THEN s.hash > 1 ELSE i \in Entries(t)
      /\ \A i : i \in Marked(new) <=> i = p \/ i \in Marked(t)
  <2>1. Written(t, new, W, p, s)
    BY <1>2, <1>4, <1>8, WriteKeeps
  <2> QED  BY <2>1 DEF Written
<1>10. \A x : x \in Held(new) <=> x \in Held(t) /\ x # t.slots[p]
  <2>1. \A x : x \in Held(new) <=>
           \/ s.hash > 1 /\ x = s
           \/ x \in Held(t) /\ ~(p \in Entries(t) /\ x = t.slots[p])
    BY <1>2, <1>4, <1>8, WriteHolds
  <2> QED  BY <1>4, <2>1
<1>11. Counted(new)
  <2>1. p \in Marked(t)
    <3>1. t.slots[p].hash \in Nat
      BY <1>2, ShapedIs
    <3> QED  BY <1>2, <3>1 DEF Marked
  <2>2. Entries(new) = Entries(t) \ {p} /\ Marked(new) = Marked(t)
    BY <1>4, <1>9, <2>1
  <2>3. Cardinality(Entries(new)) = t.count - 1
    BY <1>6, <2>2, FS_RemoveElement
  <2> QED  BY <1>2, <1>7, <2>2, <2>3 DEF Counted
<1> QED  BY <1>1, <1>9, <1>10, <1>11, ResizeKeeps

\* A slot is filled with another entry.
Filled(t, p, s) == [t EXCEPT !.slots[p] = s]

\* Another key, or another value, takes the place of an equal key.
LEMMA ReplaceKeeps ==
  ASSUME NEW t, NEW W, Sound(t, W), NEW p \in Entries(t), NEW key \in Keys, NEW value \in W,
         NameOf[t.slots[p].key] = NameOf[key], \A i \in Entries(t) : t.slots[i].key # key
  PROVE  /\ Sound(Filled(t, p, EntryOf(key, value)), W)
         /\ \A x : x \in Held(Filled(t, p, EntryOf(key, value))) <=>
                     (x \in Held(t) /\ x # t.slots[p]) \/ x = EntryOf(key, value)
<1> DEFINE s == EntryOf(key, value)
           new == Filled(t, p, s)
<1>1. /\ Core(t, W) /\ Shaped(t, W) /\ Counted(t) /\ Roomy(t)
      /\ p \in 0 .. t.size - 1 /\ t.slots[p].hash > 1
  BY DEF Sound, Core, Entries
<1>2. /\ s \in Slot(W) /\ s.hash = Map!HashGet(key) /\ s.hash > 1 /\ s.hash # 0
      /\ s.key = key
  BY EntryIs
<1>3. t \in [shift : Nat, size : Nat, slots : [0 .. t.size - 1 -> Slot(W)],
             count : Nat, used : Nat]
  BY <1>1 DEF Shaped
<1>4. new = [t EXCEPT !.slots[p] = s]
  BY DEF Filled
<1> HIDE DEF s, new
<1>5. /\ new \in [shift : Nat, size : Nat, slots : [0 .. t.size - 1 -> Slot(W)],
                  count : Nat, used : Nat]
      /\ new.shift = t.shift /\ new.size = t.size /\ new.slots = [t.slots EXCEPT ![p] = s]
      /\ new.count = t.count /\ new.used = t.used
  <2> DEFINE e == [t EXCEPT !.slots[p] = s]
  <2>1. /\ e \in [shift : Nat, size : Nat, slots : [0 .. t.size - 1 -> Slot(W)],
                  count : Nat, used : Nat]
        /\ e.shift = t.shift /\ e.size = t.size /\ e.slots = [t.slots EXCEPT ![p] = s]
        /\ e.count = t.count /\ e.used = t.used
    BY <1>2, <1>3
  <2>2. new = e
    BY <1>4
  <2> HIDE DEF e
  <2> QED  BY <2>1, <2>2
<1>6. Writes(t, new, W, p, s)
  BY <1>5 DEF Writes
<1>7. Fits(t, p, s)
  <2>1. t.slots[p].hash = s.hash /\ Reached(t, p)
    BY <1>1, <1>2 DEF Core, Map!HashGet
  <2>2. \E last \in 0 .. t.size :
          /\ Map!Probe(t, s.hash, last) = p
          /\ \A e \in 0 .. last - 1 : t.slots[Map!Probe(t, s.hash, e)].hash # 0
    BY <2>1 DEF Reached
  <2> QED  BY <1>2, <2>2 DEF Fits
<1>8. /\ Core(new, W)
      /\ \A i : i \in Entries(new) <=> IF i = p THEN s.hash > 1 ELSE i \in Entries(t)
      /\ \A i : i \in Marked(new) <=> i = p \/ i \in Marked(t)
  <2>1. Written(t, new, W, p, s)
    BY <1>1, <1>2, <1>6, <1>7, WriteKeeps
  <2> QED  BY <2>1 DEF Written
<1>9. \A x : x \in Held(new) <=> (x \in Held(t) /\ x # t.slots[p]) \/ x = s
  <2>1. \A x : x \in Held(new) <=>
           \/ s.hash > 1 /\ x = s
           \/ x \in Held(t) /\ ~(p \in Entries(t) /\ x = t.slots[p])
    BY <1>1, <1>2, <1>6, <1>7, WriteHolds
  <2> QED  BY <1>2, <2>1
<1>10. Counted(new) /\ Roomy(new)
  <2>1. p \in Marked(t)
    <3>1. t.slots[p].hash \in Nat
      BY <1>1, ShapedIs
    <3> QED  BY <1>1, <3>1 DEF Marked
  <2>2. Entries(new) = Entries(t) /\ Marked(new) = Marked(t)
    BY <1>2, <1>8, <2>1
  <2> QED  BY <1>1, <1>5, <2>2 DEF Counted, Roomy
<1> QED  BY <1>8, <1>9, <1>10 DEF Sound, s, new

\* The table that is made first, and by Clear, is sound.
LEMMA EmptyIs ==
  ASSUME NEW W PROVE Sound(Map!Empty, W) /\ Held(Map!Empty) = {}
<1>1. Map!Empty = Map!Blank(3)
  BY PrimesThere DEF Map!Empty
<1>2. /\ Core(Map!Blank(3), W) /\ Entries(Map!Blank(3)) = {} /\ Marked(Map!Blank(3)) = {}
      /\ Map!Blank(3).size = Pow[3] /\ Map!Blank(3).count = 0 /\ Map!Blank(3).used = 0
  BY BlankIs
<1>3. Pow[3] = 8
  <2>1. Pow[0] = 1 /\ Pow[0 + 1] = 2 * Pow[0] /\ Pow[1 + 1] = 2 * Pow[1] /\ Pow[2 + 1] = 2 * Pow[2]
    BY PowIs
  <2> QED  BY <2>1
<1>4. Counted(Map!Blank(3))
  BY <1>2, FS_EmptySet DEF Counted
<1>5. Roomy(Map!Blank(3))
  BY <1>2, <1>3 DEF Roomy
<1>6. Held(Map!Blank(3)) = {}
  BY <1>2 DEF Held
<1> QED  BY <1>1, <1>2, <1>4, <1>5, <1>6 DEF Sound

-------------------------------------------------------------------------------
(* What an iterator returns: every key of the table.                         *)

Members(s) == {s[j] : j \in DOMAIN s}

\* What is in two sequences that are joined.
LEMMA MembersOfJoined ==
  ASSUME NEW S, NEW k \in S, NEW s \in Seq(S)
  PROVE  /\ <<k>> \o s \in Seq(S)
         /\ \A x : x \in Members(<<k>> \o s) <=> x = k \/ x \in Members(s)
<1> DEFINE joined == <<k>> \o s
<1>1. /\ <<k>> \in Seq(S) /\ Len(<<k>>) = 1 /\ <<k>>[1] = k
      /\ Len(s) \in Nat /\ DOMAIN s = 1 .. Len(s)
  OBVIOUS
<1>2. joined \in Seq(S) /\ Len(joined) = Len(s) + 1 /\ DOMAIN joined = 1 .. Len(s) + 1
  BY <1>1
<1>3. joined[1] = k /\ \A j \in 1 .. Len(s) : joined[j + 1] = s[j]
  BY <1>1
<1> HIDE DEF joined
<1>4. ASSUME NEW x \in Members(joined) PROVE x = k \/ x \in Members(s)
  <2>1. PICK j \in 1 .. Len(s) + 1 : x = joined[j]
    BY <1>2 DEF Members
  <2>2. CASE j = 1
    BY <1>3, <2>1, <2>2
  <2>3. CASE j # 1
    <3>1. j - 1 \in 1 .. Len(s) /\ (j - 1) + 1 = j
      BY <1>1, <2>3
    <3>2. x = s[j - 1]
      BY <1>3, <2>1, <3>1
    <3> QED  BY <1>1, <3>1, <3>2 DEF Members
  <2> QED  BY <2>2, <2>3
<1>5. k \in Members(joined)
  <2>1. 1 \in 1 .. Len(s) + 1
    BY <1>1
  <2> QED  BY <1>2, <1>3, <2>1 DEF Members
<1>6. ASSUME NEW x \in Members(s) PROVE x \in Members(joined)
  <2>1. PICK j \in 1 .. Len(s) : x = s[j]
    BY <1>1 DEF Members
  <2>2. j + 1 \in 1 .. Len(s) + 1 /\ x = joined[j + 1]
    BY <1>1, <1>3, <2>1
  <2> QED  BY <1>2, <2>2 DEF Members
<1> QED  BY <1>2, <1>4, <1>5, <1>6 DEF joined

\* Where an iterator may be, and which entries are ahead of it.
Places(t) == Entries(t) \cup {-1}
Ahead(t, i) == {e \in Entries(t) : e > i}

\* The iterator goes to the next entry ahead, if there is one.
LEMMA FollowingIs ==
  ASSUME NEW t, NEW W, Shaped(t, W), NEW i \in Places(t)
  PROVE  \/ Ahead(t, i) = {} /\ Map!Following(t, i) = Map!None
         \/ /\ Map!Following(t, i) \in Ahead(t, i) /\ Map!Following(t, i) # Map!None
            /\ \A j \in Ahead(t, i) : Map!Following(t, i) <= j
<1>1. t.size \in Nat
  BY SizeIs
<1>2. Ahead(t, i) \subseteq Nat /\ Map!None \notin Ahead(t, i)
  BY <1>1 DEF Ahead, Entries, Map!None
<1>3. Map!Following(t, i) =
        IF Ahead(t, i) = {} THEN Map!None
        ELSE CHOOSE e \in Ahead(t, i) : \A j \in Ahead(t, i) : e <= j
  <2>1. Map!Entries(t) = Entries(t)
    BY EntriesAre
  <2> QED  BY <2>1 DEF Map!Following, Ahead
<1>4. CASE Ahead(t, i) = {}
  BY <1>3, <1>4
<1>5. CASE Ahead(t, i) # {}
  <2> DEFINE A == Ahead(t, i)
  <2>1. A # {} /\ A \subseteq Nat /\ Map!None \notin A
    BY <1>2, <1>5
  <2>2. Map!Following(t, i) = CHOOSE e \in A : \A j \in A : e <= j
    BY <1>3, <1>5
  <2> HIDE DEF A
  <2>3. \E e \in A : \A j \in A : e <= j
    BY <2>1, LeastNumber
  <2>4. Map!Following(t, i) \in A /\ \A j \in A : Map!Following(t, i) <= j
    BY <2>2, <2>3
  <2> QED  BY <2>1, <2>4 DEF A
<1> QED  BY <1>4, <1>5

\* What is returned from a place on.
Rest(t, i, f) ==
  IF Map!Following(t, i) = Map!None THEN <<>>
  ELSE <<t.slots[Map!Following(t, i)].key>> \o f[Map!Following(t, i)]

Returns(t, n, f) ==
  /\ DOMAIN f = {i \in Places(t) : i >= n}
  /\ \A i \in DOMAIN f : f[i] = Rest(t, i, f)

\* What an iterator returns is a function that the recursive definition determines.
LEMMA ReturnsThere ==
  ASSUME NEW t, NEW W, Shaped(t, W), NEW k \in 0 .. t.size + 1
  PROVE  \E f : Returns(t, t.size - k, f)
<1> DEFINE Without == {n \in 0 .. t.size + 1 : ~ \E f : Returns(t, t.size - n, f)}
<1>1. t.size \in Nat /\ \A i \in Places(t) : i \in Int /\ i < t.size /\ i >= -1
  BY SizeIs DEF Places, Entries
<1>2. Without = {}
  <2> SUFFICES ASSUME Without # {} PROVE FALSE
    OBVIOUS
  <2>1. PICK n \in Without : \A j \in Without : n <= j
    <3>1. Without \subseteq Nat
      BY <1>1
    <3> HIDE DEF Without
    <3> QED  BY <3>1, LeastNumber
  <2>2. n # 0
    <3> DEFINE f == [i \in {} |-> <<>>]
    <3>1. {i \in Places(t) : i >= t.size - 0} = {}
      BY <1>1
    <3>2. Returns(t, t.size - 0, f)
      BY <3>1 DEF Returns
    <3> HIDE DEF f
    <3> QED  BY <2>1, <3>2
  <2>3. n \in 1 .. t.size + 1 /\ n - 1 \in 0 .. t.size + 1 /\ ~(n <= n - 1)
    BY <1>1, <2>1, <2>2
  <2> DEFINE m == t.size - n
  <2>4. m \in Int /\ t.size - (n - 1) = m + 1
    BY <1>1, <2>3
  <2>5. PICK f : Returns(t, m + 1, f)
    <3>1. n - 1 \notin Without
      BY <2>1, <2>3
    <3>2. \E f : Returns(t, t.size - (n - 1), f)
      BY <2>3, <3>1
    <3> QED  BY <2>4, <3>2
  <2>6. ~ \E g : Returns(t, m, g)
    BY <2>1
  <2> HIDE DEF m
  <2> DEFINE g == [i \in {j \in Places(t) : j >= m} |-> IF i = m THEN Rest(t, m, f) ELSE f[i]]
  <2>7. /\ DOMAIN g = {i \in Places(t) : i >= m}
        /\ \A i \in DOMAIN g : g[i] = IF i = m THEN Rest(t, m, f) ELSE f[i]
    OBVIOUS
  <2> HIDE DEF g
  <2>8. \A i \in Places(t) : i >= m => Rest(t, i, g) = Rest(t, i, f)
    <3> TAKE i \in Places(t)
    <3> SUFFICES ASSUME i >= m, Map!Following(t, i) # Map!None
                 PROVE  g[Map!Following(t, i)] = f[Map!Following(t, i)]
      BY DEF Rest
    <3> DEFINE next == Map!Following(t, i)
    <3>1. next \in Ahead(t, i)
      BY FollowingIs
    <3>2. next \in Places(t) /\ next > i
      BY <3>1 DEF Ahead, Places
    <3> HIDE DEF next
    <3>3. next >= m /\ next # m
      BY <1>1, <2>4, <3>2
    <3> QED  BY <2>7, <3>2, <3>3 DEF next
  <2>9. \A i \in DOMAIN g : g[i] = Rest(t, i, g)
    <3> TAKE i \in DOMAIN g
    <3>1. i \in Places(t) /\ i >= m /\ i \in Int
      BY <1>1, <2>7
    <3>2. CASE i = m
      BY <2>7, <2>8, <3>1, <3>2
    <3>3. CASE i # m
      <4>1. i >= m + 1
        BY <2>4, <3>1, <3>3
      <4>2. f[i] = Rest(t, i, f)
        BY <2>5, <3>1, <4>1 DEF Returns
      <4> QED  BY <2>7, <2>8, <3>1, <3>3, <4>2
    <3> QED  BY <3>2, <3>3
  <2>10. Returns(t, m, g)
    BY <2>7, <2>9 DEF Returns
  <2> QED  BY <2>6, <2>10
<1> QED  BY <1>2

\* An iterator returns the keys of all entries and no others.
LEMMA IteratedIs ==
  ASSUME NEW t, NEW W, Shaped(t, W)
  PROVE  \A x : x \in Members(Map!Iterated(t)) <=> \E e \in Entries(t) : x = t.slots[e].key
<1> DEFINE Body(f) ==
             [i \in Map!Entries(t) \union {Map!None} |->
                IF Map!Following(t, i) = Map!None THEN <<>>
                ELSE <<t.slots[Map!Following(t, i)].key>> \o f[Map!Following(t, i)]]
           from == CHOOSE f : f = Body(f)
<1>1. Map!Iterated(t) = from[Map!None]
  BY DEF Map!Iterated
<1>2. Map!Entries(t) \union {Map!None} = Places(t) /\ Map!None = -1
  BY EntriesAre DEF Places, Map!None
<1>3. \A f : Body(f) = [i \in Places(t) |-> Rest(t, i, f)]
  BY <1>2 DEF Rest
<1> HIDE DEF Body
<1>4. t.size \in Nat /\ \A i \in Places(t) : i \in Int /\ i < t.size /\ i >= -1
  BY SizeIs DEF Places, Entries
<1>5. PICK g : DOMAIN g = Places(t) /\ \A i \in Places(t) : g[i] = Rest(t, i, g)
  <2>1. t.size + 1 \in 0 .. t.size + 1 /\ t.size - (t.size + 1) = -1
    BY <1>4
  <2>2. PICK g : Returns(t, -1, g)
    BY <2>1, ReturnsThere
  <2>3. {i \in Places(t) : i >= -1} = Places(t)
    BY <1>4
  <2> QED  BY <2>2, <2>3 DEF Returns
<1>6. \E f : f = Body(f)
  <2> DEFINE same == [i \in Places(t) |-> g[i]]
  <2>1. \A i \in Places(t) : Rest(t, i, same) = Rest(t, i, g)
    <3> TAKE i \in Places(t)
    <3>1. Map!Following(t, i) # Map!None => Map!Following(t, i) \in Places(t)
      BY FollowingIs DEF Ahead, Places
    <3> QED  BY <3>1 DEF Rest
  <2>2. same = [i \in Places(t) |-> Rest(t, i, same)]
    <3> DEFINE other == [i \in Places(t) |-> Rest(t, i, same)]
    <3>1. \A i \in Places(t) : other[i] = g[i]
      <4> HIDE DEF same
      <4> QED  BY <1>5, <2>1
    <3>2. other = [i \in Places(t) |-> other[i]]
      OBVIOUS
    <3> HIDE DEF other
    <3>3. same = other
      BY <3>1, <3>2
    <3> QED  BY <3>3 DEF other
  <2> HIDE DEF same
  <2> QED  BY <1>3, <2>2
<1>7. from = Body(from)
  BY <1>6
<1> HIDE DEF from
<1>8. \A i \in Places(t) : from[i] = Rest(t, i, from)
  BY <1>3, <1>7
<1> DEFINE Right(i) == /\ from[i] \in Seq(Keys)
                       /\ \A x : x \in Members(from[i]) <=> \E e \in Ahead(t, i) : x = t.slots[e].key
           Wrong == {k \in 0 .. t.size + 1 : t.size - k \in Places(t) /\ ~Right(t.size - k)}
<1>9. Wrong = {}
  <2> SUFFICES ASSUME Wrong # {} PROVE FALSE
    OBVIOUS
  <2>1. PICK k \in Wrong : \A j \in Wrong : k <= j
    <3>1. Wrong \subseteq Nat
      BY <1>4
    <3> HIDE DEF Wrong
    <3> QED  BY <3>1, LeastNumber
  <2> DEFINE i == t.size - k
  <2>2. i \in Places(t) /\ ~Right(i) /\ i \in Int /\ k = t.size - i /\ k \in Nat
    BY <1>4, <2>1
  <2>3. \A j \in Places(t) : j > i => Right(j)
    <3> SUFFICES ASSUME NEW j \in Places(t), j > i PROVE Right(j)
      OBVIOUS
    <3>1. t.size - j \in 0 .. t.size + 1 /\ t.size - (t.size - j) = j /\ ~(k <= t.size - j)
      <4>1. j \in Int /\ t.size \in Int /\ j <= t.size /\ -1 <= j
        BY <1>4
      <4>2. k = t.size - i /\ i \in Int
        BY <2>2
      <4> HIDE DEF i, Wrong, Right
      <4> QED  BY <4>1, <4>2
    <3>2. t.size - j \notin Wrong
      BY <2>1, <3>1
    <3> HIDE DEF Right
    <3> QED  BY <3>1, <3>2
  <2> HIDE DEF i
  <2>4. CASE Ahead(t, i) = {}
    <3>1. Map!Following(t, i) = Map!None
      BY <2>2, <2>4, FollowingIs
    <3>2. from[i] = <<>>
      BY <1>8, <2>2, <3>1 DEF Rest
    <3>3. <<>> \in Seq(Keys) /\ Members(<<>>) = {}
      BY DEF Members
    <3> QED  BY <2>2, <2>4, <3>2, <3>3
  <2>5. CASE Ahead(t, i) # {}
    <3> DEFINE next == Map!Following(t, i)
    <3>1. /\ next \in Ahead(t, i) /\ next # Map!None
          /\ \A j \in Ahead(t, i) : next <= j
      BY <2>2, <2>5, FollowingIs
    <3>2. from[i] = <<t.slots[next].key>> \o from[next]
      BY <1>8, <2>2, <3>1 DEF Rest
    <3> HIDE DEF next
    <3>3. next \in Places(t) /\ next \in Entries(t) /\ next > i /\ next \in Int
      BY <1>4, <3>1 DEF Ahead, Places
    <3>4. Right(next)
      BY <2>3, <3>3
    <3>5. t.slots[next].key \in Keys
      BY <3>3, ShapedIs
    <3>6. /\ from[i] \in Seq(Keys)
          /\ \A x : x \in Members(from[i]) <=> x = t.slots[next].key \/ x \in Members(from[next])
      BY <3>2, <3>4, <3>5, MembersOfJoined
    <3>7. \A e : e \in Ahead(t, i) <=> e = next \/ e \in Ahead(t, next)
      <4>1. \A e \in Entries(t) : e \in Int
        BY <1>4 DEF Places
      <4>2. \A e \in Entries(t) : e > i <=> e = next \/ e > next
        BY <2>2, <3>1, <3>3, <4>1 DEF Ahead
      <4> QED  BY <3>3, <4>2 DEF Ahead
    <3>8. Right(i)
      BY <3>4, <3>6, <3>7
    <3> QED  BY <2>2, <3>8
  <2> QED  BY <2>4, <2>5
<1>10. Right(-1)
  <2>1. t.size + 1 \in 0 .. t.size + 1 /\ t.size - (t.size + 1) = -1
    BY <1>4
  <2>2. -1 \in Places(t)
    BY DEF Places
  <2> HIDE DEF Right
  <2> QED  BY <1>9, <2>1, <2>2
<1>11. \A e : e \in Ahead(t, -1) <=> e \in Entries(t)
  <2>1. \A e \in Entries(t) : e \in Nat
    BY <1>4 DEF Entries
  <2> QED  BY <2>1 DEF Ahead
<1> QED  BY <1>1, <1>2, <1>10, <1>11

-------------------------------------------------------------------------------
(* What calls change, in terms of the entries.                               *)

KeysOf(t) == {x.key : x \in Held(t)}
NamesOf(t) == {NameOf[x.key] : x \in Held(t)}

\* No two entries have equal keys.
Single(t) == \A x, y \in Held(t) : NameOf[x.key] = NameOf[y.key] => x = y

\* A key is held in an entry.
LEMMA HeldIs ==
  ASSUME NEW t, NEW W, Sound(t, W)
  PROVE  /\ \A x \in Held(t) : /\ x.key \in Keys /\ x.value \in W
                               /\ x = EntryOf(x.key, x.value)
         /\ \A x, y \in Held(t) : x.key = y.key => x = y
         /\ \A i \in Entries(t) : t.slots[i] \in Held(t) /\ t.slots[i].hash > 1
<1>1. Core(t, W) /\ Shaped(t, W)
  BY DEF Sound, Core
<1>2. ASSUME NEW i \in Entries(t)
      PROVE  /\ t.slots[i].key \in Keys /\ t.slots[i].value \in W
             /\ t.slots[i] = EntryOf(t.slots[i].key, t.slots[i].value)
  <2>1. t.slots[i].key \in Keys /\ t.slots[i].value \in W
    BY <1>1, ShapedIs
  <2>2. t.slots[i].hash = Map!HashGet(t.slots[i].key) /\ t.slots[i].hash > 1
    BY <1>1 DEF Core, Entries
  <2>3. t.slots[i] \in Slot(W)
    BY <1>1, ShapedIs DEF Entries
  <2>4. t.slots[i] \in [hash : Nat \ {0, 1}, key : Keys, value : W]
    BY <2>2, <2>3 DEF Slot, Map!Unused, Map!Tombstone
  <2> QED  BY <2>1, <2>2, <2>4 DEF EntryOf
<1>3. \A x \in Held(t) : \E i \in Entries(t) : x = t.slots[i]
  BY DEF Held
<1>4. \A i \in Entries(t) : t.slots[i] \in Held(t) /\ t.slots[i].hash > 1
  BY DEF Held, Entries
<1>5. \A x, y \in Held(t) : x.key = y.key => x = y
  BY <1>1, <1>3 DEF Core
<1>6. \A x \in Held(t) : x.key \in Keys /\ x.value \in W /\ x = EntryOf(x.key, x.value)
  BY <1>2, <1>3
<1> QED  BY <1>4, <1>5, <1>6

\* The answers of a sound table.
LEMMA AnswersAre ==
  ASSUME NEW t, NEW W, Sound(t, W)
  PROVE  /\ \A key \in Keys :
               /\ Map!Find(t, key) # Map!None <=> NameOf[key] \in NamesOf(t)
               /\ Map!Find(t, key) # Map!None =>
                     /\ Map!Find(t, key) \in Entries(t)
                     /\ NameOf[t.slots[Map!Find(t, key)].key] = NameOf[key]
               /\ NameOf[key] \notin NamesOf(t) => Map!FindToInsert(t, key, FALSE) # Map!None
         /\ \A n : n \in {NameOf[Map!Iterated(t)[i]] : i \in DOMAIN Map!Iterated(t)} <=>
                      n \in NamesOf(t)
         /\ Single(t) => t.count = Cardinality(NamesOf(t))
         /\ \A k : k \in {t.slots[i].key : i \in Map!Entries(t)} <=> k \in KeysOf(t)
<1>1. /\ Core(t, W) /\ Shaped(t, W) /\ Counted(t)
      /\ \E i \in 0 .. t.size - 1 : t.slots[i].hash = 0
      /\ Cardinality(Entries(t)) < t.size
  BY FreeThere DEF Sound, Core
<1>2. \A n : n \in NamesOf(t) <=> \E i \in Entries(t) : n = NameOf[t.slots[i].key]
  BY DEF NamesOf, Held
<1>3. ASSUME NEW key \in Keys
      PROVE  /\ Map!Find(t, key) # Map!None <=> NameOf[key] \in NamesOf(t)
             /\ Map!Find(t, key) # Map!None =>
                   /\ Map!Find(t, key) \in Entries(t)
                   /\ NameOf[t.slots[Map!Find(t, key)].key] = NameOf[key]
  <2>1. \/ /\ Map!Find(t, key) = Map!None
           /\ \A i \in Entries(t) : NameOf[t.slots[i].key] # NameOf[key]
        \/ /\ Map!Find(t, key) \in Entries(t)
           /\ Map!Find(t, key) # Map!None
           /\ NameOf[t.slots[Map!Find(t, key)].key] = NameOf[key]
    BY <1>1, FindIs
  <2> QED  BY <1>2, <2>1
<1>4. ASSUME NEW key \in Keys, NameOf[key] \notin NamesOf(t)
      PROVE  Map!FindToInsert(t, key, FALSE) # Map!None
  <2>1. PICK p \in 0 .. t.size - 1 :
            /\ \A replace \in BOOLEAN :
                  Map!FindToInsert(t, key, replace) =
                     IF t.slots[p].hash > 1 /\ ~replace THEN Map!None ELSE p
            /\ t.slots[p].hash > 1 => Map!Matches(t.slots[p], key)
    BY <1>1, InsertIs
  <2>2. ~(t.slots[p].hash > 1)
    BY <1>1, <1>2, <1>4, <2>1, MatchIs
  <2>3. p # Map!None
    BY <1>1, SizeIs DEF Map!None
  <2> QED  BY <2>1, <2>2, <2>3
<1>5. \A n : n \in {NameOf[Map!Iterated(t)[i]] : i \in DOMAIN Map!Iterated(t)} <=>
                n \in NamesOf(t)
  <2> DEFINE list == Map!Iterated(t)
  <2>1. \A x : x \in Members(list) <=> \E e \in Entries(t) : x = t.slots[e].key
    BY <1>1, IteratedIs
  <2> HIDE DEF list
  <2>2. \A n : n \in {NameOf[list[i]] : i \in DOMAIN list} <=>
                  \E x \in Members(list) : n = NameOf[x]
    BY DEF Members
  <2>3. \A n : n \in {NameOf[list[i]] : i \in DOMAIN list} <=> n \in NamesOf(t)
    BY <1>2, <2>1, <2>2
  <2> QED  BY <2>3 DEF list
<1>6. ASSUME Single(t) PROVE t.count = Cardinality(NamesOf(t))
  <2> DEFINE f == [x \in Held(t) |-> NameOf[x.key]]
  <2>1. /\ f \in [Held(t) -> NamesOf(t)]
        /\ \A x, y \in Held(t) : f[x] = f[y] => x = y
        /\ \A n \in NamesOf(t) : \E x \in Held(t) : f[x] = n
    BY <1>6 DEF NamesOf, Single
  <2>2. IsFiniteSet(Held(t)) /\ Cardinality(Held(t)) = Cardinality(Entries(t))
    BY <1>1, HeldSize
  <2> HIDE DEF f
  <2>3. Cardinality(NamesOf(t)) = Cardinality(Held(t))
    BY <2>1, <2>2, ImageSize
  <2> QED  BY <1>1, <2>2, <2>3 DEF Counted
<1>7. \A k : k \in {t.slots[i].key : i \in Map!Entries(t)} <=> k \in KeysOf(t)
  <2>1. Map!Entries(t) = Entries(t)
    BY <1>1, EntriesAre
  <2> QED  BY <2>1 DEF KeysOf, Held
<1> QED  BY <1>3, <1>4, <1>5, <1>6, <1>7

\* A key that the table does not own comes in at the place that was found.
LEMMA PutChanges ==
  ASSUME NEW t, NEW W, Sound(t, W), NEW key \in Keys, key \notin KeysOf(t), NEW value \in W,
         NEW replace \in BOOLEAN, NEW p, p = Map!FindToInsert(t, key, replace), p # Map!None,
         replace => ~Map!Real(t.slots[p])
  PROVE  /\ Sound(Map!Put(t, p, key, value), W)
         /\ \A x : x \in Held(Map!Put(t, p, key, value)) <=>
                     x \in Held(t) \/ x = EntryOf(key, value)
         /\ ~Map!Hides(t, p, key) => NameOf[key] \notin NamesOf(t)
<1>1. /\ Core(t, W) /\ Shaped(t, W) /\ Cardinality(Entries(t)) < t.size
  BY FreeThere DEF Sound, Core
<1>2. PICK q \in 0 .. t.size - 1 :
            /\ \A again \in BOOLEAN :
                  Map!FindToInsert(t, key, again) =
                     IF t.slots[q].hash > 1 /\ ~again THEN Map!None ELSE q
            /\ \E last \in 0 .. t.size :
                  /\ q = Map!Probe(t, Map!HashGet(key), last)
                  /\ \A e \in 0 .. last - 1 :
                        t.slots[Map!Probe(t, Map!HashGet(key), e)].hash > 1
  BY <1>1, InsertIs
<1>3. p = q /\ ~(t.slots[q].hash > 1)
  BY <1>2 DEF Map!Real
<1>4. \A i \in Entries(t) : t.slots[i].key # key
  BY DEF KeysOf, Held
<1>5. /\ Sound(Map!Put(t, q, key, value), W)
      /\ \A x : x \in Held(Map!Put(t, q, key, value)) <=>
                  x \in Held(t) \/ x = EntryOf(key, value)
  BY <1>2, <1>3, <1>4, PutKeeps
<1>6. ~Map!Hides(t, p, key) => NameOf[key] \notin NamesOf(t)
  BY <1>3, AnswersAre DEF Map!Hides, Map!Real
<1> QED  BY <1>3, <1>5, <1>6

\* The key that is found to be there is replaced.
Replaced(t, W, p, key, value) ==
  /\ p \in Entries(t) /\ t.slots[p] \in Held(t) /\ NameOf[t.slots[p].key] = NameOf[key]
  /\ t.slots[p] = EntryOf(t.slots[p].key, t.slots[p].value)
  /\ Sound(Filled(t, p, EntryOf(key, value)), W)
  /\ \A x : x \in Held(Filled(t, p, EntryOf(key, value))) <=>
              (x \in Held(t) /\ x # t.slots[p]) \/ x = EntryOf(key, value)

\* What is in a table after the key and the value of an entry are replaced.
LEMMA ReplaceChanges ==
  ASSUME NEW t, NEW W, Sound(t, W), NEW key \in Keys, key \notin KeysOf(t), NEW value \in W,
         NEW p, p = Map!FindToInsert(t, key, TRUE), Map!Real(t.slots[p])
  PROVE  Replaced(t, W, p, key, value)
<1>1. /\ Core(t, W) /\ Shaped(t, W) /\ Cardinality(Entries(t)) < t.size
  BY FreeThere DEF Sound, Core
<1>2. PICK q \in 0 .. t.size - 1 :
            /\ \A again \in BOOLEAN :
                  Map!FindToInsert(t, key, again) =
                     IF t.slots[q].hash > 1 /\ ~again THEN Map!None ELSE q
            /\ t.slots[q].hash > 1 => Map!Matches(t.slots[q], key)
  BY <1>1, InsertIs
<1>3. p = q
  BY <1>2
<1>4. q \in Entries(t) /\ NameOf[t.slots[q].key] = NameOf[key]
  <2>1. Map!Matches(t.slots[q], key) /\ q \in 0 .. t.size - 1
    BY <1>2, <1>3 DEF Map!Real
  <2> QED  BY <1>1, <2>1, MatchIs
<1>5. \A i \in Entries(t) : t.slots[i].key # key
  BY DEF KeysOf, Held
<1>6. /\ Sound(Filled(t, q, EntryOf(key, value)), W)
      /\ \A x : x \in Held(Filled(t, q, EntryOf(key, value))) <=>
                  (x \in Held(t) /\ x # t.slots[q]) \/ x = EntryOf(key, value)
  BY <1>4, <1>5, ReplaceKeeps
<1>8. t.slots[q] \in Held(t) /\ t.slots[q] = EntryOf(t.slots[q].key, t.slots[q].value)
  BY <1>4, HeldIs
<1> QED  BY <1>3, <1>4, <1>6, <1>8 DEF Replaced

\* The key that is found to be there leaves.
LEMMA RemoveChanges ==
  ASSUME NEW t, NEW W, Sound(t, W), NEW key \in Keys,
         NEW p, p = Map!Find(t, key), p # Map!None
  PROVE  /\ p \in Entries(t) /\ t.slots[p] \in Held(t) /\ NameOf[t.slots[p].key] = NameOf[key]
         /\ Sound(Map!Erect(t, p), W)
         /\ \A x : x \in Held(Map!Erect(t, p)) <=> x \in Held(t) /\ x # t.slots[p]
<1>1. p \in Entries(t) /\ NameOf[t.slots[p].key] = NameOf[key]
  BY AnswersAre
<1> QED  BY <1>1, HeldIs, ErectKeeps

-------------------------------------------------------------------------------
(* The map and the set.                                                      *)

MapInv ==
  /\ Sound(table, Values)
  /\ \A k : k \in owned <=> k \in KeysOf(table)
  /\ ~doubled => /\ Single(table)
                 /\ \A n : n \in DOMAIN content <=> n \in NamesOf(table)
                 /\ \A x \in Held(table) : content[NameOf[x.key]] = x.value

SetInv ==
  /\ Sound(set, {Null})
  /\ \A k : k \in held <=> k \in KeysOf(set)
  /\ ~repeated => /\ Single(set)
                  /\ \A n : n \in members <=> n \in NamesOf(set)

\* What a key that comes in does to the keys and names, what one that takes the place of an
\* equal key does, and what one that leaves does.
CameIn(t, new, key) ==
  /\ \A k : k \in KeysOf(new) <=> k \in KeysOf(t) \/ k = key
  /\ \A n : n \in NamesOf(new) <=> n \in NamesOf(t) \/ n = NameOf[key]
  /\ Single(t) /\ NameOf[key] \notin NamesOf(t) => Single(new)

TookPlace(t, new, key, old) ==
  /\ \A k : k \in KeysOf(new) <=> (k \in KeysOf(t) /\ k # old.key) \/ k = key
  /\ \A n : n \in NamesOf(new) <=> n \in NamesOf(t)
  /\ Single(t) => Single(new)
  /\ Single(t) => \A x \in Held(t) : x # old => NameOf[x.key] # NameOf[key]

Left(t, new, old) ==
  /\ \A k : k \in KeysOf(new) <=> k \in KeysOf(t) /\ k # old.key
  /\ Single(t) => /\ Single(new)
                  /\ \A n : n \in NamesOf(new) <=> n \in NamesOf(t) /\ n # NameOf[old.key]

\* The keys owned after a key was put in.
LEMMA KeysPut ==
  ASSUME NEW t, NEW new, NEW key, NEW value,
         \A x : x \in Held(new) <=> x \in Held(t) \/ x = EntryOf(key, value)
  PROVE  CameIn(t, new, key)
<1>1. EntryOf(key, value).key = key
  BY DEF EntryOf
<1>2. \A k : k \in KeysOf(new) <=> k \in KeysOf(t) \/ k = key
  BY <1>1 DEF KeysOf
<1>3. \A n : n \in NamesOf(new) <=> n \in NamesOf(t) \/ n = NameOf[key]
  BY <1>1 DEF NamesOf
<1>4. ASSUME Single(t), NameOf[key] \notin NamesOf(t) PROVE Single(new)
  BY <1>1, <1>4 DEF Single, NamesOf
<1> QED  BY <1>2, <1>3, <1>4 DEF CameIn

\* The keys owned after a key was replaced.
LEMMA KeysReplaced ==
  ASSUME NEW t, NEW W, Sound(t, W), NEW new, NEW key, NEW value, NEW old \in Held(t),
         NameOf[old.key] = NameOf[key],
         \A x : x \in Held(new) <=> (x \in Held(t) /\ x # old) \/ x = EntryOf(key, value)
  PROVE  TookPlace(t, new, key, old)
<1>1. EntryOf(key, value).key = key
  BY DEF EntryOf
<1>2. \A x, y \in Held(t) : x.key = y.key => x = y
  BY HeldIs
<1>3. \A k : k \in KeysOf(new) <=> (k \in KeysOf(t) /\ k # old.key) \/ k = key
  BY <1>1, <1>2 DEF KeysOf
<1>4. \A n : n \in NamesOf(new) <=> n \in NamesOf(t)
  BY <1>1 DEF NamesOf
<1>5. Single(t) => \A x \in Held(t) : x # old => NameOf[x.key] # NameOf[key]
  BY DEF Single
<1>6. ASSUME Single(t) PROVE Single(new)
  BY <1>1, <1>5, <1>6 DEF Single
<1> QED  BY <1>3, <1>4, <1>5, <1>6 DEF TookPlace

\* The keys owned after a key was removed.
LEMMA KeysRemoved ==
  ASSUME NEW t, NEW W, Sound(t, W), NEW new, NEW old \in Held(t),
         \A x : x \in Held(new) <=> x \in Held(t) /\ x # old
  PROVE  Left(t, new, old)
<1>1. \A x, y \in Held(t) : x.key = y.key => x = y
  BY HeldIs
<1>2. \A k : k \in KeysOf(new) <=> k \in KeysOf(t) /\ k # old.key
  BY <1>1 DEF KeysOf
<1>3. ASSUME Single(t)
      PROVE  /\ Single(new)
             /\ \A n : n \in NamesOf(new) <=> n \in NamesOf(t) /\ n # NameOf[old.key]
  BY <1>3 DEF Single, NamesOf
<1> QED  BY <1>2, <1>3 DEF Left

\* The map after a key that it did not have was put in.
LEMMA MapInsertKeeps ==
  ASSUME MapInv, NEW key \in Keys, NEW value \in Values, NEW replace \in BOOLEAN,
         NEW p, p = Map!FindToInsert(table, key, replace), p # Map!None,
         replace => ~Map!Real(table.slots[p]),
         key \notin owned, table' = Map!Put(table, p, key, value),
         owned' = owned \union {key}, content' = Map!Bound(NameOf[key], value),
         doubled' = (doubled \/ Map!Hides(table, p, key))
  PROVE  MapInv'
<1>1. Sound(table, Values) /\ key \notin KeysOf(table)
  BY DEF MapInv
<1>2. /\ Sound(table', Values)
      /\ \A x : x \in Held(table') <=> x \in Held(table) \/ x = EntryOf(key, value)
      /\ ~Map!Hides(table, p, key) => NameOf[key] \notin NamesOf(table)
  BY <1>1, PutChanges
<1>3. /\ \A k : k \in KeysOf(table') <=> k \in KeysOf(table) \/ k = key
      /\ \A n : n \in NamesOf(table') <=> n \in NamesOf(table) \/ n = NameOf[key]
      /\ Single(table) /\ NameOf[key] \notin NamesOf(table) => Single(table')
  <2>1. CameIn(table, table', key)
    BY <1>2, KeysPut
  <2> QED  BY <2>1 DEF CameIn
<1>4. \A k : k \in owned' <=> k \in KeysOf(table')
  BY <1>3 DEF MapInv
<1>5. ASSUME ~doubled'
      PROVE  /\ Single(table')
             /\ \A n : n \in DOMAIN content' <=> n \in NamesOf(table')
             /\ \A x \in Held(table') : content'[NameOf[x.key]] = x.value
  <2>1. /\ Single(table) /\ \A n : n \in DOMAIN content <=> n \in NamesOf(table)
        /\ \A x \in Held(table) : content[NameOf[x.key]] = x.value
        /\ NameOf[key] \notin NamesOf(table)
    BY <1>2, <1>5 DEF MapInv
  <2>2. /\ \A n : n \in DOMAIN content' <=> n \in DOMAIN content \/ n = NameOf[key]
        /\ \A n \in DOMAIN content' : content'[n] = IF n = NameOf[key] THEN value ELSE content[n]
    BY DEF Map!Bound
  <2>3. ASSUME NEW x \in Held(table') PROVE content'[NameOf[x.key]] = x.value
    <3>1. CASE x = EntryOf(key, value)
      <4>1. x.key = key /\ x.value = value
        BY <3>1 DEF EntryOf
      <4> QED  BY <2>2, <4>1
    <3>2. CASE x \in Held(table)
      <4>1. NameOf[x.key] \in NamesOf(table)
        BY <3>2 DEF NamesOf
      <4> QED  BY <2>1, <2>2, <3>2, <4>1
    <3> QED  BY <1>2, <3>1, <3>2
  <2> QED  BY <1>3, <2>1, <2>2, <2>3
<1> QED  BY <1>2, <1>4, <1>5 DEF MapInv

\* The map after an upsert replaced a key.
LEMMA MapReplaceKeeps ==
  ASSUME MapInv, NEW key \in Keys, NEW value \in Values,
         NEW p, p = Map!FindToInsert(table, key, TRUE), Map!Real(table.slots[p]),
         key \notin owned,
         table' = [table EXCEPT !.slots[p].key = key, !.slots[p].value = value],
         owned' = (owned \ {table.slots[p].key}) \union {key},
         content' = Map!Bound(NameOf[key], value), ~doubled' => ~doubled
  PROVE  MapInv'
<1> DEFINE old == table.slots[p]
<1>1. Sound(table, Values) /\ key \notin KeysOf(table)
  BY DEF MapInv
<1>2. /\ p \in Entries(table) /\ old \in Held(table) /\ NameOf[old.key] = NameOf[key]
      /\ old = EntryOf(old.key, old.value)
      /\ Sound(Filled(table, p, EntryOf(key, value)), Values)
      /\ \A x : x \in Held(Filled(table, p, EntryOf(key, value))) <=>
                  (x \in Held(table) /\ x # old) \/ x = EntryOf(key, value)
  <2>1. Replaced(table, Values, p, key, value)
    BY <1>1, ReplaceChanges
  <2> QED  BY <2>1 DEF Replaced
<1>3. table' = Filled(table, p, EntryOf(key, value))
  <2>1. /\ table \in [shift : Nat, size : Nat, slots : [0 .. table.size - 1 -> Slot(Values)],
                      count : Nat, used : Nat]
        /\ p \in 0 .. table.size - 1
    BY <1>1, <1>2 DEF Sound, Core, Shaped, Entries
  <2>2. /\ old.hash = Map!HashGet(key)
        /\ old = [hash |-> old.hash, key |-> old.key, value |-> old.value]
    <3>1. Map!HashGet(old.key) = Map!HashGet(key)
      BY <1>2 DEF Map!HashGet
    <3> HIDE DEF old
    <3>2. /\ EntryOf(old.key, old.value).hash = Map!HashGet(old.key)
          /\ EntryOf(old.key, old.value) =
                [hash |-> Map!HashGet(old.key), key |-> old.key, value |-> old.value]
      BY DEF EntryOf
    <3> QED  BY <1>2, <3>1, <3>2
  <2> DEFINE s == [[old EXCEPT !.key = key] EXCEPT !.value = value]
  <2>3. s = EntryOf(key, value)
    <3> DEFINE second == EntryOf(key, old.value)
    <3> HIDE DEF old
    <3>1. second = [hash |-> old.hash, key |-> key, value |-> old.value]
      BY <2>2 DEF EntryOf
    <3>2. EntryOf(key, value) = [hash |-> old.hash, key |-> key, value |-> value]
      BY <2>2 DEF EntryOf
    <3>3. [old EXCEPT !.key = key] = second
      BY <2>2, <3>1
    <3>4. [second EXCEPT !.value = value] = EntryOf(key, value)
      BY <3>1, <3>2
    <3> HIDE DEF second
    <3> QED  BY <3>3, <3>4
  <2>4. table' = [table EXCEPT !.slots[p] = s]
    BY <2>1
  <2> QED  BY <2>3, <2>4 DEF Filled
<1>4. /\ Sound(table', Values)
      /\ \A x : x \in Held(table') <=>
                  (x \in Held(table) /\ x # old) \/ x = EntryOf(key, value)
  BY <1>2, <1>3
<1> HIDE DEF old
<1>5. /\ \A k : k \in KeysOf(table') <=> (k \in KeysOf(table) /\ k # old.key) \/ k = key
      /\ \A n : n \in NamesOf(table') <=> n \in NamesOf(table)
      /\ Single(table) => Single(table')
      /\ Single(table) => \A x \in Held(table) : x # old => NameOf[x.key] # NameOf[key]
  <2>1. old \in Held(table) /\ NameOf[old.key] = NameOf[key]
    BY <1>2
  <2>2. \A x : x \in Held(table') <=>
                (x \in Held(table) /\ x # old) \/ x = EntryOf(key, value)
    BY <1>4
  <2>3. TookPlace(table, table', key, old)
    BY <1>1, <2>1, <2>2, KeysReplaced
  <2> QED  BY <2>3 DEF TookPlace
<1>6. \A k : k \in owned' <=> k \in KeysOf(table')
  BY <1>5 DEF MapInv, old
<1>7. ASSUME ~doubled'
      PROVE  /\ Single(table')
             /\ \A n : n \in DOMAIN content' <=> n \in NamesOf(table')
             /\ \A x \in Held(table') : content'[NameOf[x.key]] = x.value
  <2>1. /\ Single(table) /\ \A n : n \in DOMAIN content <=> n \in NamesOf(table)
        /\ \A x \in Held(table) : content[NameOf[x.key]] = x.value
    BY <1>7 DEF MapInv
  <2>2. /\ \A n : n \in DOMAIN content' <=> n \in DOMAIN content \/ n = NameOf[key]
        /\ \A n \in DOMAIN content' : content'[n] = IF n = NameOf[key] THEN value ELSE content[n]
    BY DEF Map!Bound
  <2>3. NameOf[key] \in NamesOf(table)
    BY <1>2 DEF NamesOf
  <2>4. ASSUME NEW x \in Held(table') PROVE content'[NameOf[x.key]] = x.value
    <3>1. CASE x = EntryOf(key, value)
      <4>1. x.key = key /\ x.value = value
        BY <3>1 DEF EntryOf
      <4> QED  BY <2>2, <4>1
    <3>2. CASE x \in Held(table) /\ x # old
      <4>1. NameOf[x.key] \in NamesOf(table) /\ NameOf[x.key] # NameOf[key]
        BY <1>5, <2>1, <3>2 DEF NamesOf
      <4> QED  BY <2>1, <2>2, <3>2, <4>1
    <3> QED  BY <1>4, <3>1, <3>2
  <2> QED  BY <1>5, <2>1, <2>2, <2>3, <2>4
<1> QED  BY <1>4, <1>6, <1>7 DEF MapInv

\* The map after a key was removed or extracted.
LEMMA MapRemoveKeeps ==
  ASSUME MapInv, NEW key \in Keys, Map!Remove(key)
  PROVE  MapInv'
<1> DEFINE p == Map!Find(table, key)
           old == table.slots[p]
<1>1. Sound(table, Values)
  BY DEF MapInv
<1>2. /\ p # Map!None /\ table' = Map!Erect(table, p) /\ owned' = owned \ {old.key}
      /\ content' = Map!Unbound(NameOf[key]) /\ doubled' = doubled
  BY DEF Map!Remove
<1>3. /\ p \in Entries(table) /\ old \in Held(table) /\ NameOf[old.key] = NameOf[key]
      /\ Sound(table', Values)
      /\ \A x : x \in Held(table') <=> x \in Held(table) /\ x # old
  BY <1>1, <1>2, RemoveChanges
<1> HIDE DEF p, old
<1>4. /\ \A k : k \in KeysOf(table') <=> k \in KeysOf(table) /\ k # old.key
      /\ Single(table) =>
           /\ Single(table')
           /\ \A n : n \in NamesOf(table') <=> n \in NamesOf(table) /\ n # NameOf[old.key]
  <2>1. Left(table, table', old)
    BY <1>1, <1>3, KeysRemoved
  <2> QED  BY <2>1 DEF Left
<1>5. \A k : k \in owned' <=> k \in KeysOf(table')
  BY <1>2, <1>4 DEF MapInv
<1>6. ASSUME ~doubled'
      PROVE  /\ Single(table')
             /\ \A n : n \in DOMAIN content' <=> n \in NamesOf(table')
             /\ \A x \in Held(table') : content'[NameOf[x.key]] = x.value
  <2>1. /\ Single(table) /\ \A n : n \in DOMAIN content <=> n \in NamesOf(table)
        /\ \A x \in Held(table) : content[NameOf[x.key]] = x.value
    BY <1>2, <1>6 DEF MapInv
  <2>2. /\ \A n : n \in DOMAIN content' <=> n \in DOMAIN content /\ n # NameOf[key]
        /\ \A n \in DOMAIN content' : content'[n] = content[n]
    BY <1>2 DEF Map!Unbound
  <2>3. ASSUME NEW x \in Held(table') PROVE content'[NameOf[x.key]] = x.value
    <3>1. x \in Held(table) /\ NameOf[x.key] \in NamesOf(table')
      BY <1>3, <2>3 DEF NamesOf
    <3>2. NameOf[x.key] \in DOMAIN content'
      BY <1>3, <1>4, <2>1, <2>2, <3>1
    <3> QED  BY <2>1, <2>2, <3>1, <3>2
  <2> QED  BY <1>3, <1>4, <2>1, <2>2, <2>3
<1> QED  BY <1>3, <1>5, <1>6 DEF MapInv

\* The loops of the set are those of the map.
LEMMA SameSearches ==
  /\ Set!None = Map!None
  /\ \A s : Set!Real(s) <=> Map!Real(s)
  /\ \A t, key : Set!Find(t, key) = Map!Find(t, key)
  /\ \A t, key, replace : Set!FindToInsert(t, key, replace) = Map!FindToInsert(t, key, replace)
BY DEF Set!None, Map!None, Set!Real, Map!Real, Set!Find, Map!Find,
       Set!FindToInsert, Map!FindToInsert, Set!FirstStop, Map!FirstStop,
       Set!FreeOrEqual, Map!FreeOrEqual, Set!VacantOrEqual, Map!VacantOrEqual,
       Set!Matches, Map!Matches, Set!HashGet, Map!HashGet, Set!Probe, Map!Probe,
       Set!PrimeMod, Map!PrimeMod, Set!Size, Map!Size

\* The set resizes its table as the map does.
LEMMA SameResize == \A t : Set!MaybeResize(t) = Map!MaybeResize(t)
BY DEF Set!MaybeResize, Map!MaybeResize, Set!OffSize, Map!OffSize, Set!Rehash, Map!Rehash,
       Set!Blank, Map!Blank, Set!Bits, Map!Bits, Set!Power, Map!Power, Set!MinShift, Map!MinShift,
       Set!FirstStop, Map!FirstStop, Set!Vacant, Map!Vacant, Set!Probe, Map!Probe,
       Set!PrimeMod, Map!PrimeMod, Set!Size, Map!Size, Set!Real, Map!Real, Set!None, Map!None,
       Set!Unused, Map!Unused

\* The set iterates as the map does.
LEMMA SameIterators ==
  /\ \A t : Set!Entries(t) = Map!Entries(t) /\ Set!Iterated(t) = Map!Iterated(t)
  /\ \A t : Set!Size(t) = Map!Size(t)
BY DEF Set!Entries, Map!Entries, Set!Real, Map!Real, Set!Following, Map!Following,
       Set!None, Map!None, Set!Iterated, Map!Iterated, Set!Size, Map!Size

\* The set puts in and removes as the map does.
LEMMA SameChanges ==
  /\ Set!Empty = Map!Empty
  /\ \A p, key : Set!Enter(p, key) = Map!Put(set, p, key, Null)
  /\ \A p : Set!Resize([set EXCEPT !.slots[p] = Set!Tombstone, !.count = @ - 1]) = Map!Erect(set, p)
  /\ \A p, key : Set!Hides(set, p, key) <=> Map!Hides(set, p, key)
<1>1. Set!Empty = Map!Empty
  BY DEF Set!Empty, Map!Empty, Set!Blank, Map!Blank, Set!MinShift, Map!MinShift,
         Set!Power, Map!Power, Set!Unused, Map!Unused
<1>2. \A key : Set!HashGet(key) = Map!HashGet(key)
  BY DEF Set!HashGet, Map!HashGet
<1>3. Set!Tombstone = Map!Tombstone
  BY DEF Set!Tombstone, Map!Tombstone
<1>4. \A p, key : Set!Enter(p, key) = Map!Put(set, p, key, Null)
  BY <1>2, SameResize DEF Set!Enter, Map!Put, Set!Resize
<1>5. \A p : Set!Resize([set EXCEPT !.slots[p] = Set!Tombstone, !.count = @ - 1])
         = Map!Erect(set, p)
  BY <1>3, SameResize DEF Set!Resize, Map!Erect
<1>6. \A p, key : Set!Hides(set, p, key) <=> Map!Hides(set, p, key)
  BY SameSearches DEF Set!Hides, Map!Hides
<1> QED  BY <1>1, <1>4, <1>5, <1>6

\* The set after a key that it did not have was put in.
LEMMA SetInsertKeeps ==
  ASSUME SetInv, NEW key \in Keys, NEW replace \in BOOLEAN,
         NEW p, p = Map!FindToInsert(set, key, replace), p # Map!None,
         replace => ~Map!Real(set.slots[p]),
         key \notin held, set' = Map!Put(set, p, key, Null),
         held' = held \union {key}, members' = members \union {NameOf[key]},
         repeated' = (repeated \/ Map!Hides(set, p, key))
  PROVE  SetInv'
<1>1. Sound(set, {Null}) /\ key \notin KeysOf(set) /\ Null \in {Null}
  BY DEF SetInv
<1>2. /\ Sound(set', {Null})
      /\ \A x : x \in Held(set') <=> x \in Held(set) \/ x = EntryOf(key, Null)
      /\ ~Map!Hides(set, p, key) => NameOf[key] \notin NamesOf(set)
  BY <1>1, PutChanges
<1>3. /\ \A k : k \in KeysOf(set') <=> k \in KeysOf(set) \/ k = key
      /\ \A n : n \in NamesOf(set') <=> n \in NamesOf(set) \/ n = NameOf[key]
      /\ Single(set) /\ NameOf[key] \notin NamesOf(set) => Single(set')
  <2>1. CameIn(set, set', key)
    BY <1>2, KeysPut
  <2> QED  BY <2>1 DEF CameIn
<1>4. \A k : k \in held' <=> k \in KeysOf(set')
  BY <1>3 DEF SetInv
<1>5. ~repeated' => Single(set') /\ \A n : n \in members' <=> n \in NamesOf(set')
  BY <1>2, <1>3 DEF SetInv
<1> QED  BY <1>2, <1>4, <1>5 DEF SetInv

\* The set after an upsert replaced a key.
LEMMA SetReplaceKeeps ==
  ASSUME SetInv, NEW key \in Keys,
         NEW p, p = Map!FindToInsert(set, key, TRUE), Map!Real(set.slots[p]),
         key \notin held, set' = [set EXCEPT !.slots[p].key = key],
         held' = (held \ {set.slots[p].key}) \union {key},
         members' = members \union {NameOf[key]}, ~repeated' => ~repeated
  PROVE  SetInv'
<1> DEFINE old == set.slots[p]
<1>1. Sound(set, {Null}) /\ key \notin KeysOf(set) /\ Null \in {Null}
  BY DEF SetInv
<1>2. /\ p \in Entries(set) /\ old \in Held(set) /\ NameOf[old.key] = NameOf[key]
      /\ old = EntryOf(old.key, old.value)
      /\ Sound(Filled(set, p, EntryOf(key, Null)), {Null})
      /\ \A x : x \in Held(Filled(set, p, EntryOf(key, Null))) <=>
                  (x \in Held(set) /\ x # old) \/ x = EntryOf(key, Null)
  <2>1. Replaced(set, {Null}, p, key, Null)
    BY <1>1, ReplaceChanges
  <2> QED  BY <2>1 DEF Replaced
<1>3. set' = Filled(set, p, EntryOf(key, Null))
  <2>1. /\ set \in [shift : Nat, size : Nat, slots : [0 .. set.size - 1 -> Slot({Null})],
                    count : Nat, used : Nat]
        /\ p \in 0 .. set.size - 1
    BY <1>1, <1>2 DEF Sound, Core, Shaped, Entries
  <2>2. old.value = Null
    <3>1. \A x \in Held(set) : x.value \in {Null}
      BY <1>1, HeldIs
    <3> QED  BY <1>2, <3>1
  <2>3. [old EXCEPT !.key = key] = EntryOf(key, Null)
    <3>1. Map!HashGet(old.key) = Map!HashGet(key)
      BY <1>2 DEF Map!HashGet
    <3> HIDE DEF old
    <3>2. old = [hash |-> Map!HashGet(key), key |-> old.key, value |-> Null]
      BY <1>2, <2>2, <3>1 DEF EntryOf
    <3>3. EntryOf(key, Null) = [hash |-> Map!HashGet(key), key |-> key, value |-> Null]
      BY DEF EntryOf
    <3> QED  BY <3>2, <3>3
  <2>4. set' = [set EXCEPT !.slots[p] = [old EXCEPT !.key = key]]
    BY <2>1
  <2> QED  BY <2>3, <2>4 DEF Filled
<1>4. /\ Sound(set', {Null})
      /\ \A x : x \in Held(set') <=> (x \in Held(set) /\ x # old) \/ x = EntryOf(key, Null)
  BY <1>2, <1>3
<1> HIDE DEF old
<1>5. /\ \A k : k \in KeysOf(set') <=> (k \in KeysOf(set) /\ k # old.key) \/ k = key
      /\ \A n : n \in NamesOf(set') <=> n \in NamesOf(set)
      /\ Single(set) => Single(set')
      /\ Single(set) => \A x \in Held(set) : x # old => NameOf[x.key] # NameOf[key]
  <2>1. old \in Held(set) /\ NameOf[old.key] = NameOf[key]
    BY <1>2
  <2>2. \A x : x \in Held(set') <=> (x \in Held(set) /\ x # old) \/ x = EntryOf(key, Null)
    BY <1>4
  <2>3. TookPlace(set, set', key, old)
    BY <1>1, <2>1, <2>2, KeysReplaced
  <2> QED  BY <2>3 DEF TookPlace
<1>6. \A k : k \in held' <=> k \in KeysOf(set')
  BY <1>5 DEF SetInv, old
<1>7. NameOf[key] \in NamesOf(set)
  BY <1>2 DEF NamesOf
<1>8. ~repeated' => Single(set') /\ \A n : n \in members' <=> n \in NamesOf(set')
  BY <1>5, <1>7 DEF SetInv
<1> QED  BY <1>4, <1>6, <1>8 DEF SetInv

\* The set after a key was removed or extracted.
LEMMA SetRemoveKeeps ==
  ASSUME SetInv, NEW key \in Keys, Set!Leave(key)
  PROVE  SetInv'
<1> DEFINE p == Map!Find(set, key)
           old == set.slots[p]
<1>1. Sound(set, {Null})
  BY DEF SetInv
<1>2. /\ p # Map!None /\ set' = Map!Erect(set, p) /\ held' = held \ {old.key}
      /\ members' = members \ {NameOf[key]} /\ repeated' = repeated
  BY SameSearches, SameChanges DEF Set!Leave, Set!RemovePositionFind
<1>3. /\ p \in Entries(set) /\ old \in Held(set) /\ NameOf[old.key] = NameOf[key]
      /\ Sound(set', {Null})
      /\ \A x : x \in Held(set') <=> x \in Held(set) /\ x # old
  BY <1>1, <1>2, RemoveChanges
<1> HIDE DEF p, old
<1>4. /\ \A k : k \in KeysOf(set') <=> k \in KeysOf(set) /\ k # old.key
      /\ Single(set) =>
           /\ Single(set')
           /\ \A n : n \in NamesOf(set') <=> n \in NamesOf(set) /\ n # NameOf[old.key]
  <2>1. Left(set, set', old)
    BY <1>1, <1>3, KeysRemoved
  <2> QED  BY <2>1 DEF Left
<1>5. \A k : k \in held' <=> k \in KeysOf(set')
  BY <1>2, <1>4 DEF SetInv
<1>6. ~repeated' => Single(set') /\ \A n : n \in members' <=> n \in NamesOf(set')
  BY <1>2, <1>3, <1>4 DEF SetInv
<1> QED  BY <1>3, <1>5, <1>6 DEF SetInv

\* Tables that nothing has been put in.
LEMMA EmptyHas ==
  ASSUME NEW W
  PROVE  /\ Sound(Map!Empty, W) /\ Single(Map!Empty)
         /\ \A x : /\ x \notin Held(Map!Empty) /\ x \notin KeysOf(Map!Empty)
                /\ x \notin NamesOf(Map!Empty)
BY EmptyIs DEF Single, KeysOf, NamesOf

\* Every operation of the map keeps the invariant.
LEMMA MapStep ==
  ASSUME MapInv, [Map!Next]_(Map!vars) PROVE MapInv'
<1>1. CASE UNCHANGED Map!vars
  BY <1>1 DEF Map!vars, MapInv
<1>2. ASSUME NEW key \in Keys, NEW value \in Values, Map!Insert(key, value) PROVE MapInv'
  <2>1. /\ key \notin owned /\ Map!FindToInsert(table, key, FALSE) # Map!None
        /\ table' = Map!Put(table, Map!FindToInsert(table, key, FALSE), key, value)
        /\ owned' = owned \union {key} /\ content' = Map!Bound(NameOf[key], value)
        /\ doubled' = (doubled \/ Map!Hides(table, Map!FindToInsert(table, key, FALSE), key))
    BY <1>2 DEF Map!Insert
  <2> QED  BY <2>1, MapInsertKeeps
<1>3. ASSUME NEW key \in Keys, NEW value \in Values, Map!Upsert(key, value) PROVE MapInv'
  <2> DEFINE p == Map!FindToInsert(table, key, TRUE)
  <2>1. /\ key \notin owned /\ p # Map!None
        /\ content' = Map!Bound(NameOf[key], value)
        /\ doubled' = (doubled \/ Map!Hides(table, p, key))
        /\ IF Map!Real(table.slots[p])
           THEN /\ table' = [table EXCEPT !.slots[p].key = key, !.slots[p].value = value]
                /\ owned' = (owned \ {table.slots[p].key}) \union {key}
           ELSE table' = Map!Put(table, p, key, value) /\ owned' = owned \union {key}
    BY <1>3 DEF Map!Upsert
  <2>2. ~doubled' => ~doubled
    BY <2>1
  <2>3. CASE Map!Real(table.slots[p])
    BY <2>1, <2>2, <2>3, MapReplaceKeeps
  <2>4. CASE ~Map!Real(table.slots[p])
    BY <2>1, <2>4, MapInsertKeeps
  <2> QED  BY <2>3, <2>4
<1>4. ASSUME NEW key \in Keys, Map!Remove(key) \/ Map!Extract(key) PROVE MapInv'
  BY <1>4, MapRemoveKeeps DEF Map!Remove, Map!Extract
<1>5. CASE Map!Clear
  BY <1>5, EmptyHas DEF Map!Clear, MapInv
<1> QED  BY <1>1, <1>2, <1>3, <1>4, <1>5 DEF Map!Next

\* Every operation of the set keeps the invariant.
LEMMA SetStep ==
  ASSUME SetInv, [Set!Next]_(Set!setVars) PROVE SetInv'
<1>1. CASE UNCHANGED Set!setVars
  BY <1>1 DEF Set!setVars, SetInv
<1>2. ASSUME NEW key \in Keys, Set!Insert(key) PROVE SetInv'
  <2>1. /\ key \notin held /\ Map!FindToInsert(set, key, FALSE) # Map!None
        /\ set' = Map!Put(set, Map!FindToInsert(set, key, FALSE), key, Null)
        /\ held' = held \union {key} /\ members' = members \union {NameOf[key]}
        /\ repeated' = (repeated \/ Map!Hides(set, Map!FindToInsert(set, key, FALSE), key))
    BY <1>2, SameSearches, SameChanges DEF Set!Insert, Set!InsertPositionFind
  <2> QED  BY <2>1, SetInsertKeeps
<1>3. ASSUME NEW key \in Keys, Set!Upsert(key) PROVE SetInv'
  <2> DEFINE p == Map!FindToInsert(set, key, TRUE)
  <2>1. /\ key \notin held /\ p # Map!None
        /\ members' = members \union {NameOf[key]}
        /\ repeated' = (repeated \/ Map!Hides(set, p, key))
        /\ IF Map!Real(set.slots[p])
           THEN /\ set' = [set EXCEPT !.slots[p].key = key]
                /\ held' = (held \ {set.slots[p].key}) \union {key}
           ELSE set' = Map!Put(set, p, key, Null) /\ held' = held \union {key}
    BY <1>3, SameSearches, SameChanges DEF Set!Upsert, Set!InsertPositionFind
  <2>2. ~repeated' => ~repeated
    BY <2>1
  <2>3. CASE Map!Real(set.slots[p])
    BY <2>1, <2>2, <2>3, SetReplaceKeeps
  <2>4. CASE ~Map!Real(set.slots[p])
    BY <2>1, <2>4, SetInsertKeeps
  <2> QED  BY <2>3, <2>4
<1>4. ASSUME NEW key \in Keys, Set!Remove(key) \/ Set!Extract(key) PROVE SetInv'
  BY <1>4, SetRemoveKeeps DEF Set!Remove, Set!Extract
<1>5. CASE Set!Clear
  BY <1>5, EmptyHas, SameChanges DEF Set!Clear, SetInv
<1>6. SetKeys \subseteq Keys
  BY KeysAssumption
<1> QED  BY <1>1, <1>2, <1>3, <1>4, <1>5, <1>6 DEF Set!Next

\* The cardinality of the modules is that of the library.
LEMMA CardinalityIs ==
  \A S : Map!Cardinality(S) = Cardinality(S) /\ Set!Cardinality(S) = Cardinality(S)
BY DEF Map!Cardinality, Set!Cardinality, Cardinality

\* The invariant says what the map promises.
LEMMA MapSound == MapInv => Map!TableInv /\ Map!MapAgreesUndoubled
<1> SUFFICES ASSUME MapInv PROVE Map!TableInv /\ Map!MapAgreesUndoubled
  OBVIOUS
<1>1. /\ Sound(table, Values) /\ Core(table, Values) /\ Shaped(table, Values)
      /\ Counted(table) /\ Roomy(table)
  BY DEF MapInv, Sound, Core
<1>2. /\ Map!Size(table) = table.size /\ DOMAIN table.slots = 0 .. table.size - 1
      /\ Map!Entries(table) = Entries(table)
  BY <1>1, SizeIs, EntriesAre
<1>3. Map!TableInv
  <2>1. table.slots \in [0 .. Map!Size(table) - 1 ->
          [hash : Nat \ {0, 1}, key : Keys, value : Values] \union {Map!Unused, Map!Tombstone}]
    BY <1>1, <1>2 DEF Shaped, Slot
  <2>2. table.count = Map!Cardinality(Map!Entries(table))
    BY <1>1, <1>2, CardinalityIs DEF Counted
  <2>3. table.used = Map!Cardinality({i \in DOMAIN table.slots : table.slots[i].hash > 0})
    BY <1>1, <1>2, CardinalityIs DEF Counted, Marked
  <2>4. /\ table.used + (Map!Size(table) \div 4) <= Map!Size(table)
        /\ Map!Size(table) = Map!Power[Map!MinShift] \/ Map!Size(table) <= 4 * table.count
    <3>1. /\ Pow[0] = 1 /\ Pow[0 + 1] = 2 * Pow[0]
          /\ Pow[1 + 1] = 2 * Pow[1] /\ Pow[2 + 1] = 2 * Pow[2]
      BY PowIs
    <3>2. Map!Power[Map!MinShift] = 8
      BY <3>1, PrimesThere DEF Pow
    <3> QED  BY <1>1, <1>2, <3>2 DEF Roomy
  <2>5. owned = {table.slots[i].key : i \in Map!Entries(table)}
    <3> DEFINE keys == {table.slots[i].key : i \in Map!Entries(table)}
    <3>1. \A k : k \in keys <=> k \in KeysOf(table)
      BY <1>1, AnswersAre
    <3> HIDE DEF keys
    <3>2. owned = keys
      BY <3>1 DEF MapInv
    <3> QED  BY <3>2 DEF keys
  <2> QED  BY <2>1, <2>2, <2>3, <2>4, <2>5 DEF Map!TableInv
<1>4. ASSUME ~doubled PROVE Map!MapAgrees
  <2>1. /\ Single(table) /\ \A n : n \in DOMAIN content <=> n \in NamesOf(table)
        /\ \A x \in Held(table) : content[NameOf[x.key]] = x.value
    BY <1>4 DEF MapInv
  <2>2. DOMAIN content = NamesOf(table)
    BY <2>1
  <2>3. table.count = Map!Cardinality(DOMAIN content)
    <3>1. table.count = Cardinality(NamesOf(table))
      BY <1>1, <2>1, AnswersAre
    <3> QED  BY <2>2, <3>1, CardinalityIs
  <2>4. ASSUME NEW key \in Keys
        PROVE  /\ Map!ValueGet(key) = IF NameOf[key] \in DOMAIN content
                                      THEN content[NameOf[key]] ELSE Null
               /\ NameOf[key] \notin DOMAIN content =>
                     Map!FindToInsert(table, key, FALSE) # Map!None
    <3> DEFINE p == Map!Find(table, key)
    <3>1. /\ p # Map!None <=> NameOf[key] \in DOMAIN content
          /\ p # Map!None => p \in Entries(table) /\ NameOf[table.slots[p].key] = NameOf[key]
          /\ NameOf[key] \notin DOMAIN content => Map!FindToInsert(table, key, FALSE) # Map!None
      BY <1>1, <2>2, AnswersAre
    <3>2. p # Map!None => table.slots[p] \in Held(table)
      BY <3>1 DEF Held
    <3>3. Map!ValueGet(key) = IF p = Map!None THEN Null ELSE table.slots[p].value
      BY DEF Map!ValueGet
    <3> HIDE DEF p
    <3> QED  BY <2>1, <3>1, <3>2, <3>3
  <2>5. {NameOf[Map!Iterated(table)[i]] : i \in DOMAIN Map!Iterated(table)} = DOMAIN content
    <3> DEFINE names == {NameOf[Map!Iterated(table)[i]] : i \in DOMAIN Map!Iterated(table)}
    <3>1. \A n : n \in names <=> n \in NamesOf(table)
      BY <1>1, AnswersAre
    <3> HIDE DEF names
    <3>2. names = DOMAIN content
      BY <2>2, <3>1
    <3> QED  BY <3>2 DEF names
  <2> QED  BY <2>3, <2>4, <2>5 DEF Map!MapAgrees
<1> QED  BY <1>3, <1>4 DEF Map!MapAgreesUndoubled

\* The invariant says what the set promises.
LEMMA SetSound == SetInv => Set!SetAgrees
<1> SUFFICES ASSUME SetInv PROVE Set!SetAgrees
  OBVIOUS
<1>1. /\ Sound(set, {Null}) /\ Core(set, {Null}) /\ Shaped(set, {Null})
      /\ Counted(set) /\ Roomy(set)
  BY DEF SetInv, Sound, Core
<1>2. /\ Set!Size(set) = set.size /\ DOMAIN set.slots = 0 .. set.size - 1
      /\ Set!Entries(set) = Map!Entries(set)
  BY <1>1, SizeIs, SameIterators
<1>3. held = {set.slots[i].key : i \in Set!Entries(set)}
  <2> DEFINE keys == {set.slots[i].key : i \in Map!Entries(set)}
  <2>1. \A k : k \in keys <=> k \in KeysOf(set)
    BY <1>1, AnswersAre
  <2> HIDE DEF keys
  <2>2. held = keys
    BY <2>1 DEF SetInv
  <2> QED  BY <1>2, <2>2 DEF keys
<1>4. set.used = Set!Cardinality({i \in DOMAIN set.slots : set.slots[i].hash > 0})
  BY <1>1, <1>2, CardinalityIs DEF Counted, Marked
<1>5. set.used + (Set!Size(set) \div 4) <= Set!Size(set)
  BY <1>1, <1>2 DEF Roomy
<1>6. ASSUME ~repeated
      PROVE  /\ set.count = Set!Cardinality(members)
             /\ \A key \in SetKeys :
                   /\ Set!Contains(key) <=> NameOf[key] \in members
                   /\ NameOf[key] \notin members =>
                         Set!InsertPositionFind(key, FALSE) # Set!None
             /\ {NameOf[Set!Iterated(set)[i]] : i \in DOMAIN Set!Iterated(set)} = members
  <2>1. Single(set) /\ \A n : n \in members <=> n \in NamesOf(set)
    BY <1>6 DEF SetInv
  <2>2. members = NamesOf(set)
    BY <2>1
  <2>3. set.count = Set!Cardinality(members)
    <3>1. set.count = Cardinality(NamesOf(set))
      BY <1>1, <2>1, AnswersAre
    <3> QED  BY <2>2, <3>1, CardinalityIs
  <2>4. ASSUME NEW key \in SetKeys
        PROVE  /\ Set!Contains(key) <=> NameOf[key] \in members
               /\ NameOf[key] \notin members => Set!InsertPositionFind(key, FALSE) # Set!None
    <3>1. key \in Keys
      BY KeysAssumption
    <3>2. /\ Map!Find(set, key) # Map!None <=> NameOf[key] \in members
          /\ NameOf[key] \notin members => Map!FindToInsert(set, key, FALSE) # Map!None
      BY <1>1, <2>2, <3>1, AnswersAre
    <3> QED  BY <3>2, SameSearches DEF Set!Contains, Set!RemovePositionFind, Set!InsertPositionFind
  <2>5. {NameOf[Set!Iterated(set)[i]] : i \in DOMAIN Set!Iterated(set)} = members
    <3> DEFINE names == {NameOf[Map!Iterated(set)[i]] : i \in DOMAIN Map!Iterated(set)}
    <3>1. \A n : n \in names <=> n \in NamesOf(set)
      BY <1>1, AnswersAre
    <3>2. Set!Iterated(set) = Map!Iterated(set)
      BY SameIterators
    <3> HIDE DEF names
    <3>3. names = members
      BY <2>2, <3>1
    <3> QED  BY <3>2, <3>3 DEF names
  <2> QED  BY <2>3, <2>4, <2>5
<1> QED  BY <1>3, <1>4, <1>5, <1>6 DEF Set!SetAgrees

\* For any keys, equal or not, any hashes and any order of calls, the map and the set count,
\* find and iterate over what was put in and not taken out, own the key objects in their
\* tables and no others, and have room for one more, as long as no key was put in a tombstone
\* before its own slot.
THEOREM TablesSound == Map!Spec /\ Set!Spec => []TablesAgree
<1>1. Map!Init /\ Set!Init => MapInv /\ SetInv
  <2> SUFFICES ASSUME Map!Init, Set!Init PROVE MapInv /\ SetInv
    OBVIOUS
  <2>1. table = Map!Empty /\ owned = {} /\ content = <<>>
    BY DEF Map!Init
  <2>2. set = Map!Empty /\ held = {} /\ members = {}
    BY SameChanges DEF Set!Init
  <2>3. DOMAIN content = {}
    BY <2>1
  <2>4. MapInv
    BY <2>1, <2>3, EmptyHas DEF MapInv
  <2>5. SetInv
    BY <2>2, EmptyHas DEF SetInv
  <2> QED  BY <2>4, <2>5
<1>2. MapInv /\ SetInv /\ [Map!Next]_(Map!vars) /\ [Set!Next]_(Set!setVars) => (MapInv /\ SetInv)'
  BY MapStep, SetStep
<1>3. MapInv /\ SetInv => TablesAgree
  BY MapSound, SetSound DEF TablesAgree
<1> QED  BY <1>1, <1>2, <1>3, PTL DEF Map!Spec, Set!Spec
===============================================================================

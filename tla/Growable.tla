-------------------------------- MODULE Growable --------------------------------
(***************************************************************************)
(* Memory that grows with its content: collections/dynamic-array.c,        *)
(* collections/fast-array.c, storage/dynamic-buffer.c and                  *)
(* storage/dynamic-string.c.  A block is the memory that was allocated,    *)
(* the size that is kept for it and the number of items in use; elements   *)
(* and bytes are items.  Memory does not run out.                          *)
(***************************************************************************)
EXTENDS HashCommon, Sequences

CONSTANTS
    Items,
    Junk,      \* what memory holds before it is written
    Zero,      \* the byte that ends a string
    Time,      \* what AppendTime writes
    MaxItems   \* bound of the model: items in a block

Pieces == UNION {[1 .. n -> Items] : n \in 0 .. 2}

Allocated(n) == [memory |-> [i \in 1 .. n |-> Junk], size |-> n, used |-> 0]
Released == Allocated(0)

\* realloc
Realloc(block, room, size) ==
    [block EXCEPT !.size = size,
                  !.memory = [i \in 1 .. room |-> IF i <= Len(@) THEN @[i] ELSE Junk]]

Content(block) == SubSeq(block.memory, 1, block.used)

\* A copy of the piece from an offset on; what is past the memory is lost, and counted.
Put(block, offset, piece) ==
    [block EXCEPT !.memory = [i \in 1 .. Len(@) |->
        IF i \in offset + 1 .. offset + Len(piece) THEN piece[i - offset] ELSE @[i]]]

Extend(block, piece) ==
    [Put(block, block.used, piece) EXCEPT !.used = block.used + Len(piece)]

------------------------------------------------------------------------ \* arrays
\* The size that Resize gives an array: a power of two above the index.
Capacity(index) == Power[Bits(index + 1)]

Resize(block, index) ==
    IF Capacity(index) = block.size THEN block
    ELSE Realloc(block, Capacity(index), Capacity(index))

Fitted(block, count) == IF count <= block.size THEN block ELSE Resize(block, count)

VARIABLES
    array, listed,   \* a swDynamicArray, and history: the elements that it should hold
    fast, quick,     \* a swFastArray, the same
    buffer, bytes,   \* a swDynamicBuffer
    overstated,      \* history: whether the size of the buffer was set past its memory
    string, text     \* a swDynamicString, which keeps a zero after its bytes

arrayVars == <<array, listed>>
fastVars == <<fast, quick>>
bufferVars == <<buffer, bytes, overstated>>
stringVars == <<string, text>>
vars == <<arrayVars, fastVars, bufferVars, stringVars>>

Init == /\ array = Released /\ fast = Released /\ buffer = Released /\ string = Released
        /\ listed = <<>> /\ quick = <<>> /\ bytes = <<>> /\ text = <<>>
        /\ overstated = FALSE

Becomes(block, elements) == array' = block /\ listed' = elements

ArrayClear == Becomes([array EXCEPT !.used = 0], <<>>)
ArraySetFromStatic(piece) == piece # <<>> /\ Becomes(Extend(Allocated(Len(piece)), piece), piece)
ArrayEnsureCapacity(n) ==
    /\ n > 0 /\ array.used <= n /\ (array.size < n \/ array.used < n)
    /\ Becomes(Resize(array, n), listed)
ArrayAppendStatic(piece) ==
    /\ array.used + Len(piece) <= MaxItems
    /\ Becomes(Extend(Fitted(array, array.used + Len(piece)), piece), listed \o piece)

\* Set writes an element that is there or the one after the last.
ArraySet(position, item) ==
    LET count == array.used + IF position = array.used THEN 1 ELSE 0
    IN /\ position <= array.used /\ count <= MaxItems
       /\ Becomes([Put(Fitted(array, count), position, <<item>>) EXCEPT !.used = count],
                  [i \in 1 .. count |-> IF i = position + 1 THEN item ELSE listed[i]])

\* GetNext, once its caller has filled in what it points to, and Push
ArrayGetNext(item) ==
    /\ array.used < MaxItems
    /\ Becomes(Extend(Fitted(array, array.used + 1), <<item>>), listed \o <<item>>)
ArrayPush(item) ==
    /\ array.used < MaxItems
    /\ Becomes(Extend(Fitted(array, array.used + 1), <<item>>), listed \o <<item>>)
ArrayPop ==
    /\ array.used > 0
    /\ Becomes([Fitted(array, array.used - 1) EXCEPT !.used = @ - 1],
               SubSeq(listed, 1, Len(listed) - 1))

ArrayNext ==
    /\ \/ ArrayClear \/ ArrayPop
       \/ \E piece \in Pieces : ArraySetFromStatic(piece) \/ ArrayAppendStatic(piece)
       \/ \E n \in 1 .. MaxItems : ArrayEnsureCapacity(n)
       \/ \E item \in Items : \/ ArrayPush(item) \/ ArrayGetNext(item)
                              \/ \E position \in 0 .. MaxItems : ArraySet(position, item)
    /\ UNCHANGED <<fastVars, bufferVars, stringVars>>

FastBecomes(block, elements) == fast' = block /\ quick' = elements

FastInit(n) == FastBecomes(Allocated(Power[Bits(n)]), <<>>)
FastInitFromArray ==
    /\ fast.size > 0
    /\ LET n == Power[Bits(IF fast.used > 0 THEN fast.used ELSE 8)]
       IN FastBecomes(Extend(Allocated(n), Content(fast)), quick)

\* The size of the elements is cleared too.  Without it an array has no room for any, so it is
\* initialised again before it is pushed to or copied.
FastClear == FastBecomes(Released, <<>>)
FastPush(item) ==
    /\ fast.size > 0 /\ fast.used < MaxItems
    /\ LET roomy == IF fast.size > fast.used THEN fast
                    ELSE Realloc(fast, Capacity(fast.used), Capacity(fast.used))
       IN FastBecomes(Extend(roomy, <<item>>), quick \o <<item>>)
FastPop ==
    /\ fast.used > 0
    /\ FastBecomes([fast EXCEPT !.used = @ - 1], SubSeq(quick, 1, Len(quick) - 1))

\* swFastRemove puts the last element where the removed one was.
FastRemove(i) ==
    /\ i <= fast.used
    /\ FastBecomes([fast EXCEPT !.used = @ - 1, !.memory[i] = fast.memory[fast.used]],
                   SubSeq([quick EXCEPT ![i] = quick[Len(quick)]], 1, Len(quick) - 1))

FastNext ==
    /\ \/ FastClear \/ FastPop \/ FastInitFromArray
       \/ \E n \in 1 .. MaxItems : FastInit(n) \/ FastRemove(n)
       \/ \E item \in Items : FastPush(item)
    /\ UNCHANGED <<arrayVars, bufferVars, stringVars>>

-------------------------------------------------------------- \* buffers and strings
Larger(block, n) == IF block.size < n THEN Realloc(block, n, n) ELSE block

BufferBecomes(block, content) == buffer' = block /\ bytes' = content /\ UNCHANGED overstated

BufferClear == BufferBecomes([buffer EXCEPT !.used = 0], <<>>)
BufferRelease == buffer' = Released /\ bytes' = <<>> /\ overstated' = FALSE
BufferSet(piece) ==
    BufferBecomes([Put(Larger(buffer, Len(piece)), 0, piece) EXCEPT !.used = Len(piece)], piece)
BufferAppendC(piece) ==
    /\ piece # <<>> /\ buffer.used + Len(piece) <= MaxItems
    /\ BufferBecomes(Extend(Larger(buffer, buffer.used + Len(piece)), piece), bytes \o piece)

\* swDynamicBufferAppendStaticString allocates the length and keeps one more as the size.
BufferAppendStatic(piece) ==
    LET length == buffer.used + Len(piece)
        grows == length > buffer.size
    IN /\ length <= MaxItems
       /\ buffer' = Extend(IF grows THEN Realloc(buffer, length, length + 1) ELSE buffer, piece)
       /\ bytes' = bytes \o piece
       /\ overstated' = (grows \/ overstated)
BufferEnsureCapacity(n) == BufferBecomes(Larger(buffer, n), bytes)

BufferNext ==
    /\ \/ BufferClear \/ BufferRelease
       \/ \E piece \in Pieces :
             BufferSet(piece) \/ BufferAppendC(piece) \/ BufferAppendStatic(piece)
       \/ \E n \in 1 .. MaxItems : BufferEnsureCapacity(n)
    /\ UNCHANGED <<arrayVars, fastVars, stringVars>>

StringBecomes(block, content) == string' = block /\ text' = content

\* Mutant: the test for room forgets the zero.
EndedTight(block, offset, piece) ==
    LET end == offset + Len(piece)
        roomy == IF end > block.size THEN Realloc(block, end + 1, end + 1) ELSE block
    IN [Put(roomy, offset, piece \o <<Zero>>) EXCEPT !.used = end]

\* The piece at the offset and a zero after it.
Ended(block, offset, piece) ==
    LET end == offset + Len(piece)
        roomy == IF end >= block.size THEN Realloc(block, end + 1, end + 1) ELSE block
    IN [Put(roomy, offset, piece \o <<Zero>>) EXCEPT !.used = end]

StringClear == StringBecomes([string EXCEPT !.used = 0], <<>>)
StringRelease == StringBecomes(Released, <<>>)
StringEnsureSize(n) == StringBecomes(Larger(string, n), text)
StringSet(piece) == StringBecomes(Ended(string, 0, piece), piece)

\* SetFromFormat does nothing, and fails, when there is room already.
StringSetFromFormat(piece) ==
    /\ piece # <<>> /\ string.size <= Len(piece)
    /\ StringBecomes(Ended(string, 0, piece), piece)
StringAppend(piece) ==
    /\ string.used + Len(piece) <= MaxItems
    /\ StringBecomes(Ended(string, string.used, piece), text \o piece)

\* AppendTime never grows the string.
StringAppendTime ==
    /\ string.size - string.used > Len(Time) /\ string.used + Len(Time) <= MaxItems
    /\ StringBecomes(Ended(string, string.used, Time), text \o Time)

StringNext ==
    /\ \/ StringClear \/ StringRelease \/ StringAppendTime
       \/ \E piece \in Pieces :
             StringSet(piece) \/ StringSetFromFormat(piece) \/ StringAppend(piece)
       \/ \E n \in 1 .. MaxItems + 1 : StringEnsureSize(n)
    /\ UNCHANGED <<arrayVars, fastVars, bufferVars>>

Next == ArrayNext \/ FastNext \/ BufferNext \/ StringNext

Spec == Init /\ [][Next]_vars

-------------------------------------------------------------------------------
Keeps(block, content) == block.used <= Len(block.memory) /\ Content(block) = content

\* Through every growth and shrinkage each block holds, in the memory that it has, the items
\* that were put in and not taken out: the arrays, the fast one after removals in place too;
\* buffers, until AppendStaticString grows one; and strings, whose zero stays behind the
\* last byte whatever is appended or formatted.
ContentKept ==
    /\ Keeps(array, listed) /\ Keeps(fast, quick) /\ Keeps(string, text)
    /\ ~overstated => Keeps(buffer, bytes) /\ buffer.size = Len(buffer.memory)
    /\ text # <<>> => Len(string.memory) > string.used /\ string.memory[string.used + 1] = Zero
===============================================================================

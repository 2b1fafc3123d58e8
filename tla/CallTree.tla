-------------------------------- MODULE CallTree --------------------------------
(***************************************************************************)
(* collections/call-tree.c as tools/trace/build-call-tree.c uses it: the   *)
(* starts and ends of the functions of one thread, read from a trace file, *)
(* become a tree in which a call equal to the one before it is counted     *)
(* there instead of being kept.  A pointer to a node, as the call stack    *)
(* holds them, is the path of positions that leads to it.                  *)
(***************************************************************************)
EXTENDS Integers, SequencesExt

CONSTANTS
    Functions,
    MaxCalls,  \* bound of the model: calls in a trace
    MaxDepth   \* bound of the model: calls that are open

VARIABLES
    tree, stack,
    trace,         \* history: what was read
    misaligned     \* history: whether an end met another function than its own

callVars == <<tree, stack, trace, misaligned>>

Start(function) == <<"start", function>>
End(function) == <<"end", function>>

Node(function, repeat) == [function |-> function, repeat |-> repeat, count |-> 0, children |-> <<>>]

\* Memory of a node that is not in use
Blank == Node(0, 0)

NodeAt(root, path) == FoldLeft(LAMBDA node, i : node.children[i], root, path)

\* The tree with another node at a path
RECURSIVE Changed(_, _, _)
Changed(root, path, node) ==
    IF path = <<>> THEN node
    ELSE [root EXCEPT !.children[path[1]] = Changed(@, Tail(path), node)]

\* swCallTreeAddNext: the children's memory doubles when it is full.
AddNext(parent, function) ==
    LET size == Len(parent.children)
        newSize == IF parent.count < size THEN size ELSE IF size = 0 THEN 1 ELSE 2 * size
        room == [i \in 1 .. newSize |-> IF i <= size THEN parent.children[i] ELSE Blank]
    IN [parent EXCEPT !.count = @ + 1,
                      !.children = [room EXCEPT ![parent.count + 1].function = function,
                                                ![parent.count + 1].repeat = 1]]

\* swCallTreeCompare, which looks at the children in use and not at their memory; the
\* repeats of the two nodes themselves are skipped.
RECURSIVE Same(_, _)
Same(node1, node2) ==
    /\ node1.function = node2.function /\ node1.count = node2.count
    /\ \A i \in 1 .. node1.count :
          /\ node1.children[i].repeat = node2.children[i].repeat
          /\ Same(node1.children[i], node2.children[i])

\* swBuildCallTreeThreadDataNew, with swCallTreeNew for the root
Init == tree = Node(0, 1) /\ stack = <<<<>>>> /\ trace = <<>> /\ misaligned = FALSE

Open == Len(stack) - 1

\* swBuildCallTreeThreadDataAppend of a start
Enter(function) ==
    LET parent == NodeAt(tree, Last(stack))
    IN /\ Len(SelectSeq(trace, LAMBDA event : event[1] = "start")) < MaxCalls
       /\ Open < MaxDepth
       /\ tree' = Changed(tree, Last(stack), AddNext(parent, function))
       /\ stack' = stack \o <<Last(stack) \o <<parent.count + 1>>>>
       /\ trace' = trace \o <<Start(function)>>
       /\ UNCHANGED misaligned

\* Mutant: what is deleted keeps its children.
MergedDirty(parent) ==
    [parent EXCEPT !.count = @ - 1, !.children[parent.count - 1].repeat = @ + 1]

\* The last child becomes a repeat of the one before it, and its memory is cleared.
Merged(parent) ==
    [parent EXCEPT !.count = @ - 1,
                   !.children[parent.count - 1].repeat = @ + 1,
                   !.children[parent.count] = Blank]

\* Its append of an end: the function on the stack returns.
Leave ==
    LET last == NodeAt(tree, Last(stack))
        parent == NodeAt(tree, Last(Front(stack)))
        repeats == parent.count > 1 /\ Same(parent.children[parent.count - 1], last)
    IN /\ Open > 0
       /\ stack' = Front(stack)
       /\ tree' = IF repeats THEN Changed(tree, Last(Front(stack)), Merged(parent)) ELSE tree
       /\ trace' = trace \o <<End(last.function)>>
       /\ UNCHANGED misaligned

\* The end of another function is kept as a call of its own.
LeaveOther(function) ==
    LET last == NodeAt(tree, Last(stack))
    IN /\ Len(SelectSeq(trace, LAMBDA event : event[1] = "start")) < MaxCalls
       /\ Open = 0 \/ last.function # function
       /\ tree' = Changed(tree, Last(stack), AddNext(last, function))
       /\ trace' = trace \o <<Start(function), End(function)>>
       /\ misaligned' = TRUE
       /\ UNCHANGED stack

\* swBuildCallTreeProcessThreadFile: the zero after the last event, or the end of the file,
\* is met, and the next thread has a file of its own.
NextFile ==
    /\ trace # <<>>
    /\ tree' = Node(0, 1) /\ stack' = <<<<>>>> /\ trace' = <<>> /\ misaligned' = FALSE

Next == \/ \E function \in Functions : Enter(function) \/ LeaveOther(function)
        \/ Leave \/ NextFile

Spec == Init /\ [][Next]_callVars

-------------------------------------------------------------------------------
\* swCallTreeWalk from the root, and the line that swBuildCallTreePrintFunction writes.
RECURSIVE Walk(_, _)
Walk(node, level) ==
    FlattenSeq([i \in 1 .. node.count |->
        LET child == node.children[i]
        IN <<[level |-> level, function |-> child.function, repeat |-> child.repeat]>>
              \o Walk(child, level + 1)])

\* What the lines of a file say was called.
RECURSIVE Told(_)
Told(lines) ==
    IF lines = <<>> THEN <<>>
    ELSE LET first == lines[1]
             deeper == {n \in 1 .. Len(lines) : \A i \in 2 .. n : lines[i].level > first.level}
             end == CHOOSE n \in deeper : \A m \in deeper : m <= n
             once == <<Start(first.function)>> \o Told(SubSeq(lines, 2, end))
                        \o <<End(first.function)>>
         IN FlattenSeq([i \in 1 .. first.repeat |-> once]) \o Told(SubSeq(lines, end + 1, Len(lines)))

\* The ends that the thread did not get to.
Unended == [i \in 1 .. Open |-> End(NodeAt(tree, stack[Len(stack) - i + 1]).function)]

\* What build-call-tree prints tells the whole trace, in its order, with calls that were
\* merged at every level and memory of merged calls that was used again; and two equal
\* calls do not stand in a row where every end met its start.
TracePrinted ==
    /\ Told(Walk(tree, 0)) = trace \o Unended
    /\ ~misaligned => \A at \in {SubSeq(Last(stack), 1, n) : n \in 0 .. Open} :
          LET parent == NodeAt(tree, at)
          IN \A i \in 2 .. parent.count : at \o <<i>> \notin ToSet(stack)
                => ~Same(parent.children[i - 1], parent.children[i])
===============================================================================

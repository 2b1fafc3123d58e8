-------------------------------- MODULE EdgeLoop --------------------------------
(***************************************************************************)
(* io/edge-loop.c and the watchers of io/edge-{async,timer,signal,io}.c:   *)
(* an edge-triggered event loop.  swEdgeLoopRun moves what epoll reports   *)
(* into one of two arrays of pending watchers and calls their callbacks;   *)
(* callbacks start and stop watchers, themselves included, and mark        *)
(* watchers as pending in the other array, for the next round.             *)
(*                                                                         *)
(* One thread runs the loop; descriptors become ready at any moment, other *)
(* threads sending to the asynchronous watchers among the causes.  Timers, *)
(* signals and asynchronous watchers have a descriptor that counts, which  *)
(* the loop reads until it is empty; the callback of an I/O watcher reads  *)
(* its own.  A callback returns and does not run the loop.  Memory and     *)
(* descriptors do not run out, so that starting a watcher succeeds.        *)
(***************************************************************************)
EXTENDS Integers, Sequences, FiniteSets

CONSTANTS
    Counters,   \* asynchronous watchers and timers: one read empties the descriptor
    Signals,    \* signal watchers: one read takes one signal
    IOs,        \* I/O watchers
    Events,     \* events of I/O watchers
    Read,       \* EPOLLIN, the only event of a counting descriptor
    Null,       \* an emptied slot of a pending array
    EpollSize,  \* size of epollEvents: the most events one epoll_wait returns
    MaxSends,   \* bound on expirations, signals and sends
    MaxCalls    \* bound on the calls of one callback, and between two runs of the loop

Counting == Counters \union Signals
Watchers == Counting \union IOs

ASSUME EdgeLoopAssumption ==
    /\ Counters \intersect Signals = {} /\ Counting \intersect IOs = {}
    /\ IsFiniteSet(Watchers)
    /\ Read \in Events /\ Null \notin Watchers
    /\ EpollSize \in Nat \ {0} /\ MaxSends \in Nat /\ MaxCalls \in Nat

VARIABLES
    started,        \* watchers with a loop, registered with epoll
    unread,         \* what a counting descriptor holds
    ready,          \* the kernel's ready list: edges not reported yet
    pendingEvents,  \* watcher->pendingEvents
    place,          \* watcher->pendingArray and watcher->pendingPosition, from 1
    pending,        \* loop->pendingEvents: the two arrays
    currentPending, \* loop->currentPending
    pc,             \* where swEdgeLoopRun is; "out" when it does not run
    slot,           \* i of the second pass, from 1
    run, once, shutdown,
    owed,           \* history: events of I/O watchers their callback has yet to see
    ownOwed,        \* history: the same for what a callback marked on itself
    sends,          \* history: how often counting descriptors were raised
    calls           \* history: how many calls the running callback has made

descriptors == <<started, unread, ready>>
queues == <<pendingEvents, place, pending>>
flags == <<run, once, shutdown>>
history == <<owed, ownOwed, sends>>
vars == <<descriptors, queues, currentPending, pc, slot, flags, history, calls>>

last == 1 - currentPending
running == pending[last][slot]

\* A callback, or the program between two runs of the loop, makes a call.
Calling ==
    /\ pc \in {"out", "callback"}
    /\ calls < MaxCalls /\ calls' = calls + 1

Init ==
    /\ started = {}
    /\ unread = [w \in Counting |-> 0]
    /\ ready = [w \in Watchers |-> {}]
    /\ pendingEvents = [w \in Watchers |-> {}]
    /\ place = [w \in Watchers |-> [array |-> 0, position |-> 1]]
    /\ pending = [a \in 0 .. 1 |-> <<>>]
    /\ currentPending = 0
    /\ pc = "out" /\ slot = 1
    /\ run = FALSE /\ once = FALSE /\ shutdown = FALSE
    /\ owed = [w \in IOs |-> {}] /\ ownOwed = [w \in IOs |-> {}]
    /\ sends = 0 /\ calls = 0

-------------------------------------------------------------------------------
(* What happens to the descriptors.                                        *)

\* A timer expires, a signal arrives, another thread calls swEdgeAsyncSend.
Raise(w) ==
    /\ w \in Counting \intersect started /\ sends < MaxSends
    /\ sends' = sends + 1
    /\ unread' = [unread EXCEPT ![w] = @ + 1]
    /\ ready' = [ready EXCEPT ![w] = {Read}]
    /\ UNCHANGED <<started, queues, currentPending, pc, slot, flags, owed, ownOwed,
                   calls>>

\* The descriptor of an I/O watcher becomes ready for an event.
Edge(w, e) ==
    /\ w \in IOs \intersect started
    /\ ready' = [ready EXCEPT ![w] = @ \union {e}]
    /\ owed' = [owed EXCEPT ![w] = @ \union {e}]
    /\ UNCHANGED <<started, unread, queues, currentPending, pc, slot, flags, ownOwed,
                   sends, calls>>

-------------------------------------------------------------------------------
(* What callers do, in a callback or while the loop does not run.          *)

\* A watcher is added: its descriptor may be ready for some events.
WatcherAdd(w, found) ==
    /\ started' = started \union {w}
    /\ ready' = [ready EXCEPT ![w] = found]
    /\ owed' = IF w \in IOs THEN [owed EXCEPT ![w] = found] ELSE owed

\* swEdgeAsyncStart and swEdgeSignalStart make a new descriptor, which is empty; a
\* signal watcher blocks its signals first.
AsyncStart(w) ==
    /\ Calling /\ w \in Counters \ started
    /\ WatcherAdd(w, {})
    /\ UNCHANGED <<unread, queues, currentPending, pc, slot, flags, ownOwed, sends>>

SignalStart(w) ==
    /\ Calling /\ w \in Signals \ started
    /\ WatcherAdd(w, {})
    /\ UNCHANGED <<unread, queues, currentPending, pc, slot, flags, ownOwed, sends>>

\* swEdgeIOStart: the descriptor is the caller's.
IOStart(w) ==
    /\ Calling /\ w \in IOs \ started
    /\ \E found \in SUBSET Events : WatcherAdd(w, found)
    /\ UNCHANGED <<unread, queues, currentPending, pc, slot, flags, ownOwed, sends>>

\* Mutant: swEdgeLoopWatcherRemove leaves the watcher in its slot.
WatcherRemoveKept(w) ==
    /\ pendingEvents' = [pendingEvents EXCEPT ![w] = {}]
    /\ UNCHANGED pending

\* swEdgeLoopWatcherRemove: a pending watcher is taken out of its slot.
WatcherRemove(w) ==
    IF pendingEvents[w] # {} /\ place[w].position <= Len(pending[place[w].array])
    THEN /\ pending' = [pending EXCEPT ![place[w].array][place[w].position] = Null]
         /\ pendingEvents' = [pendingEvents EXCEPT ![w] = {}]
    ELSE UNCHANGED <<pending, pendingEvents>>

\* swEdgeTimerStart, which may start a timer anew: setting it forgets the expirations
\* nobody has read.
TimerStart(w) ==
    /\ Calling /\ w \in Counters
    /\ IF w \in started THEN WatcherRemove(w) ELSE UNCHANGED <<pending, pendingEvents>>
    /\ WatcherAdd(w, {})
    /\ unread' = [unread EXCEPT ![w] = 0]
    /\ UNCHANGED <<place, currentPending, pc, slot, flags, ownOwed, sends>>

\* A watcher is removed, and its descriptor closed, disarmed or given back.
Forget(w) ==
    /\ Calling /\ w \in started
    /\ started' = started \ {w}
    /\ WatcherRemove(w)
    /\ ready' = [ready EXCEPT ![w] = {}]
    /\ UNCHANGED <<place, currentPending, pc, slot, flags, sends>>

\* swEdgeAsyncStop and swEdgeTimerStop
AsyncStop(w) ==
    /\ w \in Counters /\ Forget(w)
    /\ unread' = [unread EXCEPT ![w] = 0]
    /\ UNCHANGED <<owed, ownOwed>>

SignalStop(w) ==
    /\ w \in Signals /\ Forget(w)
    /\ unread' = [unread EXCEPT ![w] = 0]
    /\ UNCHANGED <<owed, ownOwed>>

IOStop(w) ==
    /\ w \in IOs /\ Forget(w)
    /\ owed' = [owed EXCEPT ![w] = {}] /\ ownOwed' = [ownOwed EXCEPT ![w] = {}]
    /\ UNCHANGED unread

\* swEdgeIOEventSet and swEdgeIOEventUnSet through swEdgeLoopWatcherModify: epoll
\* reports anew what the descriptor is ready for among the events that are left.
Modify(w) ==
    /\ Calling /\ w \in IOs \intersect started
    /\ \E found \in SUBSET Events :
         /\ ready' = [ready EXCEPT ![w] = found]
         /\ owed' = [owed EXCEPT ![w] = (@ \ ready[w]) \union found]
    /\ UNCHANGED <<started, unread, queues, currentPending, pc, slot, flags, ownOwed,
                   sends>>

\* Mutant: it is appended to the other array.
EnqueueOther(w, events) ==
    /\ pending' = [pending EXCEPT ![1 - currentPending] = Append(@, w)]
    /\ place' = [place EXCEPT ![w] = [array |-> 1 - currentPending,
                                      position |-> Len(pending[1 - currentPending]) + 1]]
    /\ pendingEvents' = [pendingEvents EXCEPT ![w] = events]

\* A watcher that is not pending is appended to the current array.
Enqueue(w, events) ==
    /\ pending' = [pending EXCEPT ![currentPending] = Append(@, w)]
    /\ place' = [place EXCEPT ![w] = [array |-> currentPending,
                                      position |-> Len(pending[currentPending]) + 1]]
    /\ pendingEvents' = [pendingEvents EXCEPT ![w] = events]

\* Mutant: the place in the array is not noted.
PendingSetUnplaced(w, events) ==
    /\ Calling /\ w \in IOs \intersect started
    /\ pendingEvents' = [pendingEvents EXCEPT ![w] = @ \union events]
    /\ pending' = IF pendingEvents[w] # {} THEN pending
                  ELSE [pending EXCEPT ![currentPending] = Append(@, w)]
    /\ owed' = [owed EXCEPT ![w] = @ \union events]
    /\ UNCHANGED <<descriptors, place, currentPending, pc, slot, flags, ownOwed, sends>>

\* swEdgeWatcherPendingSet.  The events of the watcher whose callback is running still
\* stand, and what it marks on itself joins them.
PendingSet(w, events) ==
    /\ Calling /\ w \in IOs \intersect started
    /\ IF pendingEvents[w] # {}
       THEN /\ pendingEvents' = [pendingEvents EXCEPT ![w] = @ \union events]
            /\ UNCHANGED <<pending, place>>
       ELSE Enqueue(w, events)
    /\ IF pc = "callback" /\ running = w
       THEN ownOwed' = [ownOwed EXCEPT ![w] = @ \union events] /\ UNCHANGED owed
       ELSE owed' = [owed EXCEPT ![w] = @ \union events] /\ UNCHANGED ownOwed
    /\ UNCHANGED <<descriptors, currentPending, pc, slot, flags, sends>>

\* swEdgeLoopBreak
Break ==
    /\ Calling /\ shutdown' = TRUE
    /\ UNCHANGED <<descriptors, queues, currentPending, pc, slot, run, once, history>>

-------------------------------------------------------------------------------
(* swEdgeLoopRun                                                           *)

\* swEdgeLoopRun(loop, o) is called.
Run(o) ==
    /\ pc = "out"
    /\ run' = TRUE /\ once' = o /\ shutdown' = FALSE
    /\ pc' = "wait"
    /\ calls' = 0
    /\ UNCHANGED <<descriptors, queues, currentPending, slot, history>>

\* The second pass begins if anything is pending, and callers use the other array.
BeginPass(queue) ==
    IF queue = <<>>
    THEN pc' = "end" /\ UNCHANGED currentPending
    ELSE pc' = "slot" /\ currentPending' = 1 - currentPending

Orders(S) == {f \in [1 .. Cardinality(S) -> S] : \A w \in S : \E n \in DOMAIN f : f[n] = w}

\* What one epoll_wait may report.
Reports ==
    LET some == {w \in Watchers : ready[w] # {}}
    IN IF Cardinality(some) <= EpollSize THEN {some}
       ELSE {S \in SUBSET some : Cardinality(S) = EpollSize}

\* The first pass appends those of the reported watchers that are not pending yet.
Fresh(S) == {w \in S : pendingEvents[w] = {}}

\* epoll_wait returns, at the latest when it times out, and the first pass follows.
Wait ==
    /\ pc = "wait"
    /\ \E reported \in Reports : \E order \in Orders(Fresh(reported)) :
         LET queue == pending[currentPending] \o order
         IN /\ pending' = [pending EXCEPT ![currentPending] = queue]
            /\ place' = [w \in Watchers |->
                 IF w \in Fresh(reported)
                 THEN [array |-> currentPending,
                       position |-> CHOOSE n \in DOMAIN queue : queue[n] = w]
                 ELSE place[w]]
            /\ pendingEvents' = [w \in Watchers |->
                 pendingEvents[w] \union IF w \in reported THEN ready[w] ELSE {}]
            /\ ready' = [w \in Watchers |-> IF w \in reported THEN {} ELSE ready[w]]
            /\ BeginPass(queue)
    /\ UNCHANGED <<started, unread, slot, flags, history, calls>>

\* epoll_wait is interrupted: what is pending is still processed, then Run returns.
WaitFails ==
    /\ pc = "wait"
    /\ run' = FALSE
    /\ BeginPass(pending[currentPending])
    /\ UNCHANGED <<descriptors, queues, slot, once, shutdown, history, calls>>

\* Mutant: the slot behind it is skipped as well.
SkipTwo ==
    /\ pc = "slot" /\ slot <= Len(pending[last]) /\ running = Null
    /\ slot' = slot + 2
    /\ UNCHANGED <<descriptors, queues, currentPending, pc, flags, history, calls>>

\* A slot that Stop has emptied is skipped.
SkipEmptied ==
    /\ pc = "slot" /\ slot <= Len(pending[last]) /\ running = Null
    /\ slot' = slot + 1
    /\ UNCHANGED <<descriptors, queues, currentPending, pc, flags, history, calls>>

\* swEdgeLoopIOProcess: the callback gets all the events that are pending.
ProcessIO ==
    /\ pc = "slot" /\ slot <= Len(pending[last]) /\ running \in IOs
    /\ pc' = "callback"
    /\ owed' = [owed EXCEPT ![running] = @ \ pendingEvents[running]]
    /\ ownOwed' = [ownOwed EXCEPT ![running] = @ \ pendingEvents[running]]
    /\ UNCHANGED <<descriptors, queues, currentPending, slot, flags, sends, calls>>

\* swEdgeLoopTimerProcess, swEdgeLoopSignalProcess and swEdgeLoopAsyncProcess: the
\* descriptor is read and the callback gets what was read.
ProcessCounting ==
    /\ pc = "slot" /\ slot <= Len(pending[last]) /\ running \in Counting
    /\ unread[running] > 0
    /\ unread' = [unread EXCEPT ![running] = IF running \in Signals THEN @ - 1 ELSE 0]
    /\ pc' = "callback"
    /\ UNCHANGED <<started, ready, queues, currentPending, slot, flags, history, calls>>

\* Nothing is left to read (EAGAIN): no callback, and the watcher is done.
ProcessDrained ==
    /\ pc = "slot" /\ slot <= Len(pending[last]) /\ running \in Counting
    /\ unread[running] = 0
    /\ pendingEvents' = [pendingEvents EXCEPT ![running] = {}]
    /\ slot' = slot + 1
    /\ UNCHANGED <<descriptors, place, pending, currentPending, pc, flags, history,
                   calls>>

\* The callback returns.  A counting descriptor is read again unless its watcher was
\* stopped; an I/O watcher is done, and all its pending events are forgotten.
Return ==
    /\ pc = "callback" /\ pc' = "slot"
    /\ IF running \in Counting THEN UNCHANGED <<slot, pendingEvents>>
       ELSE /\ slot' = slot + 1
            /\ pendingEvents' = IF running = Null THEN pendingEvents
                                ELSE [pendingEvents EXCEPT ![running] = {}]
    /\ calls' = 0
    /\ UNCHANGED <<descriptors, place, pending, currentPending, flags, history>>

\* All slots were visited: the array is emptied.
EndPass ==
    /\ pc = "slot" /\ slot > Len(pending[last])
    /\ pending' = [pending EXCEPT ![last] = <<>>]
    /\ slot' = 1 /\ pc' = "end"
    /\ UNCHANGED <<descriptors, pendingEvents, place, currentPending, flags, history,
                   calls>>

\* Mutant: Break is not looked at.
EndRoundUnbroken ==
    /\ pc = "end"
    /\ run' = (run /\ ~once) /\ once' = (once /\ run')
    /\ pc' = IF run' THEN "wait" ELSE "out"
    /\ UNCHANGED <<descriptors, queues, currentPending, slot, shutdown, history, calls>>

\* The end of the loop's body.
EndRound ==
    /\ pc = "end"
    /\ run' = (run /\ ~shutdown /\ ~once) /\ once' = (once /\ run')
    /\ pc' = IF run' THEN "wait" ELSE "out"
    /\ UNCHANGED <<descriptors, queues, currentPending, slot, shutdown, history, calls>>

Loop == Wait \/ SkipEmptied \/ ProcessIO \/ ProcessCounting \/ ProcessDrained \/ Return
        \/ EndPass \/ EndRound

Call == \/ \E w \in Watchers : AsyncStart(w) \/ SignalStart(w) \/ IOStart(w) \/ TimerStart(w)
                            \/ AsyncStop(w) \/ SignalStop(w) \/ IOStop(w) \/ Modify(w)
        \/ \E w \in IOs : \E events \in (SUBSET Events) \ {{}} : PendingSet(w, events)
        \/ Break

Next == \/ Loop \/ WaitFails \/ Call
        \/ \E o \in BOOLEAN : Run(o)
        \/ \E w \in Counting : Raise(w)
        \/ \E w \in IOs, e \in Events : Edge(w, e)

Spec == Init /\ [][Next]_vars

\* The loop's thread goes on and callbacks return.
FairSpec == Spec /\ WF_vars(Loop)

-------------------------------------------------------------------------------
\* The slots that have not been processed: all of the current array, and from the slot
\* in work on those of the other.
Ahead == {<<currentPending, n>> : n \in DOMAIN pending[currentPending]}
         \union {<<last, n>> : n \in {m \in DOMAIN pending[last] : m >= slot}}
Held(s) == pending[s[1]][s[2]]
PlaceOf(w) == <<place[w].array, place[w].position>>

\* The events that will still reach the callback of a watcher.
Coming(w) == ready[w] \union IF PlaceOf(w) \in Ahead /\ Held(PlaceOf(w)) = w
                             THEN pendingEvents[w] ELSE {}

\* What the variables are.
TypeOK ==
    /\ started \subseteq Watchers
    /\ unread \in [Counting -> 0 .. MaxSends]
    /\ ready \in [Watchers -> SUBSET Events]
    /\ pendingEvents \in [Watchers -> SUBSET Events]
    /\ place \in [Watchers -> [array : 0 .. 1, position : Nat \ {0}]]
    /\ pending \in [0 .. 1 -> Seq(Watchers \union {Null})]
    /\ currentPending \in 0 .. 1
    /\ pc \in {"out", "wait", "slot", "callback", "end"}
    /\ slot \in Nat \ {0}
    /\ {run, once, shutdown} \subseteq BOOLEAN
    /\ owed \in [IOs -> SUBSET Events] /\ ownOwed \in [IOs -> SUBSET Events]
    /\ sends \in 0 .. MaxSends /\ calls \in 0 .. MaxCalls

\* A watcher has pending events exactly while a slot that is yet to be processed holds
\* it, and the place it noted is that slot, the only one: swEdgeLoopWatcherRemove can
\* rely on the place whatever callbacks started, stopped and marked before.
PendingConsistent ==
    /\ \A w \in Watchers : pendingEvents[w] # {} => PlaceOf(w) \in Ahead /\ Held(PlaceOf(w)) = w
    /\ \A s \in Ahead : Held(s) # Null => pendingEvents[Held(s)] # {} /\ PlaceOf(Held(s)) = s

\* The state is of its type and the two pending arrays agree with the watchers.
Consistent == TypeOK /\ PendingConsistent

\* The loop holds no watcher that was stopped, whose memory may be gone: neither in the
\* slots it will look at nor as the one whose callback it has just called.
NoStaleCallback == \A s \in Ahead : Held(s) \in started \union {Null}

\* No edge is lost, as epoll reports each only once: until the callback gets them, the
\* events of a watcher and what others marked on it are with the kernel or pending, and
\* a descriptor with something to read is going to be read.
EdgesKept ==
    /\ \A w \in IOs : owed[w] \subseteq Coming(w)
    /\ \A w \in Counting : unread[w] > 0 => Read \in Coming(w)

\* epoll_wait gets a timeout only when no watcher is pending: nobody waits for a second
\* with events that are known.
WaitsOnlyIdle == pc = "wait" /\ pending[currentPending] = <<>>
                     => \A w \in Watchers : pendingEvents[w] = {}

\* What swEdgeWatcherPendingSet returned true for is kept as well when a callback marks
\* its own watcher.
OwnEventsKept == \A w \in IOs : ownOwed[w] \subseteq Coming(w)

\* As long as the loop runs, an event reaches the callback of its watcher.
EdgesDelivered == \A w \in IOs, e \in Events : e \in owed[w] ~> e \notin owed[w] \/ pc = "out"

\* As long as the loop runs, expirations, signals and sends reach their callback.
CountsDelivered == \A w \in Counting : unread[w] > 0 ~> unread[w] = 0 \/ pc = "out"

\* swEdgeLoopBreak makes a running loop return.
BreakReturns == pc # "out" /\ shutdown ~> pc = "out"

-------------------------------------------------------------------------------
(* The inductive invariant behind the safety properties, without pairs.    *)

\* A slot that is yet to be processed.
Due(a, n) == n \in DOMAIN pending[a] /\ (a = last => n >= slot)

\* PendingConsistent, with array and position apart.
QueueInv ==
    /\ \A w \in Watchers : pendingEvents[w] # {} =>
          /\ Due(place[w].array, place[w].position)
          /\ pending[place[w].array][place[w].position] = w
    /\ \A a \in 0 .. 1 : \A n \in DOMAIN pending[a] : Due(a, n) /\ pending[a][n] # Null =>
          /\ pendingEvents[pending[a][n]] # {}
          /\ place[pending[a][n]].array = a /\ place[pending[a][n]].position = n

\* Outside of the second pass its array is empty; a callback is called from a slot.
PassInv ==
    /\ pc \in {"out", "wait", "end"} => slot = 1 /\ pending[last] = <<>>
    /\ pc = "callback" => slot <= Len(pending[last])

\* Neither the kernel nor the loop has events of a stopped watcher.
StartedInv == \A w \in Watchers \ started : ready[w] = {} /\ pendingEvents[w] = {}

\* EdgesKept, given that pending events have their slot.
KeptInv ==
    /\ \A w \in IOs : owed[w] \subseteq ready[w] \union pendingEvents[w]
    /\ \A w \in Counting : unread[w] > 0 => Read \in ready[w] \union pendingEvents[w]

\* What the running callback of an I/O watcher was not given is with the kernel.
CallbackInv == pc = "callback" /\ running \in IOs => owed[running] \subseteq ready[running]

\* No descriptor counts more than was sent.
SentInv == \A w \in Counting : unread[w] <= sends

IInv == TypeOK /\ QueueInv /\ PassInv /\ StartedInv /\ KeptInv /\ CallbackInv /\ SentInv
===============================================================================

# Verification of shadowlib

shadowlib is a collection of utility libraries in C: an edge-triggered event
loop with timers, signals and sockets on top of it, a thread manager, ring
buffers shared between threads, logging through those rings, the containers
underneath, a command line, packet parsing, and a few tools built from them. This
directory holds TLA+ models of its parts, TLC configurations that check them on
small instances, and proofs, checked by TLAPS, that hold for every instance. Paths
below are relative to `src/` of the repository.

To run a check: `tlc -config <cfg> <module>`; to check the proofs:
`tlapm <module>`. `PROJECT.json` lists the runs, the lines of code each
definition stands for, the hazards and the findings.

## 1. The system

| Component | State it keeps | Operations | Hard behaviours | Status |
|---|---|---|---|---|
| MPSC ring buffer (`thread/mpsc-ring-buffer.c`) | `head`, `candidateTail`, `currentTail`, spin lock, `shutdown`, `done`; a buffer mapped twice in a row | acquire, release, consumer thread, stop, done, release of the ring | producers and consumer race with stale heads; wrap-around; regions released out of order; draining at shutdown; unmapping | modelled, proved |
| MPSC futex ring buffer (`thread/mpsc-futex-ring-buffer.c`, `thread/futex.h`) | the same, as 32-bit offsets that are futex words | the same | lost wake-ups, errors of the calls that sleep and wake, stop without a wake-up | modelled, proved |
| Sparse array (`collections/sparse-array.c`) | blocks of slots, per block a bit map and the noted first free position; first free index; count | acquire first free, remove, extract, walk | any order of acquire and remove; notes that go stale; blocks freed and trimmed | modelled, proved |
| Edge loop (`io/edge-loop.c`, `io/edge-{async,timer,signal,io}.c`) | registered watchers, two arrays of pending watchers, `currentPending`; in each watcher its pending events and its place | run, break, add, remove and modify watchers, mark as pending | edges are reported once; callbacks stop, free, restart and mark watchers while the arrays are walked | modelled, except failing system calls, creating and deleting a loop; proved |
| Thread manager (`thread/thread-manager.c`) | per thread: pthread, done event, join timer; the sparse array of entries | start, done event, join with a timer, cancel, release | thread exit races with the done event, the timer and the release | modelled, except a `doneFunc` that starts threads; proved |
| Sockets (`io/socket-io.c`, `io/tcp-*.c`, `io/udp-*.c`) | descriptor, watchers, deferred error, connecting, reconnect, closing | start, stop, read, write, close, connect, accept, reconnect | closing, restarting and freeing inside nested callbacks; timers racing with events | modelled one connection at a time; proved |
| SSL sockets (`open-ssl/`) | the same, a session, pending read and write buffers | handshake, read, write, close | retries with the same buffer | modelled over OpenSSL's promises; proved |
| Logging (`log/`) | loggers by name, writers, file sink with its ring and files | collect loggers, log a line, rotate, delete the manager | threads log while files rotate; a rename fails; two loggers of one name | modelled, without the layout of lines; proved |
| Init (`init/`) and the `main` functions of the tools | which modules are started | start in order, roll back, stop in reverse | failure in the middle; pointers to state of modules that are down | modelled, proved |
| Linear hash map and set (`collections/hash-*-linear.c`) | keys, values, hashes with deleted marks; size, count, used | insert, upsert, remove, extract, clear, resize, iterate | deleted entries in probe sequences, resizing | modelled, proved |
| Longest prefix match (`collections/lpm.c`, `lpm-v2.c`) | tries of prefixes | insert, find, match, remove, validate | prefixes that overlap in a node, pushed down and lifted | modelled |
| Bit maps and arrays (`collections/bit-map.*`, `dynamic-array.c`, `fast-array.*`) | values and their memory | set, clear, search, push, pop, grow | boundaries of words and of memory | modelled, proved |
| Buffers and strings (`storage/`) | bytes and their memory | set, append, format, grow | the byte behind the last | modelled where they change, proved |
| Command line (`command-line/`) | options declared, their values | declare, scan, check, set the program's variables | named, grouped, negated, prefixed, positional, sink and consume-after arguments together; a failure late in the work | modelled, without the texts; proved |
| Protocol parsing (`protocol/`) | position, bytes left, frames; a checksum | parse, add, replace, finalise | lengths that do not agree, packets that are cut | modelled: parser and checksum |
| Call tree (`collections/call-tree.c`, `tools/trace/build-call-tree.c`) | tree, stack of open calls | enter, leave, merge, print | nodes merged while pointers into their memory are on the stack | modelled |
| Tools (`tools/`) | slots of connections, pipes | start, stop, accept, close, transfer | slots taken back in any order; a start that fails halfway; pipes that outlive a connection | traffic generator and splicer modelled, proved |
| Unit tests by threads (`thread/threaded-test.c` and its users) | threads, counts of events | set up, run, tear down | events that add up; a thread that does not start | modelled, proved |
| Memory, time, files, the test runner | none the library depends on | | | left out |

How they interact. A program starts its modules in order: the loop, its signals, the
thread manager, the log manager, and its own; they hold pointers to each
other's state and are stopped in reverse. The thread manager starts threads; a
thread that returns sends an asynchronous event to the loop, whose callback joins
it, calls its `doneFunc` and removes its entry from the sparse array. A ring
buffer is a thread of the thread manager (the consumer) and memory that any other
thread writes to; its owner releases it by setting `shutdown` and running the
loop until `doneFunc` was called. The log manager keeps its loggers in a hash
map, and its file sink writes through such a ring. Sockets are watchers of the
loop; their reads and writes mark their own watcher as pending, because the loop
reports an edge only once. The traffic generator and the splicer are users of
sockets; a threaded test is a user of the loop, the thread manager and a ring.

What makes each part correct:

- rings: regions handed out are disjoint; the consumer is given what was
  written, once, in order of acquisition; no space leaks; nobody waits for
  ever; a stop drains; memory is unmapped after its last use;
- sparse array: an index is held by one client, a walk visits the held slots and
  no others, memory exists exactly while it is used;
- edge loop: a watcher that was stopped is not touched again; no edge is lost;
  the loop does not sleep while it has something to do; break ends it;
- thread manager: `doneFunc` is called once, after the thread; entries outlive
  their last use; what exited is joined; release returns;
- sockets: an error closes; nothing of a closed socket stays watched; a client
  that is to reconnect always has a next try coming; OpenSSL's calls are retried
  with the same buffer;
- logging: the files that are kept hold the newest lines in order; loggers point to
  a manager only while it exists;
- init: whatever is up has what it needs, and what was started is stopped;
- containers: they agree with the set, map or sequence they stand for;
- command line: an argument goes to one place, and the variables of the program
  are set together or not at all;
- tools: a stop stops all connections, no two share a slot, pipes lose no byte.

## 2. Modules

| Module | Code |
|---|---|
| `ReservedStream` | no code: what both rings promise, without offsets, lock and memory |
| `MPSCRingBuffer`, `...MC`, `...Proofs` | `thread/mpsc-ring-buffer.c`; its instance and refinement of `ReservedStream`; theorems, the refinement among them |
| `MPSCFutexRingBuffer`, `...MC`, `...Proofs` | `thread/mpsc-futex-ring-buffer.c`, `thread/futex.h` |
| `EdgeLoop`, `EdgeLoopMC`, `EdgeLoopProofs` | `io/edge-loop.c`, `io/edge-async.c`, `-timer.c`, `-signal.c`, `-io.c` |
| `ThreadManager`, `ThreadManagerProofs` | `thread/thread-manager.c` |
| `SparseArray`, `SparseArrayProofs` | `collections/sparse-array.c`, and from `bit-map.h` what it uses; theorem |
| `HashCommon`, `HashLinear`, `HashMapLinear`, `HashSetLinear` | `collections/hash-common.c`, what map and set share, the map, the set |
| `LPMTrie`, `LPM`, `LPMV2` | what both tries share, `collections/lpm.c`, `collections/lpm-v2.c` |
| `Growable` | `collections/dynamic-array.c`, `fast-array.*`, `storage/dynamic-buffer.c`, `dynamic-string.c` |
| `BitMap`, `CallTree` | `collections/bit-map.*`; `collections/call-tree.c` and `tools/trace/build-call-tree.c` |
| `Containers`, `ContainersProofs` | composes `Growable`, `BitMap`, `HashMapLinear` and `HashSetLinear`, with the assumptions about their constants; theorems |
| `Checksum`, `ProtocolParser` | `protocol/checksum.*`, `protocol/protocol-parser.c` |
| `CollectionsMC` | composes `SparseArray` and the modules from `HashMapLinear` down to `ProtocolParser`, those of `Containers` through it |
| `SocketIO`, `NetClient`, `NetClientProofs` | `io/socket.c`, `io/socket-io.c`, `open-ssl/ssl-socket-io.c`; clients, servers and acceptors of TCP, UDP and SSL |
| `Logging`, `Program`, `CommandLine` | `log/`; `init/` and the module lists of the tools; `command-line/` |
| `TrafficServer`, `TrafficClient`, `Splicer` | `tools/traffic-generator/`, `tools/splicer/` |
| `ThreadedTest` | `thread/threaded-test.c`, the two ring tests, `log/async-writer-test.c` |
| `SystemMC`, `SystemProofs` | composes the modules from `NetClient` down to `ThreadedTest`; theorems about all of them but `NetClient` |

In `CollectionsMC` and `SystemMC` a constant variable `subject` names the module that
takes steps; the others keep their first state. This makes one run of many small
state machines that do not share state. `SystemMC` extends `NetClient`, so that
the proofs about a socket and the run speak of one state, and instantiates the others;
the bounds of all of them are its constants. Where parts do share state, one of them
is part of the other's module: the clients and their socket in `NetClient`, the sink's
ring and files in `Logging`, the loop, threads and ring of a test in `ThreadedTest`.

An operator whose comment begins with "Mutant" is not part of a model. It is a
plausible mistake in the definition below it, and putting it in that
definition's place makes TLC find a property violated.

### The ring buffers

Each read or write of a shared field is a step, so that every interleaving of
producers, consumer, main thread and owner is covered. `Lock`, `ReadHead` and
`Reserve` are `swMPSCRingBufferProduceAcquire`: the spin lock, the read of
`head` inside it, and the rest up to the unlock, which touches only what the
lock protects. `Write` is the caller filling its region. `Release` is the CAS
of `ProduceRelease` when it succeeds; a CAS that fails changes nothing.
`TestShutdown`, `TestEmpty`, `LoadTail` and `Consume` are the loop of
`swMPSCRingBufferRun`, whose condition reads `shutdown` before the two
pointers. `Stop`, `Done`, `ReleaseRing` and `Unmap` are the calls made by the
thread manager and the owner.

Pointers are offsets from `buffer`. In `mpsc-ring-buffer.c` a pointer wraps only
when it goes beyond `bufferEnd`, so that offsets run from 0 to `Size` and 0
and `Size` name one byte; in the futex ring they run to `Size - 1`. Memory is an
array of `Size` cells labelled with the message each byte belongs to.

The futex ring adds the wait: `TestTurn` is the failed CAS and the read of
`currentTail`, `Sleep` the system call, which compares and queues atomically,
`Interrupt` a signal, `Swap` the successful CAS and `WakeAll` the wake-up that
follows it as a separate step. The consumer dozes on the same word for at most a
millisecond. Each of the three calls may report an error to the threads in `Failing`:
the region of a producer that cannot sleep stays unpublished (`SleepFails`), one that cannot
wake the others has published its own and returns false (`WakeFails`), and a consumer that
cannot doze ends (`DozeFails`). A producer whose release failed does not go on, as in the
test. Progress is not promised behind such a failure, and the properties except it by name.

Assumptions. The build is gcc for x86-64 without optimisation, and offsets are
published with full-barrier compare-and-swap, so steps are taken to be
sequentially consistent. A producer writes and releases each region it
acquires and is finished when the owner releases the ring, as in the
repository's tests and sinks. A ring that cannot be created is left out.

### The sparse array

`AcquireFirstFree` is `swSparseArrayAcquireFirstFree` with all of
`swSparseArraySetNextFree`; `Remove` is `swSparseArrayExtract` with the freeing
and trimming of blocks, `RemoveFails` its early return. `blocks` keeps, per
block, whether it has memory, its bit map as a set of positions, and its note of
the first free position. `holders` is history: which indices clients have.
`stale` is history too: whether an index was ever removed from a full block
above that block's note. Clients remove an index once after they acquired it,
and memory does not run out.

### The edge loop

The loop's thread is modelled at the grain of what a callback can observe:
`Wait` is `epoll_wait` and the first pass (which calls no callback), then the
second pass takes one slot per step: `SkipEmptied`, `ProcessIO`,
`ProcessCounting` or `ProcessDrained`, and `Return` when a callback returns.
Between `Process...` and `Return` the callback makes up to `MaxCalls` calls:
`Start`, `Stop`, `Modify`, `PendingSet` and `Break`, on any watcher, its own
included. The same calls are made while the loop does not run.

The kernel is `ready`, the edges it has yet to report, and `unread`, the count
of a timer, signal or event descriptor. Timers and asynchronous watchers behave
alike (a read takes the whole count); a signal watcher reads one signal at a
time. An I/O callback reads its own descriptor, which the model leaves to it:
`owed` notes the events its callback has not been given yet, and a callback that
has been given them is taken to have read the descriptor dry or to have marked it.

A callback returns and does not run the loop itself. Starting a watcher
succeeds. Stopping does not fail in `epoll_ctl`, because callers stop a watcher
before they close its descriptor.

### The thread manager

A thread runs, returns from `runFunc`, sends the done event, and exits; it is
cancelled at a cancellation point. The main thread's steps are the callbacks of
the done event and of the timer (`DoneCallback`, `JoinWaitCallback`), starting
a thread, and the release, step by step: the walk that stops each entry (with
`stopFunc` before the attempt to join, during which the thread may exit), the
loop until no entry is left, or, when a timer cannot be had, the forced walk.
Callbacks come from the loop in any order; that none comes from a watcher that
was stopped is `NoStaleCallback` of `EdgeLoop`. Entries are the thread's own:
how the array hands them out is `SparseArray`.

### The containers

The hash tables are modelled slot by slot with their probe sequence, tombstones,
counters and both resizings. Several keys have one name (they are equal but are
different objects), so that ownership of the key objects can be checked too;
hashes are chosen so that names collide in the smallest table and in the next.
The loops over a probe sequence, in which the step grows by one, are the first step
whose slot ends the search: one operator, `FirstStop`, to which a search passes where
it ends (`VacantOrEqual`, `FreeOrEqual`, `Vacant`).
`content` is history: the map that the calls imply. `doubled` is history too:
whether an insertion stopped at a tombstone in front of an equal key (finding 4);
up to then the map must agree with `content`. `members` and `repeated` are the same
for the set, which has the same search and the same flaw.

A node of a trie is the path of slices that leads to it, a slot is the path and the
bits of the last slice, and `stored` says which prefix waits in it: one that ends
there, or a longer one that was not pushed down yet. `NodeInsert` is the recursive
function that pushes down; `Release` clears a slot. `LPMV2` also removes empty nodes and
lifts a lonely prefix, which it looks for by the words of the node's bit map: one that is in
a later word than the first is not lifted, and from then on is in the node's array but not
counted (`uncounted`; `missedV2` is history). In `lpm.c` a removal that finds nothing succeeds and takes
one off the count, so the count is no part of its property; callers are taken to
pass `foundPrefix`, as all do.

In `Growable` a block is its memory, the size it notes and how much is used. Memory
that is allocated holds junk. `overstated` notes that `AppendStaticString` grew a
buffer and noted one byte more than it has; from there on the property says nothing
of that buffer. `BitMap` searches with words of 64, 32, 16 and 8 bits and the
tail of single bits. `CallTree` follows the pointers on the stack of open calls as
paths of positions, so that a child's memory that is used again shows.

`Checksum` keeps the 32-bit sum, its folding and the complement, and the packet as
history. `ProtocolParser` takes a packet as the chain of its headers with their
sizes: what `switch` and the comparisons of lengths see. The walks over options go by the
sizes the options state (`OptionsFrom`). Where one leads behind the packet, any options are
found there; where one states no size, the walk never ends (`"endless"`), and so it does over
a message that is shorter than its fixed part, because what is left wraps around.

### Sockets

`SocketIO` describes what each call does to a connection, a record with the
descriptor, the watchers that are active, the deferred error, and a stack. The
library's functions call the user's callbacks in the middle; `Call` pushes what
remains to be done, and the user's callback at the top may call back in: read,
close, stop, delete. `Step` goes on with the top of the stack when it is the
library's code, `Return` ends a callback. `NetClient` adds connecting, the connect
and reconnect timers and the acceptors. A system call is one of its possible
outcomes. What a call with a buffer returns over SSL is OpenSSL's: an operation it puts
off must be retried with the same buffer. `dropped` and `misretried` are history.

### Logging, init, command line, tools

`Logging` composes the log manager with one file sink, whose ring is a queue of
regions of bounded capacity (that it is one is what the runs of the rings show).
`Release` may also not happen, as when formatting fails after the region was
acquired; the region then stays in front of the queue. `Consume` takes the
released regions in front as one batch, closes, renames and removes files.

`Program` is `swInitStart` and `swInitWaitAndStop` over the module lists of four
programs; each module's start may fail for a reason of its own and does fail if what
it needs is not up: the loop, the thread manager, the interfaces whose addresses the
ICMPv6 communicator asks for, or the command line with the options that a module cannot
do without. `CommandLine` keeps names and values as sequences of pieces, as far
as the scan looks into them, and has an action per pass: collect the options, scan one
argument, set the defaults and check, write the variables. `TrafficServer` has the array
of slots with `firstFree`, `TrafficClient` the arrays of clients with the count that is
set when a port is complete. `Splicer` has both sides' buffers and pipes, in units of
what one call moves. `ThreadedTest` has one thread's work as a count, and the count in
the descriptor of the event that ends the loop.

## 3. Runs

| Run | Instance | What it shows |
|---|---|---|
| `ring` | 2 producers, `Size` 3, messages of 1 or 2 bytes, 2 acquires each | `NoOverlap`, `NoSpaceLost`, `StopsSafely`, `ImplementsStream`, `MessagesArrive`, `ReleaseReturns` |
| `futex` | the same, and futex errors of one producer and the consumer | `NoLostWakeup`, `Sound`, `ImplementsStream`, `NobodyStuck` |
| `edge` | a counter, a signal and an I/O watcher, 2 raises, 2 calls, 2 events per `epoll_wait` | `Consistent`, `NoStaleCallback`, `EdgesKept`, `WaitsOnlyIdle`, `EventsDelivered`, `BreakReturns` |
| `edge_own` | 1 I/O watcher, read and write events | violates `OwnEventsKept` (finding 2) |
| `thread_release` | 3 threads, timers may fail | `DoneInOrder`, `WatchersInEntries`, `ReleaseReturnsInTime`, `ExitedJoined` |
| `thread_cancel` | 2 threads, no failures | violates `ReleaseReturns` (finding 3) |
| `sparse_walk` | 1 block of 4 slots | violates `WalkComplete` (finding 1) |
| `collections` | each container with a few elements, see below | `SparseAgrees`, `TablesAgree`, `TriesAgree`, `ContentKept`, `BitMapAgrees`, `TracePrinted`, `PacketsAgree` |
| `map_doubled` | the hash map alone | violates `MapAgrees` (finding 4) |
| `lpm_match` | the trie of `lpm.c` alone | violates `MatchCovers` (finding 5) |
| `system` | each part around the loop, see below | `KeepsTrying`, `LossActedOn`, `SameBuffer`, `TriesAgain`, `FilesKeepNewest`, `NoneDangles`, `NeedsMet`, `ToolsStopAll`, `PipesConserve`, `SetTogether`, `ArgumentsPlaced`, `LoopLeftInTime` |
| `traffic_slot` | 4 connections | violates `SlotsExclusive` (finding 6) |

Each property is stated in a comment above its definition. Some are conjunctions of
named parts: `StopsSafely` of `StopDrains` and `UnmappedUnused`, `MessagesArrive` of
`RegionsPublished` and `PublishedDelivered`, `NobodyStuck` of these and
`ReleaseReturns`, `Sound` and `Consistent` of the type invariant and what belongs to
it, `DoneInOrder` of `DoneAfterExit` and `EntryOutlivesThread`, `SparseAgrees` of three
about the walk, the next index and the memory.

Bounds, and why they are enough. The rings: with a capacity of two bytes and
messages of one or two the ring is full, empty, and wrapped both exactly and in
the middle of a message within two acquires of two producers; a producer can be
overtaken between any two of its reads. Futex calls fail for one producer, so that
what its failure means to the other is seen. The theorems of section 5 take beyond the bounds
all safety properties but those of the tries, the call tree and the packets.
`MaxAcquires` bounds calls. The sparse array has four blocks of two slots: two
positions suffice for a block to be full, partly full and empty, four blocks for a
freed block with used and with freed ones on either side. `MaxBlocks` bounds its
growth, and there is no bound on the number of calls. The loop: a callback with two
calls can stop and restart, or mark, another watcher or itself, which is what
brings a watcher from one array to the other; three watchers of which two are reported
leave an edge behind in the kernel. `MaxSends` bounds how often counting descriptors
are raised. Threads do not interact with each other but through the walk and the
array's memory, so three have every combination of one being walked, one to come and
one already visited.

The containers. Hash keys: seven keys of six names (six of five for the set), four of
which collide in the table of 8, so that the table doubles, shrinks and fills with
tombstones; the keys of `Kept` leave with a clear only, and there is no bound on calls.
Tries: factor 2, values of six bits, eight prefixes in the root, below, deep, of odd and
full length and several on one path, so that pushing down, waiting and lifting happen at every level.
A node of `LPMV2` has four places, in one word of 4 bits or in two of 2 bits
(`WordSizes`), which stand for the 64-bit words of nodes of up to 64 places (factors up to
6) and of 128 or 256 (factors 7 and 8); `MaxCount` 8 bounds the count, which grows with
every prefix that is lost and inserted again. Growing blocks: up to `MaxItems` 4 items of two kinds, enough for two
growths and a shrinkage. Bit maps of 5, 16, 19, 43, 101 and 128 bits, with tails of
every width the search reads. Calls: `MaxCalls` 5 of two functions, `MaxDepth` 3.
Checksums of up to 4 bytes (`MaxLength`) of 0, 1 and 255, which carry twice and meet
both zeros, and `MaxChanges` 2. Packets: the chains of headers in `CollectionsMC`, each
cut, exact and followed by more, with options that fit, that are longer than what is left,
and of size 0, and messages that end before their options.

The parts around the loop. `NetClient`: all six kinds, and `MaxCalls` 4 calls of the
user on top of what the loop delivers: close, restart, stop and delete can follow
each other in nested callbacks. `Logging`: two threads, `MaxLines` 6, files of two
lines and one file kept, so that three files are started. `TrafficServer`: four
connections, a slot given back and taken twice. `TrafficClient`: two ports of one or two
clients. `Splicer`: buffers and pipes of two units, two connections, `MaxBytes` 3 each
side. `CommandLine`: seven sets of declarations that hold every type and kind of
option, and clashes, with up to three arguments of fifteen. `ThreadedTest`: one to
three threads with two items of work (`Share`).

`CHECK_DEADLOCK FALSE` stands where the system really ends: the rings after
unmapping, the containers when their bounds are reached, the thread manager after its
release. The loop never ends in its model.

Fairness. Ring producers inside a call go on (they are threads that
run; the spin lock is released by a thread that does not block inside it), the
consumer thread is scheduled, the loop calls back and the owner, who runs the
loop, goes on. Nobody has to start a call, and no signal has to come; in the
futex ring the kernel's timeout has to. `RegionsPublished` and the others do
not assume fair locks: a producer that waits for the lock is promised nothing.
The loop's thread goes on and callbacks return (`WF` of `Loop`); the program is
not obliged to run the loop again, hence "or the loop returned" in its liveness
properties. In the thread manager the main thread runs the loop, timers expire,
a thread that returned from `runFunc` gets to its exit, and a cancelled thread
gets to a cancellation point. A thread function need not return.
In `NetClient` the library's code goes on, a callback of the user returns, and the loop
delivers the timer a lost connection waits for; nothing is assumed of the network,
so `TriesAgain` says that a next try is made and not that it succeeds.

## 4. Findings

1. `collections/sparse-array.c:136` (`sparse_walk`). An acquire hands out
   `array->firstFree` but marks the bit noted in `blockInfo->firstFree`. When a
   block fills up, the note stays at a used slot (line 93 returns early). In a
   full block of four: remove 1, acquire 1 again, remove 3, acquire. The index
   handed out is 3 and the bit marked is 1. The walk then misses slot 3 and
   returns false, so that releasing a thread manager would not stop that
   thread. `sparse-array-test.c:185` asserts that walks succeed. Without such a
   removal the array is right: `WalkCompleteInOrder` and `HandsOutLeast`.
2. `io/edge-loop.c:307` (`edge_own`). A callback that marks its own watcher as
   pending, as `swSocketIORead` and `edge-loop-test.c:287` do, gets true; when it
   returns the loop sets `pendingEvents` to 0 and the mark is gone, with
   the edge if the callback had not read until `EAGAIN`. What callbacks mark on
   other watchers is kept: `EdgesKept`.
3. `thread/thread-manager.c:45` (`thread_cancel`). A late thread is joined only
   if `pthread_cancel` fails. One that was cancelled is never joined, its
   `doneFunc` is not called, its entry stays, and `swThreadManagerRelease` runs the
   loop for ever. The release returns if no thread is cancelled:
   `ReleaseReturnsInTime`.
4. `collections/hash-map-linear.c:111` (`map_doubled`). The search for a place to
   insert stops at the first deleted entry, although the key may lie behind it. With
   keys A and B of one slot, B behind A: remove A and insert a key equal to B. It is
   stored a second time; the count is one too many, and after a removal B is still
   found. `hash-map-linear-test.c:55` takes equal keys for one entry. Until that
   happens the map is right: `TablesAgree`. The lookup goes on over deleted entries.
5. `collections/lpm.c:377` (`lpm_match`). A longer prefix that waits in a slot is
   returned for every value with that slot's slice: with 001 alone and
   factor 2 the value 000000 matches. The comment at line 375 argues that no
   comparison is needed. `swLPMV2Match` does
   not compare either. `TriesAgree` says how far the matches of both go: one that
   covers the value is the longest, and one that does not is a waiting prefix.
6. `tools/traffic-generator/traffic-server.c:251` (`traffic_slot`). `firstFree` moves on
   while slots are free and stops at the first that is taken, against what line 248
   traces. With two connections open, the first closes; the next takes its slot, and
   the one after that overwrites the slot of the second, which is then never stopped.

Also met, without a run of their own: in `lpm-v2.c:324-330` the position of a bit in its word
is taken for that in the node, so that with factors 7 and 8 a lonely prefix behind the first
64 places is not lifted, its bit and count are cleared, and it goes with the node later on;
in `protocol-parser.c:188-206` (ICMPv6) and `:21-42` (IPv6) the sizes that options state are
used unchecked: one that is too long leads the walk past the end, and an ICMPv6 option of
size 0, or a discovery message shorter than its fixed part, leads it on for ever;
`fast-array.c:53` clears the size of the elements, so that a push without another
initialisation has no room (the model initialises first); `lpm.c:322` takes one off the count for a prefix
that is not there; `dynamic-buffer.c:150` notes one byte more than was allocated;
`dynamic-string.c:184` formats nothing when there is room already; in
`protocol-parser.c:57` extension headers do not reduce `bytesLeft`, so that UDP and ICMPv6
behind them are not recognised; a region whose formatting fails is not released
(`log-manager.c:224`), after which the producers of that ring wait; the clients of the port
at which a start fails stay (`traffic-client.c:326`); an option that is not valid
behind the valid ones of the main category goes unnoticed (`command-line-data.c:393`);
`option.c:69` looks at `errno` without clearing it. The modules follow the code in these
places, and the properties except them by name.

## 5. Proofs

Every theorem is about the specification that the runs check, for every value of its
constants that satisfies the assumption named; the inductive invariants were checked by
TLC before they were proved. A proof has a lemma per action, or per operator that actions
are made of, and a lemma for each step of several that have an effect in common.

`MPSCRingBufferProofs`: for any set of producers, size, set of message sizes and
number of acquires. Assumption: `RingAssumption` (sizes are positive). The
safety properties are not inductive: a producer may be about to reserve with an
old head, and offsets of a circle have no order. `IInv` measures everything as a
distance from `head`, so that published bytes, held regions and free space
become intervals in this order, and says that a stale head only makes the
free space look smaller (`StaleHeadInv`); the alias of offsets 0 and `Size` is
dealt with by `InWindow`: 0 is in use only before head leaves it. One lemma
per action shows that `IInv` is kept (`LockStep`, `ReserveStep`, `AcceptStep`, ...),
resting on lemmas about distances. Theorems: `Invariance`, `TypeCorrect`,
`RegionsDisjoint`, `SpaceConserved`, `ShutdownDrains`, `UnmapSafe`, `SafeStop`. `DataInv`
adds what the bytes between head and tail are; with it `DeliveredInOrder`.

`MPSCFutexRingBufferProofs`, first part: `WakeInv`, that a sleeper saw a tail that still
stands, or that whoever moved it last is about to wake everybody or failed to. Theorems:
`WakeInvariance`, `WakeupsKept`. They need
no assumption about sizes: the wake-up protocol does not depend on arithmetic. Second part:
`RingInv`, under `FutexRingAssumption`, is the invariant of the first ring without
the alias, because these offsets wrap at `Size`, and with the regions of producers whose
call failed, which stay reserved for ever and stop the tail before them. Theorems:
`RingInvariance`, `RegionsDisjoint`.

In both modules the refinement is the last part: both rings implement
`ReservedStream` (`Refinement` in each, which is `ImplementsStream`): the initial states
are initial states of the stream, and each step is a `Reserve`, a `Publish` or
a `Deliver` of it or leaves its variables alone. `Deliver` follows from `IInv` (or
`RingInv`) and `DataInv`. The others need more: the stream reserves each message
once and publishes every byte of it, and the code moves a tail by a number of bytes.
`StreamInv` says that no message is in the stream before it is reserved, and that the bytes of
one that is held are those of its region and no others. `SoundRing` is the property
`Sound`.

`ThreadManagerProofs`: for any set of threads, whether or not timers fail. The
invariant adds to the properties `EntriesInv` (an entry belongs to a thread
that was started and not reported; a thread that may still use its entry has
one) and `MainInv` (the main thread is at work only on entries that exist, and
the walk's list is a part of them). Theorems: `Invariance`, `DoneOnceAfterExit`,
`EntriesOutlive`, `EndsInOrder`, `NoWatcherLeft`.

`EdgeLoopProofs`: for any finite set of watchers of the three kinds and any bounds
(`EdgeLoopAssumption`). That slots and watchers agree is `QueueInv`; it is inductive only
with `PassInv`, which says when the array of the second pass is empty and that a
callback is called from a slot of it, and `StartedInv`: a stopped watcher has nothing
with the kernel or the loop, so that starting it again finds no old slot. `KeptInv` and
`CallbackInv` follow an edge from the kernel over the slots to the callback, also while a
callback runs whose events were taken and not yet given back. One step
stands for the loop of the code over the events that `epoll_wait` returned, in any order;
`Behind` and `PassedOn` say what the arrays and the places are after it. Theorems: `LoopInvariant`,
`PlacesRight`, `CallbacksFresh`, `NoEdgeLost`, `BlocksIdle`.

`NetClientProofs`: for any of the six kinds of client and server (`NetClientAssumption`)
and any number of calls. The stack of library functions and callbacks has no
bound, and what is true of a socket depends on what is still to run. `SocketInv` says which
frames may be where (`StackFits`, `InsideEnds`, `FreedLast`, `ClosingEnds`), what is watched
while a close is under way (`WatchesHold`), which buffers OpenSSL waits for
(`BuffersKept`), that a noted error has a frame that will act on it (`ErrorHeld`), and
`Trying`: a client that wants to be connected is, or has a timer, or a frame that will
start one. A step applies a few operators to the socket, so the lemmas are about these:
each takes a socket of which `Held` (all of it but `Trying`) and `Trying` hold
to one of which they hold again. Theorems: `SocketInvariance`, `TriesGoOn`,
`LossesActedOn`, `BuffersRetried`.

`SystemProofs`: the parts of `SystemMC` around the loop. `StepsApart` says that a step of
the system is one of each part or leaves its variables alone, so that each part has an
invariant of its own, for any values of the constants (`SystemAssumption`).

- `SpliceInv` is the property and that the amounts are numbers. `ProgramInv`: what is up is
  a beginning of the list of modules, and each needs only ones before it; stopping from the
  end takes from none what it needs, for all four programs, wherever a start fails.
  `SlotInv`: a slot and the connection in it name each other; it holds in spite of
  finding 6, as a connection that was overwritten is named by no slot. `ClientInv`: the
  clients that are left belong to ports, and a start that succeeded counted all.
  Theorems: `PipesConserved`, `LoggersFreed`, `ModulesServed`, `ToolsStopped`.
- `LogInv`: the ring holds the lines that follow those written (`RingHolds`), and each file
  that was archived holds the lines from its first one up to the first of the next
  (`FilesInv`). One batch that the consumer takes may fill several files, so `Consume` is
  followed line by line, with the failing renames. Theorem: `FilesKept`.
- `TestInv`: the events sent stand for finished work and each for its own (`EventInv`), and
  how far the main thread is says which threads exist (`StageInv`). The work that is done
  is the cardinality of the set of pieces that are finished. Theorem: `LoopsLeft`.
- `LineInv`, under `LineAssumption` (what is declared and passed has the parts that C gives
  it): the program's variables are untouched until every check has passed and are then
  written from the values that were checked, and a name stands for one option (`LineSet`); the lists
  for sink and consume-after are the arguments at the places noted so far, no more are
  positional than there are positional options, and a value stands behind its option
  (`LinePlaces`). Theorems: `VariablesTogether`, `ArgumentsFound`.

`SparseArrayProofs`: for blocks of any of the seven sizes and any number of them
(`SparseArrayAssumption`). `SparseInv`: the memory follows the marks, always; and until an
index is removed above the note of a full block (`stale`, finding 1) the marks are the
slots that are held, each once, a block that is not full notes its least clear position
and the array its least free index. Theorem: `SparseSound`, which is `SparseAgrees`.

`ContainersProofs`: each block of `Growable` holds its content within the memory that it
has (`Holds`, and `Ends` for strings), through lemmas about growing, writing, dropping and
shrinking (`MemoryAssumption`: the bytes of a time are bytes). `BitInv` is that the map is
the set of bits that are marked; the work is in the search, a recursion over bytes that
skips words of four widths (`WordsFind`). Recursive functions (`Power`, the search) are
shown to exist and to have their values by taking the least number at which they
would not, because the library's induction has an operator as its parameter.
Theorems: `GrowthKeeps`, `BitMapSound`, each for the specification of its own module.

The hash tables, in the second half of the module, need `KeysAssumption`: fewer than 2^29
keys, so that a table's size stays an `int`, and hashes that are natural numbers. Keys may
be equal and hashes may collide in any way.

- The probe sequence visits every slot: two triangular numbers below step 2^k differ modulo
  2^k (`TrianglesApart`), so 2^k steps are 2^k slots (`ProbeCovers`). A search therefore ends
  when one slot is free.
- `Core`: an entry holds the hash of its key, no two hold the same key object, and no slot
  on the way to an entry is unused (`Reached`). `Counted`: the two counters are the
  cardinalities of the entries and of the slots that are not unused. `Roomy`: a quarter of
  the slots is unused, and a table above the smallest has four slots for an entry at most.
  `WriteKeeps` is the step of every operation: a write to the slot where a search ended, or
  of a tombstone over an entry, keeps what is within reach.
- A move to another table is a recursive function over the slots. `OnTheWay` says which
  entries have arrived after a number of slots, and `RehashKeeps` takes the least number at
  which it fails. The new table is larger than twice the number of entries, so each finds a
  place (`MoveKeeps`); what comes out has room again (`ResizeKeeps`).
- Two equal keys are never in a table (`Single`) until one is put in a tombstone before its
  own slot (finding 4); until then a search answers as `content` does (`AnswersAre`). An
  iterator, recursion again, returns the keys of all entries and no others (`IteratedIs`).
- The set's operators equal the map's with an empty value (`SameSearches`, `SameChanges`), so
  that every lemma about tables serves both; `MapInv` and `SetInv` add who owns the keys.

Theorem: `TablesSound`, which is `TablesAgree`.

Proved and not run: the type invariants of the rings, the loop, the thread manager and the
sockets, which are part of their inductive invariants, and `InOrder`, which the refinement of
`ReservedStream` implies.

Only model-checked, and why:

- liveness, which the prover does not support: `MessagesArrive`, `ReleaseReturns`, `NobodyStuck`,
  `EventsDelivered`, `BreakReturns`, `ReleaseReturnsInTime`, `ExitedJoined`, `TriesAgain`;
- `TriesAgree` and `TracePrinted`, which are about recursive operators on trees, and
  `PacketsAgree`, about a recursive operator and folds: induction over data.

## 6. Not modelled, and the plan

Not modelled in the parts above: allocation failures, except where a block's memory
is what a module is about; system calls that fail, but for `epoll_wait`, the futex
calls, the calls on sockets, renaming a log file, timers and starting a thread;
callbacks that run the loop; a walk of the sparse array while it is changed; breaking
the loop from another thread (`shutdown` and `currentPending` share a word, and the
repository breaks loops on their own thread); a counting descriptor raised faster
than it is read.

Not modelled at all: the formatting of addresses, log lines and usage texts (wording and
layout); OpenSSL's contexts, keys and certificates (configuration passed on);
`open-ssl/tcp-client.c` (in no build file); the packet builder and the ICMPv6 tool, but for what its start needs; the
instrumentation that writes traces; memory, time and file wrappers; the sequential
test runner, and with it that `threaded-test.c:189` deletes the loop of a test that is
run nevertheless.

Next, in order of importance:

| Step | What | How |
|---|---|---|
| 1 | the checksum as a theorem | its sum as a recursive function over the words; congruence modulo 65535 |
| 2 | several connections of one acceptor together | `NetClient` with a set of records |
| 3 | the tries as a theorem | prefixes below a slot as a set, so that pushing down needs no recursion |

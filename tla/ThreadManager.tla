----------------------------- MODULE ThreadManager -----------------------------
(***************************************************************************)
(* thread/thread-manager.c: threads that tell the main thread through an   *)
(* asynchronous watcher that their function has returned; the main thread  *)
(* joins them, waits with a timer for those that have not exited yet, and  *)
(* cancels those that are late.  Releasing the manager stops all threads   *)
(* and runs the event loop until no entry is left.                         *)
(*                                                                         *)
(* Callbacks of the loop run in the main thread, in any order; what the    *)
(* loop does for them is module EdgeLoop, how entries are allocated is     *)
(* module SparseArray.  Every thread has a doneFunc, which does not start  *)
(* other threads.                                                          *)
(***************************************************************************)
EXTENDS Integers, FiniteSets

CONSTANTS
    Threads,     \* threads ever started: each uses an entry of its own
    None,
    TimerFails   \* whether swEdgeTimerInit and swEdgeTimerStart may fail

ASSUME ThreadManagerAssumption == None \notin Threads /\ TimerFails \in BOOLEAN

VARIABLES
    thread,     \* "none", "running", "returned" from runFunc, "sent", "exited", "failed"
    cancelled,  \* threads for which pthread_cancel returned 0
    entries,    \* threads whose swThreadInfo is in the array
    doneEvent,  \* threads whose done event waits for the loop
    timer,      \* joinWaitTimer: "off", "armed" or "expired"
    doneCalls,  \* history: how often doneFunc was called
    phase,      \* of the manager: "open", and then the steps of its release
    todo,       \* entries the walk of the release has yet to visit
    stopping,   \* the entry in swThreadInfoStop, between stopFunc and the join
    forcing     \* the entry in swThreadInfoForceJoin

mainVars == <<phase, todo, stopping, forcing>>
vars == <<thread, cancelled, entries, doneEvent, timer, doneCalls, mainVars>>

Init ==
    /\ thread = [t \in Threads |-> "none"]
    /\ cancelled = {} /\ entries = {} /\ doneEvent = {}
    /\ timer = [t \in Threads |-> "off"]
    /\ doneCalls = [t \in Threads |-> 0]
    /\ phase = "open" /\ todo = {} /\ stopping = None /\ forcing = None

-------------------------------------------------------------------------------
(* The threads: swThreadInfoRun.                                           *)

\* runFunc returns, because it is done or because it was stopped.
RunReturns(t) ==
    /\ thread[t] = "running" /\ thread' = [thread EXCEPT ![t] = "returned"]
    /\ UNCHANGED <<cancelled, entries, doneEvent, timer, doneCalls, mainVars>>

\* The thread sends the done event, through the watcher in its entry.
SendDone(t) ==
    /\ thread[t] = "returned" /\ thread' = [thread EXCEPT ![t] = "sent"]
    /\ doneEvent' = doneEvent \union {t}
    /\ UNCHANGED <<cancelled, entries, timer, doneCalls, mainVars>>

Exit(t) ==
    /\ thread[t] = "sent" /\ thread' = [thread EXCEPT ![t] = "exited"]
    /\ UNCHANGED <<cancelled, entries, doneEvent, timer, doneCalls, mainVars>>

\* A cancelled thread gets to a cancellation point: in runFunc, or in the write of the
\* done event before that had an effect.
ExitCancelled(t) ==
    /\ t \in cancelled /\ thread[t] \in {"running", "returned"}
    /\ thread' = [thread EXCEPT ![t] = "exited"]
    /\ UNCHANGED <<cancelled, entries, doneEvent, timer, doneCalls, mainVars>>

-------------------------------------------------------------------------------
(* The main thread.                                                        *)

\* No step of the main thread is in the middle.
Free == stopping = None /\ forcing = None

\* swThreadManagerStartThread
StartThread(t) ==
    /\ phase = "open" /\ Free /\ thread[t] = "none"
    /\ thread' = [thread EXCEPT ![t] = "running"]
    /\ entries' = entries \union {t}
    /\ UNCHANGED <<cancelled, doneEvent, timer, doneCalls, mainVars>>

\* The same when a step of it fails: the entry goes and doneFunc is called.
StartFails(t) ==
    /\ phase = "open" /\ Free /\ thread[t] = "none"
    /\ thread' = [thread EXCEPT ![t] = "failed"]
    /\ doneCalls' = [doneCalls EXCEPT ![t] = @ + 1]
    /\ UNCHANGED <<cancelled, entries, doneEvent, timer, mainVars>>

\* swThreadInfoClean
Clean(t) ==
    /\ doneCalls' = [doneCalls EXCEPT ![t] = @ + 1]
    /\ doneEvent' = doneEvent \ {t}
    /\ entries' = entries \ {t}

\* Mutant: the timer that waits for the thread is forgotten.
FinalizeTimerKept(t, events) ==
    \/ thread[t] = "exited" /\ Clean(t) /\ UNCHANGED timer
    \/ /\ thread[t] # "exited" /\ timer[t] = "off"
       /\ timer' = [timer EXCEPT ![t] = "armed"]
       /\ doneEvent' = events /\ UNCHANGED <<doneCalls, entries>>
    \/ /\ thread[t] # "exited" /\ timer[t] # "off"
       /\ doneEvent' = events /\ UNCHANGED <<timer, doneCalls, entries>>

\* Mutant: a thread that has not exited is left to itself.
FinalizeTryOnce(t, events) ==
    \/ thread[t] = "exited" /\ Clean(t) /\ timer' = [timer EXCEPT ![t] = "off"]
    \/ thread[t] # "exited" /\ doneEvent' = events /\ UNCHANGED <<timer, doneCalls, entries>>

\* swThreadInfoFinalizeThread: an exited thread is joined and cleaned; for another one a
\* timer is armed unless one is running.
Finalize(t, events) ==
    \/ /\ thread[t] = "exited"
       /\ Clean(t) /\ timer' = [timer EXCEPT ![t] = "off"]
    \/ /\ thread[t] # "exited"
       /\ \/ timer[t] = "off" /\ timer' = [timer EXCEPT ![t] = "armed"]
          \/ timer[t] # "off" /\ UNCHANGED timer
       /\ doneEvent' = events /\ UNCHANGED <<doneCalls, entries>>

\* swThreadInfoFinalizeThread returns false: no timer could be had.
FinalizeFails(t) == TimerFails /\ thread[t] # "exited" /\ timer[t] = "off"

\* The main thread is in the event loop.
Looping == phase \in {"open", "drain"} /\ Free

\* swThreadInfoDoneCallback
DoneCallback(t) ==
    /\ Looping /\ t \in doneEvent
    /\ \/ Finalize(t, doneEvent \ {t}) /\ UNCHANGED forcing
       \/ /\ FinalizeFails(t) /\ forcing' = t
          /\ doneEvent' = doneEvent \ {t} /\ UNCHANGED <<timer, doneCalls, entries>>
    /\ UNCHANGED <<thread, cancelled, phase, todo, stopping>>

\* The time for joining is over.
Expire(t) ==
    /\ timer[t] = "armed" /\ timer' = [timer EXCEPT ![t] = "expired"]
    /\ UNCHANGED <<thread, cancelled, entries, doneEvent, doneCalls, mainVars>>

\* swThreadInfoJoinWaitCallback
JoinWaitCallback(t) ==
    /\ Looping /\ timer[t] = "expired"
    /\ timer' = [timer EXCEPT ![t] = "off"]
    /\ IF thread[t] = "exited"
       THEN Clean(t) /\ UNCHANGED forcing
       ELSE forcing' = t /\ UNCHANGED <<doneCalls, doneEvent, entries>>
    /\ UNCHANGED <<thread, cancelled, phase, todo, stopping>>

\* Mutant: what was cancelled is cleaned and not waited for.
ForceJoinNow(t) ==
    /\ Clean(t)
    /\ cancelled' = cancelled \union {t}

\* swThreadInfoForceJoin joins and cleans when pthread_cancel fails, which it may do only
\* when the thread has exited; when it succeeds, nothing more is done for the thread.
ForceJoin(t) ==
    \/ thread[t] = "exited" /\ Clean(t) /\ UNCHANGED cancelled
    \/ cancelled' = cancelled \union {t} /\ UNCHANGED <<doneCalls, doneEvent, entries>>

ForceJoinStep ==
    /\ forcing # None /\ ForceJoin(forcing) /\ forcing' = None
    /\ UNCHANGED <<thread, timer, phase, todo, stopping>>

-------------------------------------------------------------------------------
(* swThreadManagerRelease                                                  *)

BeginRelease ==
    /\ phase = "open" /\ Free
    /\ phase' = "walk" /\ todo' = entries
    /\ UNCHANGED <<thread, cancelled, entries, doneEvent, timer, doneCalls, stopping,
                   forcing>>

\* swThreadInfoStop calls stopFunc ...
Stop(t) ==
    /\ phase = "walk" /\ stopping = None /\ t \in todo
    /\ stopping' = t /\ todo' = todo \ {t}
    /\ UNCHANGED <<thread, cancelled, entries, doneEvent, timer, doneCalls, phase, forcing>>

\* ... and tries to join.
StopFinalizes ==
    /\ stopping # None /\ Finalize(stopping, doneEvent) /\ stopping' = None
    /\ UNCHANGED <<thread, cancelled, phase, todo, forcing>>

\* The walk ends at the first entry without a timer, and all are forced.
StopGivesUp ==
    /\ stopping # None /\ FinalizeFails(stopping) /\ stopping' = None
    /\ phase' = "force" /\ todo' = entries
    /\ UNCHANGED <<thread, cancelled, entries, doneEvent, timer, doneCalls, forcing>>

WalkDone ==
    /\ phase = "walk" /\ stopping = None /\ todo = {}
    /\ phase' = "drain"
    /\ UNCHANGED <<thread, cancelled, entries, doneEvent, timer, doneCalls, todo,
                   stopping, forcing>>

\* The loop is run until no entry is left.
Drained ==
    /\ phase = "drain" /\ Free /\ entries = {}
    /\ phase' = "gone"
    /\ UNCHANGED <<thread, cancelled, entries, doneEvent, timer, doneCalls, todo,
                   stopping, forcing>>

\* swThreadInfoForceJoin is called as if it told the walk whether to go on: it may end
\* after any entry.
ForceWalk(t) ==
    /\ phase = "force" /\ t \in todo
    /\ ForceJoin(t)
    /\ \E next \in {todo \ {t}, {}} : todo' = next
    /\ UNCHANGED <<thread, timer, phase, stopping, forcing>>

\* The memory of the entries goes, whatever became of them.
ForceDone ==
    /\ phase = "force" /\ todo = {}
    /\ phase' = "freed" /\ entries' = {}
    /\ UNCHANGED <<thread, cancelled, doneEvent, timer, doneCalls, todo, stopping,
                   forcing>>

Callback == \/ \E t \in Threads : DoneCallback(t) \/ JoinWaitCallback(t)
            \/ ForceJoinStep

Release == \/ \E t \in Threads : Stop(t) \/ ForceWalk(t)
           \/ StopFinalizes \/ StopGivesUp \/ WalkDone \/ Drained \/ ForceDone

Next ==
    \/ \E t \in Threads : \/ RunReturns(t) \/ SendDone(t) \/ Exit(t) \/ ExitCancelled(t)
                          \/ StartThread(t) \/ StartFails(t) \/ Expire(t)
    \/ Callback \/ BeginRelease \/ Release

Spec == Init /\ [][Next]_vars

\* The main thread goes on, timers expire, threads that returned exit, and threads that
\* were cancelled get to a cancellation point.
FairSpec ==
    /\ Spec /\ WF_vars(Callback) /\ WF_vars(Release)
    /\ \A t \in Threads :
         WF_vars(Expire(t)) /\ WF_vars(SendDone(t) \/ Exit(t)) /\ WF_vars(ExitCancelled(t))

-------------------------------------------------------------------------------
\* What the variables are.
TypeOK ==
    /\ thread \in [Threads -> {"none", "running", "returned", "sent", "exited", "failed"}]
    /\ \A S \in {cancelled, entries, doneEvent, todo} : S \subseteq Threads
    /\ timer \in [Threads -> {"off", "armed", "expired"}]
    /\ doneCalls \in [Threads -> 0 .. 1]
    /\ phase \in {"open", "walk", "drain", "force", "gone", "freed"}
    /\ {stopping, forcing} \subseteq Threads \union {None}

\* doneFunc is called once and when the thread no longer runs, so that it may free the
\* data, on whichever of the ways through done event, timer, stop and cancellation.
DoneAfterExit == \A t \in Threads :
    /\ doneCalls[t] <= 1
    /\ doneCalls[t] = 1 => thread[t] \in {"exited", "failed"}

\* The entry of a thread outlives its last use by the thread, the done event, unless the
\* walk of the release gave up and the entries were freed at once.
EntryOutlivesThread == \A t \in Threads :
    thread[t] \in {"running", "returned"} /\ phase # "freed" => t \in entries

\* A thread is reported done when it has exited, and keeps its entry until then.
DoneInOrder == DoneAfterExit /\ EntryOutlivesThread

\* The loop has no watcher inside an entry that was removed, with the same exception and
\* while it forces its entries.
WatchersInEntries == \A t \in Threads :
    phase \notin {"force", "freed"} /\ (t \in doneEvent \/ timer[t] # "off") => t \in entries

\* What the safety properties rest on: entries belong to threads that were started and not
\* yet reported done, and the main thread is at work only on entries that exist.
EntriesInv == \A t \in Threads :
    /\ thread[t] \in {"none", "running", "returned", "sent"} => doneCalls[t] = 0
    /\ t \in entries => doneCalls[t] = 0 /\ thread[t] \notin {"none", "failed"}
    /\ thread[t] \in {"running", "returned", "sent"} /\ phase # "freed" => t \in entries
MainInv ==
    /\ stopping # None => stopping \in entries /\ phase = "walk"
    /\ forcing # None => /\ forcing \in entries /\ timer[forcing] = "off"
                        /\ phase \in {"open", "drain"}
    /\ phase \in {"walk", "force"} => todo \subseteq entries \ {stopping}
IInv == TypeOK /\ EntriesInv /\ MainInv /\ WatchersInEntries

\* Releasing the manager returns: threads that have not exited in time are cancelled.
ReleaseReturns == phase = "walk" ~> phase \in {"gone", "freed"}

\* It does unless some thread was cancelled.
ReleaseReturnsInTime ==
    phase = "walk" ~> phase \in {"gone", "freed"} \/ cancelled # {}

\* A thread that has exited is joined, and its entry removed, unless it was cancelled.
ExitedJoined == \A t \in Threads :
    thread[t] = "exited" ~> t \notin entries \/ t \in cancelled
===============================================================================

-------------------------- MODULE ThreadManagerProofs --------------------------
(***************************************************************************)
(* Safety of the thread manager for any set of threads.                    *)
(***************************************************************************)
EXTENDS ThreadManager, TLAPS

\* The invariant holds before a thread is started.
LEMMA InitIInv == Init => IInv
  BY ThreadManagerAssumption
     DEF Init, IInv, TypeOK, EntriesInv, MainInv, WatchersInEntries

\* The threads keep it: sending the done event finds the entry.
LEMMA ThreadStep ==
  ASSUME IInv, NEW t \in Threads,
         RunReturns(t) \/ SendDone(t) \/ Exit(t) \/ ExitCancelled(t)
  PROVE  IInv'
<1>1. TypeOK'
  BY DEF IInv, TypeOK, RunReturns, SendDone, Exit, ExitCancelled, mainVars
<1>2. EntriesInv'
  BY DEF IInv, TypeOK, EntriesInv, RunReturns, SendDone, Exit, ExitCancelled, mainVars
<1>3. MainInv'
  BY DEF IInv, MainInv, RunReturns, SendDone, Exit, ExitCancelled, mainVars
<1>4. WatchersInEntries'
  BY DEF IInv, TypeOK, EntriesInv, WatchersInEntries, RunReturns, SendDone, Exit,
         ExitCancelled, mainVars
<1> QED
  BY <1>1, <1>2, <1>3, <1>4 DEF IInv

\* Starting a thread keeps it, and so does failing to, which reports the thread as done.
LEMMA StartStep ==
  ASSUME IInv, NEW t \in Threads, StartThread(t) \/ StartFails(t)
  PROVE  IInv'
<1>1. TypeOK'
  BY DEF IInv, TypeOK, EntriesInv, StartThread, StartFails, mainVars
<1>2. EntriesInv'
  BY DEF IInv, TypeOK, EntriesInv, StartThread, StartFails, mainVars
<1>3. MainInv'
  BY DEF IInv, MainInv, StartThread, StartFails, mainVars, Free
<1>4. WatchersInEntries'
  BY DEF IInv, WatchersInEntries, StartThread, StartFails, mainVars
<1> QED
  BY <1>1, <1>2, <1>3, <1>4 DEF IInv

\* Cleaning the entry of a thread that has exited: doneFunc had not been called.
LEMMA CleanKeeps ==
  ASSUME IInv, NEW t \in entries, thread[t] = "exited", Clean(t),
         UNCHANGED <<thread, phase>>
  PROVE  /\ doneCalls' \in [Threads -> 0 .. 1]
         /\ entries' \subseteq Threads /\ doneEvent' \subseteq Threads
         /\ EntriesInv'
<1>1. t \in Threads /\ entries \subseteq Threads /\ doneEvent \subseteq Threads
  BY DEF IInv, TypeOK
<1>2. doneCalls[t] = 0
  BY <1>1 DEF IInv, EntriesInv
<1>3. doneCalls' \in [Threads -> 0 .. 1]
  BY <1>1, <1>2 DEF IInv, TypeOK, Clean
<1>4. EntriesInv'
  BY <1>1 DEF IInv, TypeOK, EntriesInv, Clean
<1> QED
  BY <1>1, <1>3, <1>4 DEF Clean

\* Joining a thread or arming its timer, in the done callback and when it is stopped.
LEMMA FinalizeKeeps ==
  ASSUME IInv, NEW t \in entries, NEW events \in SUBSET doneEvent, Finalize(t, events),
         phase \notin {"force", "freed"}, UNCHANGED <<thread, phase>>
  PROVE  /\ doneCalls' \in [Threads -> 0 .. 1]
         /\ entries' \subseteq Threads /\ doneEvent' \subseteq Threads
         /\ timer' \in [Threads -> {"off", "armed", "expired"}]
         /\ EntriesInv' /\ WatchersInEntries' /\ entries \ {t} \subseteq entries'
<1>1. t \in Threads /\ entries \subseteq Threads /\ doneEvent \subseteq Threads
      /\ timer \in [Threads -> {"off", "armed", "expired"}]
  BY DEF IInv, TypeOK
<1>2. CASE thread[t] = "exited" /\ Clean(t) /\ timer' = [timer EXCEPT ![t] = "off"]
  <2>1. WatchersInEntries'
    BY <1>1, <1>2 DEF IInv, WatchersInEntries, Clean
  <2> QED
    BY <1>1, <1>2, <2>1, CleanKeeps DEF Clean
<1>3. CASE /\ thread[t] # "exited"
           /\ \/ timer[t] = "off" /\ timer' = [timer EXCEPT ![t] = "armed"]
              \/ timer[t] # "off" /\ UNCHANGED timer
           /\ doneEvent' = events /\ UNCHANGED <<doneCalls, entries>>
  <2>1. timer' \in [Threads -> {"off", "armed", "expired"}]
    BY <1>1, <1>3
  <2>2. EntriesInv'
    BY <1>3 DEF IInv, EntriesInv
  <2>3. WatchersInEntries'
    BY <1>1, <1>3 DEF IInv, WatchersInEntries
  <2> QED
    BY <1>1, <1>3, <2>1, <2>2, <2>3 DEF IInv, TypeOK
<1> QED
  BY <1>2, <1>3 DEF Finalize

\* Forcing an entry: a thread that could not be cancelled has exited.
LEMMA ForceJoinKeeps ==
  ASSUME IInv, NEW t \in entries, ForceJoin(t), UNCHANGED <<thread, phase>>
  PROVE  /\ doneCalls' \in [Threads -> 0 .. 1]
         /\ entries' \subseteq Threads /\ doneEvent' \subseteq Threads
         /\ cancelled' \subseteq Threads
         /\ EntriesInv' /\ entries \ {t} \subseteq entries' /\ doneEvent' \subseteq doneEvent
<1>1. t \in Threads /\ cancelled \subseteq Threads
  BY DEF IInv, TypeOK
<1>2. CASE thread[t] = "exited" /\ Clean(t) /\ UNCHANGED cancelled
  BY <1>1, <1>2, CleanKeeps DEF Clean
<1>3. CASE cancelled' = cancelled \union {t} /\ UNCHANGED <<doneCalls, doneEvent, entries>>
  BY <1>1, <1>3 DEF IInv, TypeOK, EntriesInv
<1> QED
  BY <1>2, <1>3 DEF ForceJoin

\* The callback of the done event.
LEMMA DoneStep ==
  ASSUME IInv, NEW t \in Threads, DoneCallback(t)
  PROVE  IInv'
<1>1. t \in entries /\ phase \notin {"force", "freed", "walk"} /\ Free
  BY DEF IInv, WatchersInEntries, DoneCallback, Looping
<1>2. CASE Finalize(t, doneEvent \ {t}) /\ UNCHANGED forcing
  <2>1. MainInv'
    BY <1>1, <1>2 DEF IInv, MainInv, DoneCallback, Free
  <2> QED
    BY <1>1, <1>2, <2>1, FinalizeKeeps DEF IInv, TypeOK, DoneCallback
<1>3. CASE FinalizeFails(t) /\ forcing' = t /\ doneEvent' = doneEvent \ {t}
           /\ UNCHANGED <<timer, doneCalls, entries>>
  <2>1. MainInv'
    BY <1>1, <1>3 DEF IInv, MainInv, DoneCallback, FinalizeFails, Free, Looping
  <2>2. TypeOK' /\ EntriesInv' /\ WatchersInEntries'
    BY <1>1, <1>3 DEF IInv, TypeOK, EntriesInv, WatchersInEntries, DoneCallback
  <2> QED
    BY <2>1, <2>2 DEF IInv
<1> QED
  BY <1>2, <1>3 DEF DoneCallback

\* The end of the time for joining, and the callback of its timer.
LEMMA TimerStep ==
  ASSUME IInv, NEW t \in Threads, Expire(t) \/ JoinWaitCallback(t)
  PROVE  IInv'
<1>1. CASE Expire(t)
  <2>1. TypeOK' /\ EntriesInv'
    BY <1>1 DEF IInv, TypeOK, EntriesInv, Expire, mainVars
  <2>2. MainInv'
    BY <1>1 DEF IInv, TypeOK, MainInv, Expire, mainVars
  <2>3. WatchersInEntries'
    BY <1>1 DEF IInv, TypeOK, WatchersInEntries, Expire, mainVars
  <2> QED
    BY <2>1, <2>3, <2>2 DEF IInv
<1>2. CASE JoinWaitCallback(t)
  <2>1. t \in entries /\ phase \notin {"force", "freed", "walk"} /\ Free
    BY <1>2 DEF IInv, WatchersInEntries, JoinWaitCallback, Looping
  <2>2. timer' \in [Threads -> {"off", "armed", "expired"}]
    BY <1>2 DEF IInv, TypeOK, JoinWaitCallback
  <2>3. MainInv'
    BY <1>2, <2>1 DEF IInv, TypeOK, MainInv, JoinWaitCallback, Free, Looping, Clean
  <2>4. WatchersInEntries'
    BY <1>2, <2>1 DEF IInv, TypeOK, WatchersInEntries, JoinWaitCallback, Clean
  <2>5. CASE thread[t] = "exited"
    BY <1>2, <2>1, <2>2, <2>3, <2>4, <2>5, CleanKeeps DEF IInv, TypeOK, JoinWaitCallback
  <2>6. CASE thread[t] # "exited"
    <3>1. TypeOK' /\ EntriesInv'
      BY <1>2, <2>2, <2>6 DEF IInv, TypeOK, EntriesInv, JoinWaitCallback
    <3> QED
      BY <2>3, <2>4, <3>1 DEF IInv
  <2> QED
    BY <2>5, <2>6
<1> QED
  BY <1>1, <1>2

\* Forcing what a callback could not join.
LEMMA ForceStep ==
  ASSUME IInv, ForceJoinStep
  PROVE  IInv'
<1>1. forcing \in entries /\ phase \in {"open", "drain"} /\ stopping = None
  BY DEF IInv, MainInv, ForceJoinStep
<1>2. MainInv'
  BY <1>1 DEF IInv, MainInv, ForceJoinStep
<1>3. WatchersInEntries'
  BY <1>1 DEF IInv, MainInv, WatchersInEntries, ForceJoinStep, ForceJoin, Clean
<1> QED
  BY <1>1, <1>2, <1>3, ForceJoinKeeps DEF IInv, TypeOK, ForceJoinStep

\* The release: asking the threads to stop, joining those that did.
LEMMA StopStep ==
  ASSUME IInv, (\E t \in Threads : Stop(t)) \/ StopFinalizes \/ StopGivesUp
  PROVE  IInv'
<1>1. CASE \E t \in Threads : Stop(t)
  <2>1. PICK t \in Threads : Stop(t)
    BY <1>1
  <2>2. TypeOK' /\ EntriesInv' /\ WatchersInEntries'
    BY <2>1 DEF IInv, TypeOK, EntriesInv, WatchersInEntries, Stop
  <2>3. MainInv'
    BY <2>1 DEF IInv, MainInv, Stop
  <2> QED
    BY <2>2, <2>3 DEF IInv
<1>2. CASE StopFinalizes
  <2>1. stopping \in entries /\ phase = "walk" /\ forcing = None /\ doneEvent \in SUBSET doneEvent
    BY <1>2 DEF IInv, MainInv, StopFinalizes
  <2>2. UNCHANGED <<thread, phase, cancelled, todo, forcing>> /\ stopping' = None
        /\ Finalize(stopping, doneEvent)
    BY <1>2 DEF StopFinalizes
  <2>3. /\ doneCalls' \in [Threads -> 0 .. 1]
        /\ entries' \subseteq Threads /\ doneEvent' \subseteq Threads
        /\ timer' \in [Threads -> {"off", "armed", "expired"}]
        /\ EntriesInv' /\ WatchersInEntries' /\ entries \ {stopping} \subseteq entries'
    BY <2>1, <2>2, FinalizeKeeps
  <2>4. None \notin entries
    BY ThreadManagerAssumption DEF IInv, TypeOK
  <2>5. MainInv'
    BY <2>1, <2>2, <2>3, <2>4 DEF IInv, MainInv
  <2> QED
    BY <2>2, <2>3, <2>5 DEF IInv, TypeOK
<1>3. CASE StopGivesUp
  <2>1. TypeOK' /\ EntriesInv' /\ WatchersInEntries'
    BY <1>3 DEF IInv, TypeOK, EntriesInv, MainInv, WatchersInEntries, StopGivesUp
  <2>2. MainInv'
    BY <1>3, ThreadManagerAssumption DEF IInv, TypeOK, MainInv, StopGivesUp
  <2> QED
    BY <2>1, <2>2 DEF IInv
<1> QED
  BY <1>1, <1>2, <1>3

\* The rest of the release.
LEMMA ReleaseStep ==
  ASSUME IInv, BeginRelease \/ WalkDone \/ Drained \/ ForceDone
  PROVE  IInv'
<1>1. TypeOK'
  BY DEF IInv, TypeOK, BeginRelease, WalkDone, Drained, ForceDone
<1>2. EntriesInv'
  BY DEF IInv, EntriesInv, BeginRelease, WalkDone, Drained, ForceDone
<1>3. MainInv'
  BY ThreadManagerAssumption
     DEF IInv, TypeOK, MainInv, BeginRelease, WalkDone, Drained, ForceDone, Free
<1>4. WatchersInEntries'
  BY DEF IInv, WatchersInEntries, BeginRelease, WalkDone, Drained, ForceDone
<1> QED
  BY <1>1, <1>2, <1>3, <1>4 DEF IInv

\* The walk that forces all entries.
LEMMA ForceWalkStep ==
  ASSUME IInv, NEW t \in Threads, ForceWalk(t)
  PROVE  IInv'
<1>1. t \in entries /\ phase = "force" /\ stopping = None /\ forcing = None
  BY DEF IInv, MainInv, ForceWalk
<1>2. UNCHANGED <<thread, timer, phase, stopping, forcing>> /\ ForceJoin(t)
      /\ todo' \subseteq todo \ {t}
  BY DEF ForceWalk
<1>3. /\ doneCalls' \in [Threads -> 0 .. 1]
      /\ entries' \subseteq Threads /\ doneEvent' \subseteq Threads
      /\ cancelled' \subseteq Threads
      /\ EntriesInv' /\ entries \ {t} \subseteq entries'
  BY <1>1, <1>2, ForceJoinKeeps
<1>4. MainInv'
  BY <1>1, <1>2, <1>3 DEF IInv, MainInv
<1>5. WatchersInEntries'
  BY <1>1, <1>2 DEF WatchersInEntries
<1>6. TypeOK'
  BY <1>2, <1>3 DEF IInv, TypeOK
<1> QED
  BY <1>3, <1>4, <1>5, <1>6 DEF IInv

\* Every step keeps the invariant.
LEMMA NextIInv == IInv /\ [Next]_vars => IInv'
<1> SUFFICES ASSUME IInv, [Next]_vars PROVE IInv'
  OBVIOUS
<1>1. CASE Next
  <2>1. CASE \E t \in Threads : RunReturns(t) \/ SendDone(t) \/ Exit(t) \/ ExitCancelled(t)
    BY <2>1, ThreadStep
  <2>2. CASE \E t \in Threads : StartThread(t) \/ StartFails(t)
    BY <2>2, StartStep
  <2>3. CASE \E t \in Threads : Expire(t) \/ JoinWaitCallback(t)
    BY <2>3, TimerStep
  <2>4. CASE \E t \in Threads : DoneCallback(t)
    BY <2>4, DoneStep
  <2>5. CASE ForceJoinStep
    BY <2>5, ForceStep
  <2>6. CASE (\E t \in Threads : Stop(t)) \/ StopFinalizes \/ StopGivesUp
    BY <2>6, StopStep
  <2>7. CASE BeginRelease \/ WalkDone \/ Drained \/ ForceDone
    BY <2>7, ReleaseStep
  <2>8. CASE \E t \in Threads : ForceWalk(t)
    BY <2>8, ForceWalkStep
  <2> QED
    BY <1>1, <2>1, <2>2, <2>3, <2>4, <2>5, <2>6, <2>7, <2>8 DEF Next, Callback, Release
<1>2. CASE UNCHANGED vars
  BY <1>2 DEF vars, mainVars, IInv, TypeOK, EntriesInv, MainInv, WatchersInEntries
<1> QED
  BY <1>1, <1>2

\* The invariant, for any set of threads: entries belong to threads that were started and
\* not reported done, and the loop has watchers only in entries.
THEOREM Invariance == Spec => []IInv
  BY InitIInv, NextIInv, PTL DEF Spec

\* doneFunc is called at most once, after the thread has exited.
THEOREM DoneOnceAfterExit == Spec => []DoneAfterExit
<1>1. IInv => DoneAfterExit
  BY DEF IInv, TypeOK, EntriesInv, DoneAfterExit
<1> QED
  BY <1>1, Invariance, PTL

\* A thread finds its entry when it sends the done event.
THEOREM EntriesOutlive == Spec => []EntryOutlivesThread
<1>1. IInv => EntryOutlivesThread
  BY DEF IInv, EntriesInv, EntryOutlivesThread
<1> QED
  BY <1>1, Invariance, PTL

\* Both together: done is reported after the exit, and the entry is there until then.
THEOREM EndsInOrder == Spec => []DoneInOrder
  BY DoneOnceAfterExit, EntriesOutlive, PTL DEF DoneInOrder

\* No watcher of the loop is left in an entry that was removed.
THEOREM NoWatcherLeft == Spec => []WatchersInEntries
<1>1. IInv => WatchersInEntries
  BY DEF IInv
<1> QED
  BY <1>1, Invariance, PTL
===============================================================================

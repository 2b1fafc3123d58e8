------------------------------ MODULE ThreadedTest ------------------------------
(***************************************************************************)
(* A test that is run by several threads: src/thread/threaded-test.c, with *)
(* the tests that use it, src/log/async-writer-test.c and the two tests of *)
(* the ring buffers.  The threads work, and the main thread runs its event *)
(* loop until the event killLoop tells it that the work is done.           *)
(***************************************************************************)
EXTENDS Naturals, FiniteSetsExt

CONSTANTS
    Counts, \* the numbers of threads of a test
    Share   \* the work of each thread

VARIABLES
    kind,       \* the test: "writer", "ring" or "futexRing"
    numThreads,
    stage,      \* of the main thread: "setup", "stopping" when a thread did not start,
                \* "running" the loop, "teardown", and "failed" and "over" at the end
    threads,    \* the state of each: "none", "working", "ended", "done"
    worked,     \* what each has written or published
    told,       \* shutdown of each
    consumed,   \* bytes the ring's consumer has counted
    events,     \* the count in the descriptor of killLoop
    received, expected, \* receivedEventCount and expectedEventCount
    killOpen    \* whether there is a killLoop to send to

testVars == <<kind, numThreads, stage, threads, worked, told, consumed, events, received,
              expected, killOpen>>
mainVars == <<kind, numThreads, stage, received, expected, killOpen>>

Threads == 1 .. numThreads
Working == {t \in Threads : threads[t] = "working"}
Unfinished == {t \in Threads : threads[t] \in {"working", "ended"}}
Total == numThreads * Share
Finished == {w \in Threads \X (1 .. Share) : w[2] <= worked[w[1]]} \* pieces of their work
WorkDone == Cardinality(Finished)
Looping == stage \in {"running", "stopping", "teardown"}

\* swThreadedTestSetup up to the threads; the test's own setup function may set how many
\* events are expected.
Init ==
    /\ kind \in {"writer", "ring", "futexRing"} /\ numThreads \in Counts
    /\ stage = "setup"
    /\ threads = [t \in Threads |-> "none"]
    /\ worked = [t \in Threads |-> 0] /\ told = [t \in Threads |-> FALSE]
    /\ consumed = 0 /\ events = 0 /\ received = 0
    /\ expected = IF kind = "writer" THEN numThreads ELSE 1
    /\ killOpen = TRUE

-------------------------------------------------------------------------------
(* The threads                                                             *)

\* A message is logged, or bytes are acquired and released.
Work(t) ==
    /\ t \in Working /\ ~told[t] /\ worked[t] < Share
    /\ worked' = [worked EXCEPT ![t] = @ + 1]
    /\ UNCHANGED <<mainVars, threads, told, consumed, events>>

\* swAsyncWriterThreadDataRun returns; a thread that has written all sends.
WriterEnds(t) ==
    /\ kind = "writer" /\ t \in Working /\ (told[t] \/ worked[t] = Share)
    /\ threads' = [threads EXCEPT ![t] = "ended"]
    /\ events' = IF worked[t] = Share THEN events + 1 ELSE events
    /\ UNCHANGED <<mainVars, worked, told, consumed>>

\* swMPSCRingBufferThreadDataRun returns
RingEnds(t) ==
    /\ kind \in {"ring", "futexRing"} /\ t \in Working /\ (told[t] \/ worked[t] = Share)
    /\ threads' = [threads EXCEPT ![t] = "ended"]
    /\ UNCHANGED <<mainVars, worked, told, consumed, events>>

\* swMPSCFutexRingBufferThreadDataRun gives up when a release fails.
FutexRingFails(t) ==
    /\ kind = "futexRing" /\ t \in Working /\ worked[t] < Share
    /\ threads' = [threads EXCEPT ![t] = "ended"]
    /\ UNCHANGED <<mainVars, worked, told, consumed, events>>

\* ringBufferConsumeFunction, with any part of what is published
RingConsume ==
    /\ kind \in {"ring", "futexRing"}
    /\ consumed' \in consumed + 1 .. WorkDone
    /\ events' = IF consumed' = Total THEN events + 1 ELSE events
    /\ UNCHANGED <<mainVars, threads, worked, told>>

-------------------------------------------------------------------------------
(* The main thread                                                         *)

\* A thread is started, or cannot be.
StartThread ==
    /\ stage = "setup"
    /\ LET started == {t \in Threads : threads[t] # "none"}
       IN  /\ threads' = [threads EXCEPT ![Cardinality(started) + 1] = "working"]
           /\ stage' = IF Cardinality(started) + 1 = numThreads THEN "running" ELSE "setup"
    /\ UNCHANGED <<kind, numThreads, worked, told, consumed, events, received, expected,
                   killOpen>>

StartThreadFails ==
    /\ stage = "setup" /\ stage' = "stopping"
    /\ UNCHANGED <<kind, numThreads, threads, worked, told, consumed, events, received,
                   expected, killOpen>>

\* The threads that did start are told to stop, the last one first, and waited for; then
\* all is given back.  The test is run all the same, on what is left.
StopThread ==
    /\ stage = "stopping"
    /\ IF Unfinished # {}
       THEN told' = [told EXCEPT ![Max(Unfinished)] = TRUE] /\ UNCHANGED <<stage, killOpen>>
       ELSE stage' = "failed" /\ killOpen' = FALSE /\ UNCHANGED told
    /\ UNCHANGED <<kind, numThreads, threads, worked, consumed, events, received, expected>>

\* testDoneFunction, which the loop calls for a thread that has ended.
ThreadDone(t) ==
    /\ Looping /\ threads[t] = "ended"
    /\ threads' = [threads EXCEPT ![t] = "done"]
    /\ UNCHANGED <<mainVars, worked, told, consumed, events>>

\* Mutant: the first event ends the loop.
KillLoopAtOnce ==
    /\ stage \in {"running", "stopping"} /\ events > 0
    /\ received' = received + events /\ events' = 0
    /\ stage' = IF stage = "running" THEN "teardown" ELSE stage
    /\ killOpen' = (stage' # "teardown")
    /\ UNCHANGED <<kind, numThreads, threads, worked, told, consumed, expected>>

\* killLoop: the last event that is expected breaks the loop, which is how
\* swThreadedTestRun returns; swThreadedTestTeardown closes the event first of all.
KillLoop ==
    /\ stage \in {"running", "stopping"} /\ events > 0
    /\ received' = received + events /\ events' = 0
    /\ stage' = IF stage = "running" /\ received' = expected THEN "teardown" ELSE stage
    /\ killOpen' = (stage' # "teardown")
    /\ UNCHANGED <<kind, numThreads, threads, worked, told, consumed, expected>>

\* Releasing the thread manager tells all threads to stop and waits for them.
Teardown ==
    /\ stage = "teardown"
    /\ IF Unfinished # {} THEN told' = [t \in Threads |-> TRUE] /\ UNCHANGED stage
                          ELSE stage' = "over" /\ UNCHANGED told
    /\ UNCHANGED <<kind, numThreads, threads, worked, consumed, events, received, expected,
                   killOpen>>

Next ==
    \/ \E t \in Threads : Work(t) \/ WriterEnds(t) \/ RingEnds(t) \/ FutexRingFails(t)
                          \/ ThreadDone(t)
    \/ RingConsume \/ StartThread \/ StartThreadFails \/ StopThread \/ KillLoop \/ Teardown

-------------------------------------------------------------------------------
\* The loop of a test is left when all of its work is done, not before, and is left then:
\* while it runs, somebody has work to do or an event is on its way, unless a release
\* failed.  Once the event is closed nobody is left who would send it.
LoopLeftInTime ==
    LET all == WorkDone = Total /\ (kind = "writer" \/ consumed = Total)
        failed == \E t \in Threads : threads[t] \in {"ended", "done"} /\ worked[t] < Share
    IN  /\ stage \in {"teardown", "over"} => all
        /\ stage = "running" /\ ~failed => Working # {} \/ ~all \/ events > 0
        /\ ~killOpen => IF kind = "writer" THEN Working = {}
                        ELSE WorkDone = Total => consumed = Total
===============================================================================

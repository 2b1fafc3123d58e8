------------------------- MODULE MPSCFutexRingBufferMC -------------------------
(***************************************************************************)
(* MPSCFutexRingBuffer for TLC, and its refinement of ReservedStream.      *)
(***************************************************************************)
EXTENDS MPSCFutexRingBuffer

Stream == INSTANCE ReservedStream
            WITH Capacity <- Size - 1, published <- Published

\* This ring keeps the same promise as MPSCRingBuffer: the bytes reserved form
\* one stream, published message by message and delivered in order.
ImplementsStream == Stream!Spec

\* Nobody sleeps for ever: producers get out of their release, the consumer gets what they
\* released, and the release of the ring returns although stopping it wakes nobody.
NobodyStuck == RegionsPublished /\ PublishedDelivered /\ ReleaseReturns

\* The regions do not overlap, and the consumer that stops has consumed what was released
\* before it was told to.
Sound == TypeOK /\ NoOverlap /\ StopDrains
===============================================================================

--------------------------- MODULE MPSCRingBufferMC ---------------------------
(***************************************************************************)
(* MPSCRingBuffer for TLC, and its refinement of ReservedStream.           *)
(***************************************************************************)
EXTENDS MPSCRingBuffer

Stream == INSTANCE ReservedStream
            WITH Capacity <- Size - 1, published <- Published

\* The ring implements the stream it promises: Reserve is the store of
\* candidateTail, Publish the CAS on currentTail, Deliver the call of
\* consumeFunc; every other step of the code is invisible.
ImplementsStream == Stream!Spec

\* A message that was written is published and handed to consumeFunc.
MessagesArrive == RegionsPublished /\ PublishedDelivered
===============================================================================

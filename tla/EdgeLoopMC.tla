------------------------------ MODULE EdgeLoopMC -------------------------------
(***************************************************************************)
(* The event loop with few watchers of each kind.                          *)
(***************************************************************************)
EXTENDS EdgeLoop

CONSTANTS a, s, x, R, W

OneCounter == {a}
OneSignal == {s}
NoWatcher == {}
OneIO == {x}
ReadOnly == {R}
ReadWrite == {R, W}

-------------------------------------------------------------------------------
\* As long as the loop runs, every event and every count reaches its callback.
EventsDelivered == EdgesDelivered /\ CountsDelivered
===============================================================================

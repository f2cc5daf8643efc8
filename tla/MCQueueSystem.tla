---------------------------- MODULE MCQueueSystem ----------------------------
(* Two producers and two consumers, one of which waits with a timeout.       *)
EXTENDS QueueSystem

CONSTANTS p1, p2, waiter, timedWaiter

MCProducers == {p1, p2}
MCConsumers == {waiter, timedWaiter}
MCTimed == {timedWaiter}
=============================================================================

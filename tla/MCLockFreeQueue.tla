-------------------------- MODULE MCLockFreeQueue --------------------------
(* Two producers, one of which outgrows its block index, and the consumer; *)
(* positions wrap around at IndexRange.                                    *)
EXTENDS LockFreeQueue
CONSTANTS p1, p2, c, Items1, Items2
MCThreads == {p1, p2, c}
MCProducerList == <<p1, p2>>
MCMaxItems == [p \in {p1, p2} |-> IF p = p1 THEN Items1 ELSE Items2]
=============================================================================

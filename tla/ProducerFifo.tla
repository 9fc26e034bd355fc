---------------------------- MODULE ProducerFifo ----------------------------
(***************************************************************************)
(* What the request queue promises (moodycamel::ConcurrentQueue): it is one*)
(* FIFO per producer.  The elements of a producer come out once and in     *)
(* their order; nothing is said of the order of two producers.             *)
(***************************************************************************)
EXTENDS Naturals, Sequences

CONSTANT Producers

VARIABLES
  enqueued,  \* how many elements each producer has enqueued, 1, 2, ...
  received   \* those that have come out

Init ==
    /\ enqueued = [p \in Producers |-> 0]
    /\ received = [p \in Producers |-> <<>>]

Enqueue(p) ==
    /\ enqueued' = [enqueued EXCEPT ![p] = @ + 1]
    /\ UNCHANGED received

Dequeue(p, n) ==
    /\ received' = [received EXCEPT ![p] =
                     @ \o [i \in 1 .. n |-> Len(@) + i]]
    /\ UNCHANGED enqueued

Next ==
    \E p \in Producers :
      \/ Enqueue(p)
      \/ \E n \in 1 .. enqueued[p] - Len(received[p]) : Dequeue(p, n)

Spec == Init /\ [][Next]_<<enqueued, received>>
=============================================================================

---------------------------- MODULE SampleQueue ----------------------------
(***************************************************************************)
(* What a sample ring of onda_cpal promises to the two threads that share  *)
(* it: a bounded FIFO queue.  Samples are numbered in the order in which   *)
(* the ring accepted them, so a sample is its number; a sample the ring    *)
(* had no room for never gets one.                                         *)
(***************************************************************************)
EXTENDS Integers, Sequences

CONSTANT Capacity

VARIABLES
    accepted,  \* how many samples the queue has accepted so far
    queue,     \* the accepted samples that are neither taken nor dropped
    taken      \* what the last completed call of the consumer handed over

vars == <<accepted, queue, taken>>

Init == /\ accepted = 0
        /\ queue = <<>>
        /\ taken = <<>>

\* The producer's call returns n: n more samples are queued, in order.
Push(n) == /\ Len(queue) + n <= Capacity
           /\ accepted' = accepted + n
           /\ queue' = queue \o [i \in 1 .. n |-> accepted + i - 1]
           /\ UNCHANGED taken

\* The consumer's call returns n: the n oldest samples leave the queue.
Take(n) == /\ n <= Len(queue)
           /\ taken' = SubSeq(queue, 1, n)
           /\ queue' = SubSeq(queue, n + 1, Len(queue))
           /\ UNCHANGED accepted

\* discard_buffered: the oldest n samples, those published when it looked.
Drop(n) == /\ n <= Len(queue)
           /\ queue' = SubSeq(queue, n + 1, Len(queue))
           /\ UNCHANGED <<accepted, taken>>

Next == \E n \in 0 .. Capacity : Push(n) \/ Take(n) \/ Drop(n)

Spec == Init /\ [][Next]_vars
=============================================================================

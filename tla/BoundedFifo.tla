---------------------------- MODULE BoundedFifo ----------------------------
(***************************************************************************)
(* What a bounded queue between one producer and one consumer promises:    *)
(* items come out once each, in the order they went in, and never more     *)
(* than Capacity of them wait.                                             *)
(***************************************************************************)
EXTENDS Naturals, Sequences

CONSTANTS Item, Capacity

VARIABLES
    waiting,  \* the items in the queue, oldest first
    output    \* the items the consumer has taken, in order

vars == <<waiting, output>>

Init == waiting = <<>> /\ output = <<>>

Enqueue(x) ==
    /\ Len(waiting) < Capacity
    /\ waiting' = Append(waiting, x)
    /\ UNCHANGED output

Dequeue ==
    /\ waiting # <<>>
    /\ output' = Append(output, Head(waiting))
    /\ waiting' = Tail(waiting)

Next == (\E x \in Item : Enqueue(x)) \/ Dequeue

Safety == Init /\ [][Next]_vars

\* A consumer that keeps asking gets what waits.
Spec == Safety /\ WF_vars(Dequeue)
=============================================================================

---------------------------- MODULE BoundedQueue ----------------------------
(***************************************************************************)
(* What a bounded FIFO shared by several threads promises, with no lock,   *)
(* index or condition variable in sight: an element that is put stays in   *)
(* the queue, behind those put before it, until exactly one getter takes   *)
(* it.  CircularBuffer, the ring of the telemetry logger, and ProdCons,    *)
(* the queue of Project_1, implement it.                                   *)
(***************************************************************************)
EXTENDS Naturals, Sequences

CONSTANTS Elements,   \* what can be queued
          Getters,    \* the threads that take elements out
          Capacity    \* the most elements the queue holds

VARIABLES queue,      \* the elements put and not yet taken, oldest first
          got         \* got[g]: the element that getter g took last

vars == <<queue, got>>

TypeOK ==
    /\ queue \in Seq(Elements)
    /\ Len(queue) <= Capacity
    /\ got \in [Getters -> Elements]

Init ==
    /\ queue = <<>>
    /\ got \in [Getters -> Elements]

Put(e) ==
    /\ Len(queue) < Capacity
    /\ queue' = Append(queue, e)
    /\ UNCHANGED got

Get(g) ==
    /\ queue # <<>>
    /\ queue' = Tail(queue)
    /\ got' = [got EXCEPT ![g] = Head(queue)]

Next ==
    \/ \E e \in Elements : Put(e)
    \/ \E g \in Getters : Get(g)

Spec == Init /\ [][Next]_vars

=============================================================================

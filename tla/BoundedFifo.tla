---------------------------- MODULE BoundedFifo ----------------------------
(***************************************************************************)
(* What a bounded queue between one producer and one consumer promises,    *)
(* with no cursor, slot or counter: values come out in the order they went *)
(* in, each once, and never more than Capacity of them are inside.         *)
(*                                                                         *)
(* SpscRing (RingBuffer<T>::Push against RingBuffer<T>::Pop) implements    *)
(* this specification.                                                     *)
(***************************************************************************)
EXTENDS Naturals, Sequences

CONSTANTS Capacity,  \* how many values the queue holds
          Values,    \* what may be queued
          NoValue    \* what the consumer holds before its first Take

VARIABLES queue,     \* the queued values, oldest first
          data       \* the value the consumer was last given

vars == <<queue, data>>

Init == queue = <<>> /\ data = NoValue

\* The producer's value becomes the newest of the queue.
Put(v) ==
  /\ Len(queue) < Capacity
  /\ queue' = Append(queue, v)
  /\ UNCHANGED data

\* The consumer is given the oldest value of the queue, which leaves it.
Take ==
  /\ queue # <<>>
  /\ data' = Head(queue)
  /\ queue' = Tail(queue)

Next == Take \/ \E v \in Values : Put(v)

Spec == Init /\ [][Next]_vars
=============================================================================

------------------------------ MODULE EventQueue ------------------------------
(***************************************************************************)
(* What the drivers expect of their queue of asap or preblock events: what  *)
(* is pushed is triggered once, in order, unless the queue is cleared.      *)
(***************************************************************************)
EXTENDS Sequences

CONSTANTS Event

VARIABLES queue

Init == queue = <<>>

Push == \E e \in Event : queue' = Append(queue, e)
PopTrigger == queue # <<>> /\ queue' = Tail(queue)
Clear == queue' = <<>>

Spec == Init /\ [][Push \/ PopTrigger \/ Clear]_queue
===============================================================================

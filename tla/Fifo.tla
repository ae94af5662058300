------------------------------- MODULE Fifo --------------------------------
(***************************************************************************)
(* What a queue promises: objects leave in the order in which they came,   *)
(* each once, or all at once when the queue is cleared.                    *)
(***************************************************************************)
EXTENDS Sequences

CONSTANT Objects

VARIABLE queue

Init == queue = <<>>

Put(x) == queue' = Append(queue, x)

Take == queue # <<>> /\ queue' = Tail(queue)

Clear == queue' = <<>>

Next == (\E x \in Objects : Put(x)) \/ Take \/ Clear

Spec == Init /\ [][Next]_queue
=============================================================================

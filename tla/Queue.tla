------------------------------- MODULE Queue -------------------------------
(***************************************************************************)
(* wQueue (winpr/libwinpr/utils/collections/Queue.c): the queue of the     *)
(* thread pool and of several channels.  It is created synchronized        *)
(* everywhere, so each operation is one step whatever thread calls it.     *)
(***************************************************************************)
EXTENDS Ring

CONSTANT MaxObjects  \* bound: objects in the queue

ASSUME ObjectsAssumption == MaxObjects \in Nat \ {0}

VARIABLES
  slots,       \* array, head, tail, size and capacity
  objectEvent  \* queue->event is set

queueVars == <<slots, objectEvent>>

QueueInit == slots = Empty /\ objectEvent = FALSE   \* Queue_New

\* When realloc does not fail (then nothing changes).
Queue_Enqueue(x) ==
  /\ slots.size < MaxObjects
  /\ slots' = Put(slots, x)
  /\ objectEvent' = TRUE

\* When the queue is empty it returns NULL.
Queue_Dequeue ==
  /\ slots' = IF slots.size > 0 THEN Take(slots) ELSE slots
  /\ objectEvent' = IF slots'.size < 1 THEN FALSE ELSE objectEvent

\* The loop runs from head to tail: over nothing when the array is full.  The
\* event is left as it is.
Freed(r) == {Slot(r, k) : k \in 1..((r.tail - r.head) % r.capacity)}

Queue_Clear ==
  /\ slots' = Buffer([i \in 0..(slots.capacity - 1) |-> IF i \in Freed(slots) THEN Zero ELSE slots.array[i]],
                    0, 0, 0, slots.capacity)
  /\ UNCHANGED objectEvent

\* The loop runs over the slots before tail.
Queue_Contains(x) == \E i \in 0..(slots.tail - 1) : slots.array[i] = x

QueueNext == (\E x \in Objects : Queue_Enqueue(x)) \/ Queue_Dequeue \/ Queue_Clear

QueueSpec == QueueInit /\ [][QueueNext]_queueVars

----------------------------------------------------------------------------
(* Properties.                                                             *)

\* The ring keeps its shape, although Queue_Clear moves head and tail to the
\* start and may leave objects behind in the array.
QueueTypeOK == WellFormed(slots) /\ objectEvent \in BOOLEAN

\* A thread that waits for Queue_Event does not miss an object.
EventNotLost == slots.size > 0 => objectEvent

\* "Gets an event which is set when the queue is non-empty", and only then
\* (Queue_Event): what a thread relies on that waits before each Queue_Dequeue.
SetWhenNonEmpty == objectEvent <=> slots.size > 0

\* "Determines whether an element is in the Queue."
ContainsIsMembership ==
  \A x \in Objects : Queue_Contains(x) <=> \E i \in 1..slots.size : Content(slots)[i] = x

QueueAbstract == INSTANCE Fifo WITH queue <- Content(slots)

\* Objects leave in the order in which they came, each once (Queue_Enqueue,
\* Queue_Dequeue, Queue_Clear).
QueueImplementsFifo == QueueAbstract!Spec
=============================================================================

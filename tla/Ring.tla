------------------------------- MODULE Ring --------------------------------
(***************************************************************************)
(* The growing ring buffer inside wMessageQueue and wQueue                 *)
(* (winpr/libwinpr/utils/collections): a record with the array, the        *)
(* indices head and tail, the size and the capacity, and what the          *)
(* operations of the two queues do to it.                                  *)
(***************************************************************************)
EXTENDS Integers, Sequences

CONSTANTS
  Objects,          \* what callers put into the queue
  Zero,             \* a slot that was zeroed
  InitialCapacity,  \* 32 in the code
  GrowthFactor      \* 2 in MessageQueue_Dispatch, queue->growthFactor in Queue_Enqueue

ASSUME CapacityAssumption == InitialCapacity \in Nat \ {0}
ASSUME GrowthAssumption   == GrowthFactor \in Nat \ {0, 1}
ASSUME ZeroAssumption     == Zero \notin Objects

Buffer(array, head, tail, size, capacity) ==
  [array |-> array, head |-> head, tail |-> tail, size |-> size, capacity |-> capacity]

Empty == Buffer([i \in 0..(InitialCapacity - 1) |-> Zero], 0, 0, 0, InitialCapacity)

\* Mutated form of Moved: the wrapped entries stay where they are.
MovedNot(r, i) == IF i < r.capacity THEN r.array[i] ELSE Zero

\* The array after realloc: the new part is zeroed, and when the content is
\* wrapped the entries before tail are copied behind the old end.
Moved(r, i) ==
  IF i < r.capacity THEN r.array[i]
  ELSE IF r.tail <= r.head /\ i < r.capacity + r.tail THEN r.array[i - r.capacity] ELSE Zero

Grown(r) ==
  Buffer([i \in 0..(r.capacity * GrowthFactor - 1) |-> Moved(r, i)],
         r.head,
         IF r.tail <= r.head THEN r.tail + r.capacity ELSE r.tail,
         r.size,
         r.capacity * GrowthFactor)

Stored(r, x) ==
  Buffer([r.array EXCEPT ![r.tail] = x],
         r.head, (r.tail + 1) % r.capacity, r.size + 1, r.capacity)

Put(r, x) == Stored(IF r.size = r.capacity THEN Grown(r) ELSE r, x)

First(r) == r.array[r.head]

Take(r) ==
  Buffer([r.array EXCEPT ![r.head] = Zero],
         (r.head + 1) % r.capacity, r.tail, r.size - 1, r.capacity)

----------------------------------------------------------------------------
\* The slot of the i-th object, and the objects in their order.
Slot(r, i) == (r.head + (i - 1)) % r.capacity
Content(r) == [i \in 1..r.size |-> r.array[Slot(r, i)]]

\* The shape every operation relies on: the indices are slots, and tail is as
\* far from head as there are objects.
WellFormed(r) ==
  /\ r.capacity \in Nat \ {0}
  /\ r.array \in [0..(r.capacity - 1) -> Objects \cup {Zero}]
  /\ r.head \in 0..(r.capacity - 1) /\ r.tail \in 0..(r.capacity - 1)
  /\ r.size \in 0..r.capacity
  /\ r.tail = (r.head + r.size) % r.capacity
  /\ \A i \in 1..r.size : r.array[Slot(r, i)] \in Objects
=============================================================================

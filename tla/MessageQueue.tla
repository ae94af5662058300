---------------------------- MODULE MessageQueue ---------------------------
(***************************************************************************)
(* wMessageQueue (winpr/libwinpr/utils/collections/MessageQueue.c), which  *)
(* carries messages between the threads of FreeRDP: updates, channel data, *)
(* the messages of the shadow server.  Every operation but the wait for    *)
(* the event runs inside the critical section of the queue and is one step *)
(* (CriticalSection shows that the section excludes other threads).  The   *)
(* event has manual reset.  A message is reduced to its identity; its time *)
(* stamp is left out, nothing reads it.                                    *)
(***************************************************************************)
EXTENDS Ring

CONSTANTS
  Producers,  \* threads that post
  Consumers,  \* threads that wait and take
  Quit,       \* the message WMQ_QUIT
  MaxSize     \* bound: messages in the queue

ASSUME QuitAssumption == Quit \in Objects
ASSUME SizeAssumption == MaxSize \in Nat \ {0}

VARIABLES
  ring,    \* array, head, tail, size and capacity
  event,   \* queue->event is set
  posting, \* posting[p]: p has PostQuit still to call
  pc       \* pc[c]: "outside", "awake" (returned from MessageQueue_Wait) or "done"

vars == <<ring, event, posting, pc>>

Init ==   \* MessageQueue_New
  /\ ring = Empty
  /\ event = FALSE
  /\ posting = [p \in Producers |-> TRUE]
  /\ pc = [c \in Consumers |-> "outside"]

\* Mutated form of MessageQueue_Dispatch: the event is set only when the queue
\* already held a message.
MessageQueue_DispatchLate(x) ==
  /\ ring.size < MaxSize
  /\ event' = (ring.size > 0)
  /\ ring' = Put(ring, x)

\* MessageQueue_Dispatch, when realloc does not fail (then it returns FALSE and
\* the queue is as before).
MessageQueue_Dispatch(x) ==
  /\ ring.size < MaxSize
  /\ ring' = Put(ring, x)
  /\ event' = TRUE

\* Mutated form of Removed: the event stays set.
RemovedSilent == ring' = Take(ring) /\ UNCHANGED event

\* The removal in MessageQueue_Get and MessageQueue_Peek.
Removed ==
  /\ ring' = Take(ring)
  /\ event' = IF ring'.size < 1 THEN FALSE ELSE event

MessageQueue_Post(p) ==
  /\ posting[p]
  /\ \E x \in Objects \ {Quit} : MessageQueue_Dispatch(x)
  /\ UNCHANGED <<posting, pc>>

MessageQueue_PostQuit(p) ==
  /\ posting[p]
  /\ MessageQueue_Dispatch(Quit)
  /\ posting' = [posting EXCEPT ![p] = FALSE]
  /\ UNCHANGED pc

MessageQueue_Wait(c) ==
  /\ pc[c] = "outside" /\ event
  /\ pc' = [pc EXCEPT ![c] = "awake"]
  /\ UNCHANGED <<ring, event, posting>>

\* A thread that takes WMQ_QUIT leaves its loop.
AfterTaking(x, next) == IF x = Quit THEN "done" ELSE next

\* The part of MessageQueue_Get after the wait: the message may be gone.
MessageQueue_Get(c) ==
  /\ pc[c] = "awake"
  /\ IF ring.size > 0
     THEN Removed /\ pc' = [pc EXCEPT ![c] = AfterTaking(First(ring), "outside")]
     ELSE UNCHANGED <<ring, event>> /\ pc' = [pc EXCEPT ![c] = "outside"]
  /\ UNCHANGED posting

\* The loop of most threads: wait, then peek and remove until nothing is left.
MessageQueue_Peek(c) ==
  /\ pc[c] = "awake"
  /\ IF ring.size > 0
     THEN Removed /\ pc' = [pc EXCEPT ![c] = AfterTaking(First(ring), "awake")]
     ELSE UNCHANGED <<ring, event>> /\ pc' = [pc EXCEPT ![c] = "outside"]
  /\ UNCHANGED posting

\* The loop frees the messages from head on and leaves head at tail.
Cleared(r) ==
  Buffer([i \in 0..(r.capacity - 1) |->
            IF \E k \in 1..r.size : i = Slot(r, k) THEN Zero ELSE r.array[i]],
         (r.head + r.size) % r.capacity, r.tail, 0, r.capacity)

MessageQueue_Clear ==
  /\ ring' = Cleared(ring)
  /\ event' = FALSE
  /\ UNCHANGED <<posting, pc>>

Next ==
  \/ \E p \in Producers : MessageQueue_Post(p) \/ MessageQueue_PostQuit(p)
  \/ \E c \in Consumers : MessageQueue_Wait(c) \/ MessageQueue_Get(c) \/ MessageQueue_Peek(c)
  \/ MessageQueue_Clear

Spec == Init /\ [][Next]_vars

\* A consumer runs its loop until it takes WMQ_QUIT.
Fairness ==
  \A c \in Consumers : /\ WF_vars(MessageQueue_Wait(c))
                       /\ WF_vars(MessageQueue_Get(c) \/ MessageQueue_Peek(c))

FairSpec == Spec /\ Fairness

----------------------------------------------------------------------------
(* Properties.                                                             *)

\* The ring keeps its shape, whatever is posted, taken and cleared while it
\* grows: the indices are slots, tail follows from head and size, and every
\* slot between them holds a message.
TypeOK ==
  /\ WellFormed(ring)
  /\ event \in BOOLEAN
  /\ posting \in [Producers -> BOOLEAN]
  /\ pc \in [Consumers -> {"outside", "awake", "done"}]

\* "Gets an event which is set when the queue is non-empty": the event is set
\* exactly then, so no waiting thread misses a message and none spins on an
\* empty queue (MessageQueue_Event).
EventWhenNonEmpty == event <=> ring.size > 0

Queue == INSTANCE Fifo WITH queue <- Content(ring)

\* Messages leave in the order in which they were posted, each once, although
\* the array grows and its wrapped part moves (MessageQueue_Dispatch).
ImplementsFifo == Queue!Spec

QuitWaits == \E k \in 1..ring.size : Content(ring)[k] = Quit

\* A WMQ_QUIT does not stay in the queue while a thread still runs its loop: one
\* takes it and ends, whatever is posted around it, or the queue is cleared.
QuitArrives == QuitWaits ~> (~QuitWaits \/ \A c \in Consumers : pc[c] = "done")
=============================================================================

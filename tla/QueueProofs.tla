---------------------------- MODULE QueueProofs ----------------------------
(***************************************************************************)
(* wMessageQueue and wQueue keep their shape and their event, and          *)
(* implement Fifo; the buffered socket loses no byte.  For every capacity, *)
(* every number of threads, every set of messages and every size.          *)
(***************************************************************************)
EXTENDS MessageQueue, Queue, BufferedSocket, RingProofs

\* TypeOK with the event: together they are inductive.
IInv == TypeOK /\ EventWhenNonEmpty

\* Clearing leaves an empty ring.
LEMMA ClearedContent ==
  ASSUME NEW r, WellFormed(r)
  PROVE  WellFormed(Cleared(r)) /\ Content(Cleared(r)) = <<>> /\ Cleared(r).size = 0
<1> DEFINE q == Cleared(r)
           c == r.capacity
<1>1. /\ c \in Nat \ {0} /\ r.head \in 0..(c - 1) /\ r.size \in 0..c
      /\ r.tail = (r.head + r.size) % c /\ r.tail \in 0..(c - 1)
      /\ r.array \in [0..(c - 1) -> Objects \cup {Zero}]
  BY DEF WellFormed
<1>2. /\ q.array = [i \in 0..(c - 1) |->
                      IF \E k \in 1..r.size : i = Slot(r, k) THEN Zero ELSE r.array[i]]
      /\ q.head = r.tail /\ q.tail = r.tail /\ q.size = 0 /\ q.capacity = c
  BY <1>1 DEF Cleared, Buffer
<1> HIDE DEF q, c
<1>3. q.array \in [0..(c - 1) -> Objects \cup {Zero}]
  BY <1>1, <1>2
<1>4. r.tail + 0 = r.tail /\ r.tail % c = r.tail
  BY <1>1, ModSmall
<1>5. WellFormed(q)
  BY <1>1, <1>2, <1>3, <1>4 DEF WellFormed
<1>6. Content(q) \in Seq(Objects) /\ Len(Content(q)) = 0
  BY <1>2, <1>5, ContentType
<1> QED
  BY <1>2, <1>5, <1>6 DEF q

\* What a step does to the ring: a message is put, the first is taken, all are
\* cleared, or nothing happens; the event follows the size.
RingStep ==
  \/ /\ \E x \in Objects : ring' = Put(ring, x)
     /\ event' = TRUE
  \/ /\ ring.size > 0
     /\ ring' = Take(ring)
     /\ event' = IF ring'.size < 1 THEN FALSE ELSE event
  \/ ring' = Cleared(ring) /\ event' = FALSE
  \/ UNCHANGED <<ring, event>>

\* Every operation of the queue is such a step.
LEMMA EveryStep ==
  ASSUME [Next]_vars
  PROVE  RingStep
<1>1. ASSUME NEW p \in Producers, MessageQueue_Post(p) \/ MessageQueue_PostQuit(p)
      PROVE  RingStep
  BY Zenon, <1>1, QuitAssumption
     DEF MessageQueue_Post, MessageQueue_PostQuit, MessageQueue_Dispatch, RingStep
<1>2. ASSUME NEW c \in Consumers,
             MessageQueue_Wait(c) \/ MessageQueue_Get(c) \/ MessageQueue_Peek(c)
      PROVE  RingStep
  <2>1. CASE MessageQueue_Wait(c)
    BY <2>1 DEF MessageQueue_Wait, RingStep
  <2>2. CASE MessageQueue_Get(c)
    BY Zenon, <2>2 DEF MessageQueue_Get, Removed, RingStep
  <2>3. CASE MessageQueue_Peek(c)
    BY Zenon, <2>3 DEF MessageQueue_Peek, Removed, RingStep
  <2> QED
    BY <1>2, <2>1, <2>2, <2>3
<1>3. CASE MessageQueue_Clear
  BY Zenon, <1>3 DEF MessageQueue_Clear, RingStep
<1>4. CASE UNCHANGED vars
  BY <1>4 DEF vars, RingStep
<1> QED
  BY <1>1, <1>2, <1>3, <1>4 DEF Next

\* The control of producers and consumers keeps its type.
LEMMA StepControl ==
  ASSUME TypeOK, [Next]_vars
  PROVE  /\ posting' \in [Producers -> BOOLEAN]
         /\ pc' \in [Consumers -> {"outside", "awake", "done"}]
BY Zenon DEF TypeOK, Next, vars, MessageQueue_Post, MessageQueue_PostQuit, MessageQueue_Wait,
       MessageQueue_Get, MessageQueue_Peek, AfterTaking, MessageQueue_Clear

\* A step keeps the shape of the ring and changes the content as Fifo says.
LEMMA StepRing ==
  ASSUME TypeOK, EventWhenNonEmpty, RingStep
  PROVE  /\ WellFormed(ring') /\ event' \in BOOLEAN /\ (event' <=> ring'.size > 0)
         /\ Queue!Next \/ Content(ring)' = Content(ring)
<1>1. WellFormed(ring) /\ event \in BOOLEAN /\ (event <=> ring.size > 0)
  BY DEF TypeOK, EventWhenNonEmpty
<1>2. Content(ring)' = Content(ring')
  BY DEF Content, Slot
<1>3. ASSUME NEW x \in Objects, ring' = Put(ring, x), event' = TRUE
      PROVE  /\ WellFormed(ring') /\ event' \in BOOLEAN /\ (event' <=> ring'.size > 0)
             /\ Queue!Next
  <2>1. WellFormed(ring') /\ Content(ring') = Append(Content(ring), x)
    BY <1>1, <1>3, PutContent
  <2>2. Len(Content(ring')) = ring'.size /\ Content(ring) \in Seq(Objects)
    BY <1>1, <2>1, ContentType
  <2>3. ring'.size > 0
    BY <2>1, <2>2
  <2>4. Queue!Next
    BY <1>2, <2>1 DEF Queue!Next, Queue!Put
  <2> QED
    BY <1>3, <2>1, <2>3, <2>4
<1>4. ASSUME ring.size > 0, ring' = Take(ring),
             event' = IF ring'.size < 1 THEN FALSE ELSE event
      PROVE  /\ WellFormed(ring') /\ event' \in BOOLEAN /\ (event' <=> ring'.size > 0)
             /\ Queue!Next
  <2>1. /\ WellFormed(ring') /\ Content(ring') = Tail(Content(ring))
        /\ ring'.size = ring.size - 1
    BY <1>1, <1>4, TakeContent
  <2>2. Len(Content(ring)) = ring.size /\ Content(ring) \in Seq(Objects)
    BY <1>1, ContentType
  <2>3. Content(ring) # <<>>
    BY <1>4, <2>2
  <2>4. Queue!Next
    BY <1>2, <2>1, <2>3 DEF Queue!Next, Queue!Take
  <2>5. ring'.size \in Nat
    BY <2>1 DEF WellFormed
  <2>6. event' <=> ring'.size > 0
    BY <1>1, <1>4, <2>5
  <2> QED
    BY Zenon, <1>1, <1>4, <2>1, <2>4, <2>6
<1>5. ASSUME ring' = Cleared(ring), event' = FALSE
      PROVE  /\ WellFormed(ring') /\ event' \in BOOLEAN /\ (event' <=> ring'.size > 0)
             /\ Queue!Next
  <2>1. WellFormed(ring') /\ Content(ring') = <<>> /\ ring'.size = 0
    BY <1>1, <1>5, ClearedContent
  <2>2. Queue!Next
    BY <1>2, <2>1 DEF Queue!Next, Queue!Clear
  <2>3. ~(ring'.size > 0)
    BY <2>1
  <2> QED
    BY Zenon, <1>5, <2>1, <2>2, <2>3
<1>6. CASE UNCHANGED <<ring, event>>
  BY <1>1, <1>2, <1>6
<1> QED
  BY Zenon, <1>3, <1>4, <1>5, <1>6 DEF RingStep

\* A step keeps the inductive invariant.
LEMMA StepIInv == IInv /\ [Next]_vars => IInv'
<1> SUFFICES ASSUME IInv, [Next]_vars PROVE IInv'
  OBVIOUS
<1>1. WellFormed(ring') /\ event' \in BOOLEAN /\ (event' <=> ring'.size > 0)
  BY EveryStep, StepRing DEF IInv
<1>2. /\ posting' \in [Producers -> BOOLEAN]
      /\ pc' \in [Consumers -> {"outside", "awake", "done"}]
  BY StepControl DEF IInv
<1>3. WellFormed(ring)' = WellFormed(ring')
  BY DEF WellFormed, Slot
<1> QED
  BY <1>1, <1>2, <1>3 DEF IInv, TypeOK, EventWhenNonEmpty

\* A new queue satisfies it.
LEMMA InitIInv == Init => IInv
<1> SUFFICES ASSUME Init PROVE IInv
  OBVIOUS
<1>1. WellFormed(ring) /\ ~(ring.size > 0)
  BY EmptyContent DEF Init
<1> QED
  BY Zenon, <1>1 DEF Init, IInv, TypeOK, EventWhenNonEmpty

\* The shape of the ring and its event, at every moment.
THEOREM Invariant == Spec => []IInv
BY InitIInv, StepIInv, PTL DEF Spec

\* Whatever is posted, taken and cleared while the array grows, the indices stay
\* slots and every slot between them holds a message.
THEOREM TypeCorrect == Spec => []TypeOK
BY Invariant, PTL DEF IInv

\* The event of MessageQueue_Event is set exactly when the queue is not empty.
THEOREM EventHolds == Spec => []EventWhenNonEmpty
BY Invariant, PTL DEF IInv

\* The queue implements Fifo: messages leave in the order in which they were
\* posted, each once, whatever the capacity and wherever the content wraps.
THEOREM Refinement == Spec => ImplementsFifo
<1>1. Init => Queue!Init
  BY EmptyContent DEF Init, Queue!Init
<1>2. IInv /\ [Next]_vars => [Queue!Next]_(Content(ring))
  BY EveryStep, StepRing DEF IInv
<1> QED
  BY <1>1, <1>2, Invariant, PTL DEF Spec, ImplementsFifo, Queue!Spec

----------------------------------------------------------------------------
(* wQueue, which is cleared in another way.                                *)

QueueInv == QueueTypeOK /\ EventNotLost

\* Queue_Clear leaves an empty ring, whatever it leaves in the array.
LEMMA QueueClearContent ==
  ASSUME WellFormed(slots), Queue_Clear
  PROVE  WellFormed(slots') /\ Content(slots') = <<>> /\ slots'.size = 0
<1> DEFINE c == slots.capacity
<1>1. /\ c \in Nat \ {0} /\ slots.array \in [0..(c - 1) -> Objects \cup {Zero}]
      /\ slots'.capacity = c /\ slots'.size = 0 /\ slots'.head = 0 /\ slots'.tail = 0
      /\ slots'.array = [i \in 0..(c - 1) |-> IF i \in Freed(slots) THEN Zero ELSE slots.array[i]]
  BY DEF WellFormed, Queue_Clear, Buffer
<1> HIDE DEF c
<1>2. slots'.array \in [0..(c - 1) -> Objects \cup {Zero}]
  BY <1>1
<1>3. (0 + 0) % c = 0
  BY <1>1, ModSmall
<1>4. WellFormed(slots')
  BY <1>1, <1>2, <1>3 DEF WellFormed
<1>5. Content(slots') \in Seq(Objects) /\ Len(Content(slots')) = 0
  BY <1>1, <1>4, ContentType
<1> QED BY <1>1, <1>4, <1>5

\* An operation of the queue keeps the shape and the event, and changes the
\* content as Fifo says.
LEMMA QueueStep ==
  ASSUME QueueInv, [QueueNext]_queueVars
  PROVE  /\ WellFormed(slots') /\ objectEvent' \in BOOLEAN /\ (slots'.size > 0 => objectEvent')
         /\ QueueAbstract!Next \/ Content(slots)' = Content(slots)
<1>1. WellFormed(slots) /\ objectEvent \in BOOLEAN /\ (slots.size > 0 => objectEvent) /\ slots.size \in Nat
  BY DEF QueueInv, QueueTypeOK, EventNotLost, WellFormed
<1>2. Content(slots)' = Content(slots')
  BY DEF Content, Slot
<1>3. ASSUME NEW x \in Objects, Queue_Enqueue(x)
      PROVE  WellFormed(slots') /\ objectEvent' = TRUE /\ QueueAbstract!Next
  <2>1. WellFormed(slots') /\ Content(slots') = Append(Content(slots), x)
    BY <1>1, <1>3, PutContent DEF Queue_Enqueue
  <2> QED BY <1>2, <1>3, <2>1 DEF Queue_Enqueue, QueueAbstract!Next, QueueAbstract!Put
<1>4. CASE Queue_Dequeue /\ slots.size > 0
  <2>1. /\ WellFormed(slots') /\ Content(slots') = Tail(Content(slots))
        /\ slots'.size = slots.size - 1
    BY <1>1, <1>4, TakeContent DEF Queue_Dequeue
  <2>2. Content(slots) # <<>>
    BY <1>1, <1>4, ContentType
  <2>3. QueueAbstract!Next
    BY <1>2, <2>1, <2>2 DEF QueueAbstract!Next, QueueAbstract!Take
  <2>4. objectEvent' = IF slots'.size < 1 THEN FALSE ELSE objectEvent
    BY <1>4 DEF Queue_Dequeue
  <2>5. objectEvent' \in BOOLEAN /\ (slots'.size > 0 => objectEvent')
    <3>1. CASE slots'.size < 1
      <4>1. objectEvent' = FALSE /\ ~(slots'.size > 0)
        BY <3>1, <2>1, <2>4, <1>1
      <4> QED BY Zenon, <4>1
    <3>2. CASE ~(slots'.size < 1)
      <4>1. objectEvent' = objectEvent /\ objectEvent
        BY <3>2, <2>4, <1>1, <1>4
      <4> QED BY <4>1, <1>1
    <3> QED BY <3>1, <3>2
  <2> QED BY <2>1, <2>3, <2>5
<1>5. CASE Queue_Dequeue /\ ~(slots.size > 0)
  <2>1. slots' = slots /\ objectEvent' = FALSE
    BY <1>1, <1>5 DEF Queue_Dequeue
  <2> QED BY Zenon, <1>1, <1>2, <1>5, <2>1
<1>6. CASE Queue_Clear
  <2>1. WellFormed(slots') /\ Content(slots') = <<>> /\ slots'.size = 0 /\ objectEvent' = objectEvent
    BY <1>1, <1>6, QueueClearContent DEF Queue_Clear
  <2>2. QueueAbstract!Next
    BY <1>2, <2>1 DEF QueueAbstract!Next, QueueAbstract!Clear
  <2> QED BY <1>1, <2>1, <2>2
<1>7. CASE UNCHANGED queueVars
  BY <1>1, <1>2, <1>7 DEF queueVars
<1> QED BY Zenon, <1>3, <1>4, <1>5, <1>6, <1>7 DEF QueueNext

\* The shape and the event of wQueue, at every moment.
LEMMA QueueInvAlways == QueueSpec => []QueueInv
<1>1. QueueInit => QueueInv
  <2> SUFFICES ASSUME QueueInit PROVE QueueInv
    OBVIOUS
  <2>1. WellFormed(slots) /\ ~(slots.size > 0)
    BY EmptyContent DEF QueueInit
  <2> QED BY Zenon, <2>1 DEF QueueInit, QueueInv, QueueTypeOK, EventNotLost
<1>2. QueueInv /\ [QueueNext]_queueVars => QueueInv'
  <2> SUFFICES ASSUME QueueInv, [QueueNext]_queueVars PROVE QueueInv'
    OBVIOUS
  <2>1. WellFormed(slots') /\ objectEvent' \in BOOLEAN /\ (slots'.size > 0 => objectEvent')
    BY QueueStep
  <2>2. WellFormed(slots)' = WellFormed(slots')
    BY DEF WellFormed, Slot
  <2> QED BY <2>1, <2>2 DEF QueueInv, QueueTypeOK, EventNotLost
<1> QED BY <1>1, <1>2, PTL DEF QueueSpec

\* The ring of wQueue keeps its shape when it grows and when Queue_Clear moves
\* its indices to the start.
THEOREM QueueTypeCorrect == QueueSpec => []QueueTypeOK
  BY QueueInvAlways, PTL DEF QueueInv

\* A thread that waits for Queue_Event does not miss an object, for any capacity
\* and growth factor.
THEOREM EventNotLostAlways == QueueSpec => []EventNotLost
  BY QueueInvAlways, PTL DEF QueueInv

\* wQueue implements Fifo: objects leave in the order in which they came, each
\* once, or all of them with Queue_Clear.
THEOREM QueueRefinement == QueueSpec => QueueImplementsFifo
<1>1. QueueInit => QueueAbstract!Init
  BY EmptyContent DEF QueueInit, QueueAbstract!Init
<1>2. QueueInv /\ [QueueNext]_queueVars => [QueueAbstract!Next]_(Content(slots))
  BY QueueStep
<1> QED
  BY <1>1, <1>2, QueueInvAlways, PTL DEF QueueSpec, QueueImplementsFifo, QueueAbstract!Spec


----------------------------------------------------------------------------
(* BufferedSocket.                                                         *)

\* The bytes from the d-th one on.
From(d) == [k \in Nat |-> (d + k) % ByteValues]

\* Two steps forward are one.
LEMMA ModShift ==
  ASSUME NEW c \in Nat \ {0}, NEW h \in 0..(c - 1), NEW m \in 0..c, NEW n \in 0..c, m + n <= c
  PROVE  (((h + m) % c) + n) % c = (h + (m + n)) % c
<1> DEFINE p == (h + m) % c
<1>1. p = (IF h + m < c THEN h + m ELSE h + m - c) /\ p \in 0..(c - 1)
  BY Zenon, ModPlace
<1> HIDE DEF p
<1>2. (p + n) % c = IF p + n < c THEN p + n ELSE p + n - c
  BY Zenon, <1>1, ModPlace
<1>3. m + n \in 0..c
  OBVIOUS
<1>4. (h + (m + n)) % c = IF h + (m + n) < c THEN h + (m + n) ELSE h + (m + n) - c
  BY Zenon, <1>3, ModPlace
<1>5. (p + n) % c = (h + (m + n)) % c
  BY <1>1, <1>2, <1>4
<1> QED BY <1>5 DEF p

\* What the buffer must be when p is the next byte to be written and d the next
\* one to be sent.
BufferOK(rb, p, d) ==
  /\ BytesOK(rb) /\ Carries(rb, From(d))
  /\ ringbuffer_used(rb) <= MaxPending
  /\ d \in 0..(ByteValues - 1) /\ p = (d + ringbuffer_used(rb)) % ByteValues

\* The inductive invariant: also, the flag is down once the connection is lost.
SocketInv ==
  /\ BufferOK(xmitBuffer, produced, delivered)
  /\ room \in Int /\ room >= -1
  /\ writeBlocked \in BOOLEAN
  /\ layer = "tcp" => (writeBlocked <=> ringbuffer_used(xmitBuffer) > 0)
  /\ layer # "tcp" => ~writeBlocked

\* What used and the sizes are.
LEMMA Sizes ==
  /\ ByteValues \in Nat \ {0} /\ MaxPending \in Nat /\ MaxPending < ByteValues
  /\ \A rb : BytesOK(rb) => ringbuffer_used(rb) \in Nat
<1>1. ByteValues \in Nat \ {0} /\ MaxPending \in Nat /\ MaxPending < ByteValues
  BY SocketAssumption
<1>2. ASSUME NEW rb, BytesOK(rb) PROVE ringbuffer_used(rb) \in Nat
  BY <1>2 DEF BytesOK, ringbuffer_used
<1> QED BY <1>1, <1>2

\* Sending some of the bytes takes them from the front.
LEMMA PushKeeps ==
  ASSUME NEW rb, NEW p, NEW shrink \in BOOLEAN, BufferOK(rb, p, delivered), room \in Nat, Push(rb, shrink)
  PROVE  /\ BufferOK(xmitBuffer', p, delivered')
         /\ room' \in Int /\ room' >= -1 /\ writeBlocked' \in BOOLEAN
         /\ writeBlocked' <=> ringbuffer_used(xmitBuffer') > 0
<1> DEFINE n == ringbuffer_used(rb)
           m == IF room < n THEN room ELSE n
           B == ByteValues
           d == delivered
<1>1. n \in Nat /\ n <= MaxPending /\ m \in 0..n /\ MaxPending \in Nat /\ B \in Nat \ {0} /\ n < B
  BY Sizes DEF BufferOK
<1>2. /\ xmitBuffer' = ringbuffer_commit_read_bytes(rb, m, shrink) /\ delivered' = (d + m) % B
      /\ room' = room - m /\ writeBlocked' = (m < n)
  BY DEF Push
<1>3. BytesOK(rb) /\ Carries(rb, From(d)) /\ d \in 0..(B - 1) /\ p = (d + n) % B
  BY DEF BufferOK
<1>4. room' \in Int /\ room' >= -1
  BY <1>1, <1>2
<1> HIDE DEF m
<1>5. ASSUME NEW k \in 0..(n - m - 1) PROVE From(delivered')[k] = From(d)[m + k]
  <2>1. k \in Nat /\ m + k \in Nat /\ m \in 0..B /\ k \in 0..B /\ m + k <= B
    BY <1>1
  <2>2. (((d + m) % B) + k) % B = (d + (m + k)) % B
    BY Zenon, <1>1, <1>3, <2>1, ModShift
  <2> QED BY <1>2, <2>1, <2>2 DEF From
<1>6. /\ BytesOK(xmitBuffer') /\ Carries(xmitBuffer', From(delivered'))
      /\ ringbuffer_used(xmitBuffer') = n - m
  <2> DEFINE f == From(d)
             g == From(delivered')
             q == ringbuffer_commit_read_bytes(rb, m, shrink)
  <2>1. BytesOK(rb) /\ Carries(rb, f) /\ m \in 0..ringbuffer_used(rb)
        /\ \A k \in 0..(ringbuffer_used(rb) - m - 1) : g[k] = f[m + k]
    BY <1>1, <1>3, <1>5
  <2> HIDE DEF f, g
  <2>2. BytesOK(q) /\ Carries(q, g) /\ ringbuffer_used(q) = ringbuffer_used(rb) - m
    BY <2>1, CommitCarries
  <2> QED BY <1>2, <2>2 DEF g
<1> HIDE DEF n
<1>7. writeBlocked' \in BOOLEAN /\ (writeBlocked' <=> m < n)
  <2>1. (m < n) \in BOOLEAN
    BY <1>1
  <2> QED BY <1>2, <2>1, Zenon
<1>8. m < n <=> n - m > 0
  BY <1>1
<1>9. delivered' \in 0..(B - 1) /\ p = (delivered' + (n - m)) % B
  <2>1. m \in 0..B /\ n - m \in 0..B /\ m + (n - m) <= B /\ m + (n - m) = n
    BY <1>1
  <2>2. (((d + m) % B) + (n - m)) % B = (d + (m + (n - m))) % B
    BY <1>1, <1>3, <2>1, ModShift
  <2>3. (d + m) % B \in 0..(B - 1)
    BY <1>1, <1>3, <2>1, ModPlace
  <2> QED BY <1>2, <1>3, <2>1, <2>2, <2>3
<1>10. BufferOK(xmitBuffer', p, delivered')
  <2>1. n - m <= MaxPending
    BY <1>1
  <2> QED BY <1>6, <1>9, <2>1 DEF BufferOK
<1> QED BY <1>4, <1>6, <1>7, <1>8, <1>10

\* A flush sends some of the bytes, or there are none.
LEMMA FlushKeeps ==
  ASSUME NEW shrink \in BOOLEAN, SocketInv, Connected, BIO_flush(shrink), produced' = produced, layer' = layer
  PROVE  SocketInv'
<1>1. room \in Nat /\ layer = "tcp"
  BY DEF SocketInv, Connected
<1>2. CASE ringbuffer_used(xmitBuffer) = 0
  <2>1. UNCHANGED <<xmitBuffer, delivered, room, writeBlocked>>
    BY <1>2 DEF BIO_flush
  <2> QED BY <2>1 DEF SocketInv
<1>3. CASE ringbuffer_used(xmitBuffer) # 0
  <2>1. Push(xmitBuffer, shrink) /\ BufferOK(xmitBuffer, produced, delivered)
    BY <1>3 DEF BIO_flush, SocketInv
  <2>2. /\ BufferOK(xmitBuffer', produced, delivered')
        /\ room' \in Int /\ room' >= -1 /\ writeBlocked' \in BOOLEAN
        /\ writeBlocked' <=> ringbuffer_used(xmitBuffer') > 0
    BY <1>1, <2>1, PushKeeps
  <2> QED BY <1>1, <2>2 DEF SocketInv
<1> QED BY <1>2, <1>3

\* transport_write puts its bytes behind those that wait.
LEMMA WriteKeeps ==
  ASSUME NEW n \in 1..MaxChunk, NEW shrink \in BOOLEAN, SocketInv, transport_write(n, shrink)
  PROVE  SocketInv'
<1> DEFINE data == [i \in 1..n |-> (produced + i - 1) % ByteValues]
           rb == ringbuffer_write(xmitBuffer, data)
           u == ringbuffer_used(xmitBuffer)
           B == ByteValues
           d == delivered
           p == (produced + n) % B
<1>1. /\ room \in Nat /\ layer = "tcp" /\ layer' = layer /\ n \in Nat /\ u + n <= MaxPending
      /\ Push(rb, shrink) /\ produced' = p
  BY SocketAssumption DEF SocketInv, Connected, transport_write
<1>2. /\ BytesOK(xmitBuffer) /\ Carries(xmitBuffer, From(d)) /\ d \in 0..(B - 1)
      /\ produced = (d + u) % B
  BY DEF SocketInv, BufferOK
<1>3. u \in Nat /\ B \in Nat \ {0} /\ MaxPending \in Nat /\ MaxPending < B
  BY <1>2, Sizes
<1>4. (d + u) % B \in 0..(B - 1)
  BY <1>2, <1>3 DEF SocketInv, BufferOK
<1>5. data \in Seq(Int) /\ Len(data) = n /\ \A i \in 1..n : data[i] = (produced + i - 1) % B
  <2>1. produced \in Int
    BY <1>2, <1>4
  <2>2. \A i \in 1..n : (produced + i - 1) % B \in Int
    BY <1>3, <2>1
  <2> QED BY <1>1, <2>2
<1> HIDE DEF data, u
<1>6. GoesOn(data, From(d), u)
  <2> SUFFICES ASSUME NEW i \in 1..n PROVE data[i] = From(d)[u + i - 1]
    BY <1>5 DEF GoesOn
  <2> DEFINE k == i - 1
  <2>1. k \in 0..B /\ u \in 0..B /\ u + k <= B /\ u + k \in Nat /\ u + i - 1 = u + k
    BY <1>1, <1>3
  <2>2. (((d + u) % B) + k) % B = (d + (u + k)) % B
    BY <1>2, <1>3, <2>1, ModShift
  <2>3. ((d + u) % B) + i - 1 = ((d + u) % B) + k
    BY <1>4
  <2>4. data[i] = (((d + u) % B) + k) % B
    BY <1>2, <1>5, <2>3
  <2> QED BY <2>1, <2>2, <2>4 DEF From
<1>7. BytesOK(rb) /\ Carries(rb, From(d)) /\ ringbuffer_used(rb) = u + n
  <2> DEFINE f == From(d)
  <2>1. Carries(xmitBuffer, f) /\ GoesOn(data, f, ringbuffer_used(xmitBuffer))
    BY <1>2, <1>6 DEF u
  <2> HIDE DEF f
  <2>2. BytesOK(rb) /\ Carries(rb, f) /\ ringbuffer_used(rb) = ringbuffer_used(xmitBuffer) + Len(data)
    BY <1>2, <1>5, <2>1, WriteCarries
  <2> QED BY <1>5, <2>2 DEF f, u
<1> HIDE DEF rb
<1>8. BufferOK(rb, p, d)
  <2>1. u \in 0..B /\ n \in 0..B /\ u + n <= B
    BY <1>1, <1>3
  <2>2. p = (d + (u + n)) % B
    BY <1>2, <1>3, <2>1, ModShift
  <2> QED BY <1>1, <1>2, <1>7, <2>2 DEF BufferOK
<1>9. /\ BufferOK(xmitBuffer', p, delivered')
      /\ room' \in Int /\ room' >= -1 /\ writeBlocked' \in BOOLEAN
      /\ writeBlocked' <=> ringbuffer_used(xmitBuffer') > 0
  BY <1>1, <1>8, PushKeeps
<1> QED BY <1>1, <1>9 DEF SocketInv

\* A new connection begins with an empty buffer.
LEMMA FreshBuffer == BufferOK(ringbuffer_init, 0, 0) /\ ringbuffer_used(ringbuffer_init) = 0
<1>1. /\ ringbuffer_init.size = RingSize /\ ringbuffer_init.freeSize = RingSize
      /\ ringbuffer_init.readPtr = 0 /\ ringbuffer_init.writePtr = 0
  BY DEF ringbuffer_init, Bytes
<1>2. ringbuffer_used(ringbuffer_init) = 0
  BY <1>1, RingSizeAssumption DEF ringbuffer_used
<1>3. (0 + 0) % ByteValues = 0
  BY Sizes, ModSmall
<1> DEFINE rb == ringbuffer_init
<1>4. BytesOK(rb)
  BY <1>1, <1>2, RingSizeAssumption DEF BytesOK, At, ringbuffer_init, Bytes
<1>5. Carries(rb, From(0))
  BY <1>2 DEF Carries
<1>6. 0 \in 0..(ByteValues - 1) /\ 0 <= MaxPending
  BY Sizes
<1> QED BY <1>2, <1>3, <1>4, <1>5, <1>6 DEF BufferOK

\* The invariant of the buffered socket holds always.
LEMMA SocketInvAlways == SocketSpec => []SocketInv
<1>1. SocketInit => SocketInv
  <2> SUFFICES ASSUME SocketInit PROVE SocketInv
    OBVIOUS
  <2>1. xmitBuffer = ringbuffer_init /\ layer = "tcp" /\ room \in Int /\ room >= -1 /\ produced = 0 /\ delivered = 0
    BY SocketAssumption DEF SocketInit
  <2>2. writeBlocked \in BOOLEAN /\ ~writeBlocked
    BY Zenon DEF SocketInit
  <2> QED BY <2>1, <2>2, FreshBuffer DEF SocketInv
<1>2. SocketInv /\ [SocketNext]_socketVars => SocketInv'
  <2> SUFFICES ASSUME SocketInv, [SocketNext]_socketVars PROVE SocketInv'
    OBVIOUS
  <2>1. CASE UNCHANGED socketVars
    BY <2>1 DEF socketVars, SocketInv
  <2>2. ASSUME NEW n \in 1..MaxChunk, NEW shrink \in BOOLEAN, transport_write(n, shrink) PROVE SocketInv'
    BY <2>2, WriteKeeps
  <2>3. ASSUME NEW shrink \in BOOLEAN, FlushLoop(shrink) \/ transport_drain_output_buffer(shrink) PROVE SocketInv'
    BY <2>3, FlushKeeps DEF FlushLoop, transport_drain_output_buffer
  <2>4. CASE transport_set_blocking_mode
    BY <2>4 DEF transport_set_blocking_mode, SocketInv
  <2>5. CASE WriteFails
    <3>1. UNCHANGED <<xmitBuffer, room, produced, delivered>> /\ layer' = "closed"
      BY <2>5 DEF WriteFails
    <3>2. writeBlocked' \in BOOLEAN /\ ~writeBlocked'
      BY <2>5, Zenon DEF WriteFails
    <3> QED BY <3>1, <3>2 DEF SocketInv
  <2>6. CASE PeerReads
    <3>1. room' \in Int /\ room' >= -1 /\ UNCHANGED <<xmitBuffer, writeBlocked, layer, produced, delivered>>
      BY <2>6, SocketAssumption DEF PeerReads
    <3> QED BY <3>1 DEF SocketInv
  <2>7. CASE PeerResets
    BY <2>7 DEF PeerResets, SocketInv
  <2>8. CASE Reconnect
    <3>1. /\ xmitBuffer' = ringbuffer_init /\ layer = "closed" /\ layer' = "tcp" /\ room' \in Int /\ room' >= -1
          /\ produced' = 0 /\ delivered' = 0 /\ writeBlocked' = writeBlocked
      BY <2>8, SocketAssumption DEF Reconnect
    <3>2. writeBlocked \in BOOLEAN /\ ~writeBlocked
      BY <3>1 DEF SocketInv
    <3> QED BY <3>1, <3>2, FreshBuffer DEF SocketInv
  <2> QED BY <2>1, <2>2, <2>3, <2>4, <2>5, <2>6, <2>7, <2>8 DEF SocketNext, FlushStep
<1> QED BY <1>1, <1>2, PTL DEF SocketSpec

\* The buffer has what was written and not yet sent, in order, for every size of
\* the ring, of the writes and of what the kernel takes.
THEOREM NothingLostAlways == SocketSpec => []NothingLost
<1>1. SocketInv => NothingLost
  <2> SUFFICES ASSUME SocketInv PROVE NothingLost
    OBVIOUS
  <2> DEFINE u == ringbuffer_used(xmitBuffer)
             B == ByteValues
             d == delivered
  <2>1. /\ BytesOK(xmitBuffer) /\ Carries(xmitBuffer, From(d)) /\ d \in 0..(B - 1)
        /\ produced = (d + u) % B /\ u <= MaxPending
    BY DEF SocketInv, BufferOK
  <2>2. u \in Nat /\ B \in Nat \ {0} /\ u < B
    BY <2>1, Sizes
  <2>3. ringbuffer_peek(xmitBuffer, u) = [i \in 1..u |-> (d + i - 1) % B]
    <3>1. ringbuffer_peek(xmitBuffer, u) = [i \in 1..u |-> From(d)[i - 1]]
      BY <2>1, PeekReturns
    <3>2. ASSUME NEW i \in 1..u PROVE From(d)[i - 1] = (d + i - 1) % B
      <4>1. i - 1 \in Nat /\ d + (i - 1) = d + i - 1
        BY <2>1, <2>2
      <4> QED BY <4>1 DEF From
    <3> QED BY <3>1, <3>2
  <2> HIDE DEF u
  <2>4. produced = (IF d + u < B THEN d + u ELSE d + u - B) /\ produced \in 0..(B - 1)
    <3>1. u \in 0..B
      BY <2>2
    <3> QED BY Zenon, <2>1, <2>2, <3>1, ModPlace
  <2>5. (produced - d) % B = IF produced >= d THEN produced - d ELSE produced - d + B
    BY <2>1, <2>2, <2>4, ModBelow
  <2>6. u = (produced - d) % B
    BY <2>1, <2>2, <2>4, <2>5
  <2> QED BY <2>3, <2>6 DEF NothingLost, u
<1> QED BY <1>1, SocketInvAlways, PTL

\* A write always leaves a byte free, so that equal heads mean an empty buffer.
THEOREM HeadsTellEmptyAlways == SocketSpec => []HeadsTellEmpty
<1>1. SocketInv => HeadsTellEmpty
  <2> SUFFICES ASSUME SocketInv PROVE HeadsTellEmpty
    OBVIOUS
  <2>1. BytesOK(xmitBuffer)
    BY Zenon DEF SocketInv, BufferOK
  <2>2. xmitBuffer.freeSize >= 1
    BY <2>1 DEF BytesOK
  <2>3. xmitBuffer.writePtr = xmitBuffer.readPtr <=> ringbuffer_used(xmitBuffer) = 0
    BY Zenon, <2>1, HeadsEqual
  <2> QED BY Zenon, <2>2, <2>3 DEF HeadsTellEmpty
<1> QED BY <1>1, SocketInvAlways, PTL

\* writeBlocked is true just while bytes wait.
THEOREM BlockedIffPendingAlways == SocketSpec => []BlockedIffPending
<1>1. SocketInv => BlockedIffPending
  BY DEF SocketInv, BlockedIffPending
<1> QED BY <1>1, SocketInvAlways, PTL
=============================================================================

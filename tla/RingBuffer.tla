---------------------------- MODULE RingBuffer -----------------------------
(***************************************************************************)
(* The byte ring of libfreerdp/utils/ringbuffer.c as its two users, the    *)
(* buffered socket (tcp.c) and the receive pipe of the RPC gateway         *)
(* (rpc_client.c), employ it: write, peek, commit_read_bytes.  It grows    *)
(* when a write does not fit and shrinks again once it is nearly empty.    *)
(***************************************************************************)
EXTENDS Integers, Sequences

CONSTANTS
  RingSize,   \* initialSize: 0x10000 in tcp.c, 4096 in rpc_client.c
  Garbage     \* a byte that malloc or realloc did not initialize

ASSUME RingSizeAssumption == RingSize \in Nat \ {0}

Bytes(buffer, readPtr, writePtr, freeSize, size) ==
  [buffer |-> buffer, readPtr |-> readPtr, writePtr |-> writePtr,
   freeSize |-> freeSize, size |-> size]

ringbuffer_init ==
  Bytes([i \in 0..(RingSize - 1) |-> Garbage], 0, 0, RingSize, RingSize)

ringbuffer_used(rb) == rb.size - rb.freeSize

\* What realloc keeps of the array.
Reallocated(rb, targetSize) ==
  [i \in 0..(targetSize - 1) |-> IF i < rb.size THEN rb.buffer[i] ELSE Garbage]

\* What the memcpys of ringbuffer_realloc move: the linear content, or the part
\* up to the end and then the part from the start.
Unrolled(rb, targetSize) ==
  [i \in 0..(targetSize - 1) |->
     IF rb.readPtr < rb.writePtr
       THEN IF i < ringbuffer_used(rb) THEN rb.buffer[rb.readPtr + i] ELSE Garbage
     ELSE IF i < rb.size - rb.readPtr THEN rb.buffer[rb.readPtr + i]
     ELSE IF i < (rb.size - rb.readPtr) + rb.writePtr THEN rb.buffer[i - (rb.size - rb.readPtr)]
     ELSE Garbage]

\* ringbuffer_realloc, when the allocation succeeds.
ringbuffer_realloc(rb, targetSize) ==
  LET free == rb.freeSize + (targetSize - rb.size) IN
  IF rb.writePtr = rb.readPtr
    THEN Bytes(Reallocated(rb, targetSize), 0, 0, free, targetSize)
  ELSE IF rb.writePtr >= rb.readPtr /\ rb.writePtr < targetSize
    THEN Bytes(Reallocated(rb, targetSize), rb.readPtr, rb.writePtr, free, targetSize)
  ELSE Bytes(Unrolled(rb, targetSize), 0, ringbuffer_used(rb), free, targetSize)

\* The write proper, split in two at the end of the array.
Written(rb, data) ==
  LET sz      == Len(data)
      toWrite == IF rb.size - rb.writePtr < sz THEN rb.size - rb.writePtr ELSE sz
  IN  Bytes([i \in 0..(rb.size - 1) |->
               IF i >= rb.writePtr /\ i < rb.writePtr + toWrite THEN data[i - rb.writePtr + 1]
               ELSE IF i < sz - toWrite THEN data[toWrite + i + 1]
               ELSE rb.buffer[i]],
            rb.readPtr, (rb.writePtr + sz) % rb.size, rb.freeSize - sz, rb.size)

MustGrow(rb, sz) == rb.freeSize <= sz

ringbuffer_write(rb, data) ==
  Written(IF MustGrow(rb, Len(data)) THEN ringbuffer_realloc(rb, rb.size + Len(data)) ELSE rb,
          data)

\* The bytes of the chunks that ringbuffer_peek returns for sz, in their order.
ringbuffer_peek(rb, sz) ==
  LET used      == ringbuffer_used(rb)
      remaining == IF used < sz THEN used ELSE sz
      toRead    == IF rb.readPtr + remaining > rb.size THEN rb.size - rb.readPtr ELSE remaining
  IN  [i \in 1..remaining |->
         IF i <= toRead THEN rb.buffer[rb.readPtr + i - 1] ELSE rb.buffer[i - toRead - 1]]

\* The bytes that were read stay in the array, where they are worth as much as
\* garbage.
Advanced(rb, sz) ==
  Bytes([i \in 0..(rb.size - 1) |->
           IF (i - rb.readPtr) % rb.size < sz THEN Garbage ELSE rb.buffer[i]],
        (rb.readPtr + sz) % rb.size, rb.writePtr, rb.freeSize + sz, rb.size)

MayShrink(rb) == rb.size # RingSize /\ ringbuffer_used(rb) < RingSize \div 2

\* shrink: the allocation of the smaller array succeeds.
ringbuffer_commit_read_bytes(rb, sz, shrink) ==
  IF sz < 1 THEN rb
  ELSE IF MayShrink(Advanced(rb, sz)) /\ shrink
    THEN ringbuffer_realloc(Advanced(rb, sz), RingSize)
  ELSE Advanced(rb, sz)
=============================================================================

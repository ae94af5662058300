-------------------------- MODULE BufferedSocket ---------------------------
(***************************************************************************)
(* Sending over the non-blocking socket: transport_write (transport.c),    *)
(* the buffered BIO below it (tcp.c) with its transmit buffer, and the     *)
(* draining of that buffer.  WriteLock makes the calls of transport_write  *)
(* one at a time, so sending stands for the thread that has it.  The bytes *)
(* are numbered modulo ByteValues; the kernel's buffer has room for some   *)
(* of them, more when the peer has read.                                   *)
(***************************************************************************)
EXTENDS RingBuffer, FiniteSets

CONSTANTS
  ByteValues,    \* bound: more than there are ever bytes in the buffer
  MaxChunk,      \* bound: the longest write
  MaxPending,    \* bound: bytes in the buffer
  SocketRoom     \* bound: bytes that the kernel takes

ASSUME SocketAssumption ==
  /\ {ByteValues, MaxChunk, MaxPending, SocketRoom} \subseteq Nat \ {0}
  /\ MaxPending < ByteValues

VARIABLES
  xmitBuffer,
  writeBlocked,
  waitFlush,   \* transport->blocking || settings->WaitForOutputBufferFlush
  sending,     \* a thread is in the loop of transport_write that waits for the flush
  layer,       \* transport->layer: "tcp" or "closed"
  room,        \* bytes the kernel takes, or -1 once the peer has reset the connection
  produced,    \* the next byte that is written (observed)
  delivered    \* the next byte that the kernel is given (observed)

socketVars == <<xmitBuffer, writeBlocked, waitFlush, sending, layer, room, produced, delivered>>

SocketInit ==
  /\ xmitBuffer = ringbuffer_init
  /\ writeBlocked = FALSE
  /\ waitFlush = TRUE
  /\ sending = FALSE
  /\ layer = "tcp"
  /\ room = SocketRoom
  /\ produced = 0 /\ delivered = 0

\* Mutated form of Push: the bytes that were sent are committed only when all
\* of them were.
PushAll(rb, shrink) ==
  LET pending == ringbuffer_used(rb)
      sent    == IF room < pending THEN room ELSE pending
  IN  /\ xmitBuffer' = ringbuffer_commit_read_bytes(rb, IF room < pending THEN 0 ELSE sent, shrink)
      /\ delivered' = (delivered + sent) % ByteValues
      /\ room' = room - sent
      /\ writeBlocked' = (sent < pending)

\* transport_bio_buffered_write once the new bytes are in rb: BIO_write gets the
\* chunks of ringbuffer_peek until the kernel has no room, and what was sent is
\* committed.
Push(rb, shrink) ==
  LET pending == ringbuffer_used(rb)
      sent    == IF room < pending THEN room ELSE pending
  IN  /\ xmitBuffer' = ringbuffer_commit_read_bytes(rb, sent, shrink)
      /\ delivered' = (delivered + sent) % ByteValues
      /\ room' = room - sent
      /\ writeBlocked' = (sent < pending)

Connected == layer = "tcp" /\ room # -1

\* transport_write of n bytes: the buffered BIO takes them all, then the loop
\* waits when it has to.
transport_write(n, shrink) ==
  /\ Connected /\ ~sending
  /\ ringbuffer_used(xmitBuffer) + n <= MaxPending
  /\ Push(ringbuffer_write(xmitBuffer, [i \in 1..n |-> (produced + i - 1) % ByteValues]), shrink)
  /\ produced' = (produced + n) % ByteValues
  /\ sending' = (waitFlush /\ writeBlocked')
  /\ UNCHANGED <<waitFlush, layer>>

\* Mutated form of BIO_flush: the buffer is not tried again.
BIO_flush_nothing(shrink) ==
  UNCHANGED <<xmitBuffer, delivered, room>> /\ writeBlocked' = FALSE

\* BIO_CTRL_FLUSH
BIO_flush(shrink) ==
  IF ringbuffer_used(xmitBuffer) = 0
    THEN UNCHANGED <<xmitBuffer, delivered, room, writeBlocked>>
    ELSE Push(xmitBuffer, shrink)

\* One round of the loop in transport_write: BIO_wait_write returns after 100 ms
\* at the latest, then the flush.
FlushLoop(shrink) ==
  /\ Connected /\ sending
  /\ BIO_flush(shrink)
  /\ sending' = writeBlocked'
  /\ UNCHANGED <<waitFlush, layer, produced>>

\* transport_drain_output_buffer, by the thread that would write.
transport_drain_output_buffer(shrink) ==
  /\ Connected /\ ~sending /\ writeBlocked
  /\ BIO_flush(shrink)
  /\ UNCHANGED <<waitFlush, sending, layer, produced>>

\* transport_set_blocking_mode, as at the end of the connection sequence.
transport_set_blocking_mode ==
  /\ Connected /\ ~sending
  /\ waitFlush' = ~waitFlush
  /\ UNCHANGED <<xmitBuffer, writeBlocked, sending, layer, room, produced, delivered>>

\* A write, a flush or a drain that finds the connection reset: a fatal error.
WriteFails ==
  /\ layer = "tcp" /\ room = -1
  /\ layer' = "closed"
  /\ writeBlocked' = FALSE /\ sending' = FALSE
  /\ UNCHANGED <<xmitBuffer, waitFlush, room, produced, delivered>>

PeerReads ==
  /\ room \in 0..(SocketRoom - 1)
  /\ room' \in (room + 1)..SocketRoom
  /\ UNCHANGED <<xmitBuffer, writeBlocked, waitFlush, sending, layer, produced, delivered>>

PeerResets ==
  /\ Connected
  /\ room' = -1
  /\ UNCHANGED <<xmitBuffer, writeBlocked, waitFlush, sending, layer, produced, delivered>>

\* A new connection: transport_disconnect frees the BIOs, the next are new.
Reconnect ==
  /\ layer = "closed"
  /\ xmitBuffer' = ringbuffer_init
  /\ layer' = "tcp" /\ room' = SocketRoom
  /\ produced' = 0 /\ delivered' = 0
  /\ UNCHANGED <<writeBlocked, waitFlush, sending>>

FlushStep == \E shrink \in BOOLEAN : FlushLoop(shrink) \/ transport_drain_output_buffer(shrink)

SocketNext ==
  \/ \E n \in 1..MaxChunk, shrink \in BOOLEAN : transport_write(n, shrink)
  \/ FlushStep
  \/ transport_set_blocking_mode \/ WriteFails
  \/ PeerReads \/ PeerResets \/ Reconnect

SocketSpec == SocketInit /\ [][SocketNext]_socketVars

----------------------------------------------------------------------------
(* Properties.                                                             *)

\* The heads and the free space stay within the buffer (ringbuffer.c).
SocketTypeOK ==
  /\ xmitBuffer.size \in Nat \ {0}
  /\ xmitBuffer.buffer \in [0..(xmitBuffer.size - 1) -> 0..(ByteValues - 1) \cup {Garbage}]
  /\ xmitBuffer.readPtr \in 0..(xmitBuffer.size - 1)
  /\ xmitBuffer.writePtr \in 0..(xmitBuffer.size - 1)
  /\ xmitBuffer.freeSize \in 0..xmitBuffer.size
  /\ {writeBlocked, waitFlush, sending} \subseteq BOOLEAN
  /\ layer \in {"tcp", "closed"} /\ room \in -1..SocketRoom
  /\ {produced, delivered} \subseteq 0..(ByteValues - 1)

\* The transmit buffer has just the bytes that were written and not yet sent,
\* in their order, however it wraps around, grows and shrinks: no byte is
\* lost, repeated or replaced by what malloc left there.
NothingLost ==
  LET pending == ringbuffer_used(xmitBuffer) IN
  /\ pending = (produced - delivered) % ByteValues
  /\ ringbuffer_peek(xmitBuffer, pending) = [i \in 1..pending |-> (delivered + i - 1) % ByteValues]

\* ringbuffer_realloc takes equal heads for an empty buffer.  They are equal
\* just then, because a write always leaves a byte free.
HeadsTellEmpty ==
  /\ xmitBuffer.freeSize >= 1
  /\ xmitBuffer.writePtr = xmitBuffer.readPtr <=> ringbuffer_used(xmitBuffer) = 0

\* The flag by which transport_write, transport_drain_output_buffer and the
\* servers decide whether to flush is true when there are bytes to send, and
\* only then: no tail of a message stays behind until the next one is sent.
BlockedIffPending ==
  layer = "tcp" => (writeBlocked <=> ringbuffer_used(xmitBuffer) > 0)

\* Every byte that is written reaches the kernel, if the peer keeps reading:
\* the buffer never holds bytes of which no more is ever sent.
EveryByteLeaves ==
  \/ []<>(ringbuffer_used(xmitBuffer) = 0 \/ layer = "closed")
  \/ []<><<delivered' # delivered>>_delivered
=============================================================================
